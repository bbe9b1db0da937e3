---------------------- MODULE UbuntuMtpDatabaseProofs -----------------------
(***************************************************************************)
(* Theorems about the object database, for every tree, every set of calls  *)
(* and every number of operations: its handles and types and, when only    *)
(* the notifier and the scan at start-up touch it, that it agrees with the *)
(* tree.                                                                   *)
(***************************************************************************)
EXTENDS UbuntuMtpDatabase, FiniteSetTheorems, SequenceTheorems,
        WellFoundedInduction, TLAPS

Positive == Nat \ {0}

TaskFields == {"pc", "todo", "cur", "handle", "tmp", "skipped"}
TaskPcs == {"idle", "entry", "alloc", "watch", "insert_dir", "list", "stat",
            "insert_file", "begun", "reserved"}

\* The handles of the database, and those about to get there, are positive
\* numbers, and counter is one.
HandlesPositive ==
  /\ counter \in Positive
  /\ issued \subseteq Positive
  /\ DOMAIN db \subseteq Positive
  /\ DOMAIN task = Threads
  /\ \A t \in Threads :
       /\ DOMAIN task[t] = TaskFields
       /\ task[t].pc \in TaskPcs
       /\ task[t].pc \notin {"idle", "entry"} => task[t].handle \in Positive
       /\ task[t].pc = "reserved" => task[t].tmp \in Positive

-----------------------------------------------------------------------------
(* What the map operations do to the set of handles.                       *)

\* std::map::insert adds its key and no other.
LEMMA InsertDomain ==
  ASSUME NEW m, NEW k, NEW v
  PROVE  DOMAIN Insert(m, k, v) = DOMAIN m \cup {k}
BY DEF Insert

\* std::map::erase adds no key.
LEMMA EraseDomain ==
  ASSUME NEW m, NEW K
  PROVE  DOMAIN Erase(m, K) = DOMAIN m \ K
BY DEF Erase, Restrict

\* A walk that erases on its way adds no key, however it goes wrong.
LEMMA WalkedDomain ==
  ASSUME NEW m, NEW K, NEW w \in Walked(m, K)
  PROVE  DOMAIN w \subseteq DOMAIN m
<1>1. CASE K = {}
  BY <1>1 DEF Walked
<1>2. CASE K # {}
  <2>1. PICK S \in SUBSET K : w = Erase(m, S)
    BY <1>2 DEF Walked
  <2> QED BY <2>1, EraseDomain
<1> QED BY <1>1, <1>2

\* deleteFile adds no handle and forgets no undefined behaviour.
LEMMA DeleteFileDomain ==
  ASSUME NEW h, NEW u, DeleteFile(h, u)
  PROVE  DOMAIN db' \subseteq DOMAIN db /\ ub \subseteq ub'
<1>1. CASE h \in DOMAIN db
  <2>1. db' \in Walked(Erase(db, {h}), Children(h) \ {h})
    BY <1>1 DEF DeleteFile
  <2>2. DOMAIN db' \subseteq DOMAIN Erase(db, {h})
    BY <2>1, WalkedDomain
  <2>3. ub \subseteq ub'
    BY <1>1 DEF DeleteFile
  <2>4. DOMAIN Erase(db, {h}) = DOMAIN db \ {h}
    BY EraseDomain
  <2> QED BY <2>2, <2>3, <2>4
<1>2. CASE h \notin DOMAIN db
  BY <1>2 DEF DeleteFile
<1> QED BY <1>1, <1>2

-----------------------------------------------------------------------------
(* The steps, by what they leave alone.                                    *)

\* The calls that only take entries out or change them in place.
LEMMA InotifyDomain ==
  ASSUME InotifyHandler
  PROVE  /\ DOMAIN db' \subseteq DOMAIN db
         /\ ub \subseteq ub' /\ UNCHANGED <<counter, issued>>
         /\ task' = task \/ \E c : task' = [task EXCEPT !["notifier"].pc = "entry",
                                                     !["notifier"].todo = c]
<1> DEFINE e == Head(queue)
           u == EventUb(e.wd)
<1>1. UNCHANGED <<counter, issued>>
  BY DEF InotifyHandler
<1>2. PICK parent \in EventParents(e.wd) :
        LET p == Append(db[parent].path, e.name) IN
        \/ ub' = ub \cup u /\ UNCHANGED <<db, task>>
        \/ ub' = ub \cup u /\ OnCreate(parent, p)
        \/ ub' = ub \cup u /\ OnModify(p)
        \/ OnDelete(p, u)
  BY DEF InotifyHandler
<1> DEFINE p == Append(db[parent].path, e.name)
<1>3. CASE ub' = ub \cup u /\ UNCHANGED <<db, task>>
  BY <1>1, <1>3
<1>4. CASE ub' = ub \cup u /\ OnCreate(parent, p)
  BY <1>1, <1>4 DEF OnCreate
<1>5. CASE ub' = ub \cup u /\ OnModify(p)
  <2>1. DOMAIN db' = DOMAIN db /\ task' = task
    BY <1>5 DEF OnModify
  <2> QED BY <1>1, <1>5, <2>1
<1>6. CASE OnDelete(p, u)
  <2>1. task' = task
    BY <1>6 DEF OnDelete
  <2>2. CASE HandlesAt(p) # {}
    <3>1. DeleteFile(Min(HandlesAt(p)), u)
      BY <1>6, <2>2 DEF OnDelete
    <3>2. DOMAIN db' \subseteq DOMAIN db /\ ub \subseteq ub'
      BY <3>1, DeleteFileDomain
    <3> QED BY <1>1, <2>1, <3>2
  <2>3. CASE HandlesAt(p) = {}
    BY <1>1, <1>6, <2>1, <2>3 DEF OnDelete
  <2> QED BY <2>2, <2>3
<1> QED BY <1>2, <1>3, <1>4, <1>5, <1>6

\* Calls of the server's thread and of the daemon.
LEMMA ServerCallDomain ==
  ASSUME ServerCall
  PROVE  /\ DOMAIN db' \subseteq DOMAIN db
         /\ ub \subseteq ub' /\ UNCHANGED <<counter, issued, task>>
<1>1. UNCHANGED <<counter, issued, task>>
  BY DEF ServerCall
<1>2. CASE \E h \in DOMAIN db, ok \in BOOLEAN :
             EndSendObject(db[h].path, h, db[h].object_format, ok) /\ ub' = ub
  <2>1. PICK h \in DOMAIN db, ok \in BOOLEAN :
          EndSendObject(db[h].path, h, db[h].object_format, ok) /\ ub' = ub
    BY <1>2
  <2>2. DOMAIN Erase(db, {h}) = DOMAIN db \ {h}
    BY EraseDomain
  <2>3. DOMAIN db' \subseteq DOMAIN db
    BY <2>1, <2>2 DEF EndSendObject
  <2> QED BY <1>1, <2>1, <2>3
<1>3. CASE \E h \in DOMAIN db : DeleteFile(h, {})
  BY <1>1, <1>3, DeleteFileDomain
<1>4. CASE \E h \in DOMAIN db, q \in DOMAIN db \cup {0} :
             MoveFile(h, q) /\ ub' = ub
  BY <1>1, <1>4 DEF MoveFile
<1>5. CASE \E h \in DOMAIN db, n \in Names :
             SetPath(h, Append(Front(db[h].path), n)) /\ ub' = ub
  BY <1>1, <1>5 DEF SetPath
<1> QED BY <1>2, <1>3, <1>4, <1>5 DEF ServerCall

LEMMA RemoveStorageDomain ==
  ASSUME NEW s, RemoveStorage(s)
  PROVE  /\ DOMAIN db' \subseteq DOMAIN db
         /\ ub \subseteq ub' /\ UNCHANGED <<counter, issued, task>>
<1>1. db' \in Walked(db, {i \in DOMAIN db : db[i].storage_id = s})
  BY DEF RemoveStorage
<1>2. DOMAIN db' \subseteq DOMAIN db
  BY <1>1, WalkedDomain
<1> QED BY <1>2 DEF RemoveStorage

-----------------------------------------------------------------------------
(* Handles are positive.                                                   *)

\* A step that takes entries out, leaves the handles alone and at most sends
\* an idle thread into add_file_entry, keeps HandlesPositive.
LEMMA PositiveKept ==
  ASSUME HandlesPositive, DOMAIN db' \subseteq DOMAIN db,
         UNCHANGED <<counter, issued>>,
         \/ task' = task
         \/ \E t \in Threads : \E c :
              task' = [task EXCEPT ![t].pc = "entry", ![t].todo = c]
  PROVE  HandlesPositive'
<1>1. CASE task' = task
  BY <1>1 DEF HandlesPositive
<1>2. CASE \E t \in Threads : \E c :
             task' = [task EXCEPT ![t].pc = "entry", ![t].todo = c]
  <2>0. PICK t \in Threads : \E c :
          task' = [task EXCEPT ![t].pc = "entry", ![t].todo = c]
    BY <1>2
  <2>1. PICK c : task' = [task EXCEPT ![t].pc = "entry", ![t].todo = c]
    BY <2>0
  <2>2. /\ DOMAIN task = Threads
        /\ \A u \in Threads : DOMAIN task[u] = TaskFields
    BY DEF HandlesPositive
  <2>3. /\ DOMAIN task' = Threads /\ task'[t].pc = "entry"
        /\ DOMAIN task'[t] = TaskFields
        /\ \A u \in Threads \ {t} : task'[u] = task[u]
    BY <2>1, <2>2 DEF TaskFields
  <2> QED
    BY <2>3 DEF HandlesPositive, TaskPcs
<1> QED BY <1>1, <1>2

\* A thread that gives its scan up is idle, and the others go on.
LEMMA GaveUp ==
  ASSUME DOMAIN task = Threads, NEW t \in Threads, DOMAIN task[t] = TaskFields,
         NEW left, GiveUp(t, left)
  PROVE  /\ task'[t].pc = "idle" /\ task'[t].todo = <<>>
         /\ task'[t].cur = task[t].cur /\ task'[t].handle = task[t].handle
         /\ task'[t].tmp = task[t].tmp
         /\ task'[t].skipped = task[t].skipped \cup left
         /\ DOMAIN task' = Threads /\ DOMAIN task'[t] = TaskFields
         /\ \A u \in Threads \ {t} : task'[u] = task[u]
<1>1. task' = [task EXCEPT ![t].pc = "idle", ![t].todo = <<>>,
                           ![t].skipped = @ \cup left]
  BY DEF GiveUp
<1> QED BY <1>1 DEF TaskFields

LEMMA AddEntryPositive ==
  ASSUME HandlesPositive, NEW t \in Threads, AddEntryStep(t)
  PROVE  HandlesPositive'
<1> USE DEF HandlesPositive, TaskPcs, TaskFields, Positive
<1>1. CASE ReadCounter(t)
  <2>1. /\ task' = [task EXCEPT ![t].pc = "alloc", ![t].cur = Head(task[t].todo),
                                ![t].todo = Tail(task[t].todo),
                                ![t].handle = counter]
        /\ UNCHANGED <<db, counter, issued>>
    BY <1>1 DEF ReadCounter
  <2>2. /\ \A u \in Threads \ {t} : task'[u] = task[u]
        /\ DOMAIN task' = Threads /\ DOMAIN task'[t] = TaskFields
    BY <2>1
  <2>3. task'[t].pc = "alloc" /\ task'[t].handle = counter
    BY <2>1
  <2> QED
    BY <2>1, <2>2, <2>3
<1>2. CASE StoreCounter(t)
  BY <1>2 DEF StoreCounter, Return
<1>3. CASE WatchDirectory(t) \/ WatchRefused(t)
  BY <1>3 DEF WatchDirectory, WatchRefused
<1>8. ASSUME UNCHANGED <<db, counter, issued>>, NEW left, GiveUp(t, left)
      PROVE  HandlesPositive'
  <2>1. /\ \A u \in Threads \ {t} : task'[u] = task[u]
        /\ DOMAIN task' = Threads /\ DOMAIN task'[t] = TaskFields
        /\ task'[t].pc = "idle"
    BY <1>8, GaveUp
  <2> QED BY <1>8, <2>1
<1>4. CASE InsertDirectory(t)
  <2>1. CASE task[t].cur.path \in DOMAIN fs
    <3>0. db' = Insert(db, task[t].handle,
                       Entry(task[t].cur, ASSOCIATION, 0, task[t].tmp, TRUE))
      BY <1>4, <2>1 DEF InsertDirectory
    <3>1. DOMAIN db' = DOMAIN db \cup {task[t].handle}
      BY <3>0, InsertDomain
    <3>2. /\ counter' = counter /\ issued' = issued \cup {task[t].handle}
          /\ task' = [task EXCEPT ![t].pc = "list"]
          /\ task[t].pc = "insert_dir"
      BY <1>4, <2>1 DEF InsertDirectory
    <3>3. task[t].handle \in Positive
      BY <3>2
    <3>4. issued' \subseteq Positive /\ DOMAIN db' \subseteq Positive
      BY <3>1, <3>2, <3>3
    <3> QED BY <3>2, <3>3, <3>4
  <2>2. CASE task[t].cur.path \notin DOMAIN fs
    <3>1. UNCHANGED <<db, counter, issued>> /\ \E left : GiveUp(t, left)
      BY <1>4, <2>2 DEF InsertDirectory
    <3> QED BY <1>8, <3>1
  <2> QED BY <2>1, <2>2
<1>5. CASE ListDirectory(t)
  <2>1. /\ task[t].pc = "list" /\ UNCHANGED <<db, counter, issued>>
        /\ \E v : \E pc \in {"idle", "entry"} :
             task' = [task EXCEPT ![t].todo = v, ![t].pc = pc]
    BY <1>5 DEF ListDirectory
  <2>2. PICK v, pc : /\ pc \in {"idle", "entry"}
                     /\ task' = [task EXCEPT ![t].todo = v, ![t].pc = pc]
    BY <2>1
  <2>3. /\ \A u \in Threads \ {t} : task'[u] = task[u]
        /\ DOMAIN task' = Threads /\ DOMAIN task'[t] = TaskFields
        /\ task'[t].pc = pc /\ task'[t].handle = task[t].handle
    BY <2>2
  <2> QED
    BY <2>1, <2>2, <2>3
<1>6. CASE StatFile(t)
  BY <1>6 DEF StatFile, Return
<1>7. CASE InsertFile(t)
  <2>1. PICK wd \in UninitWatch :
          db' = Insert(db, task[t].handle,
                       Entry(task[t].cur, UNDEFINED, task[t].cur.size, wd, FALSE))
    BY <1>7 DEF InsertFile
  <2>2. DOMAIN db' = DOMAIN db \cup {task[t].handle}
    BY <2>1, InsertDomain
  <2>3. /\ counter' = counter /\ issued' = issued \cup {task[t].handle}
        /\ task' = [task EXCEPT ![t].pc = Return(t)]
        /\ task[t].pc = "insert_file"
    BY <1>7 DEF InsertFile
  <2>4. task[t].handle \in Positive
    BY <2>3
  <2>5. issued' \subseteq Positive /\ DOMAIN db' \subseteq Positive
    BY <2>2, <2>3, <2>4
  <2> QED BY <2>3, <2>4, <2>5 DEF Return
<1>9. CASE ListingRefused(t)
  BY <1>8, <1>9 DEF ListingRefused
<1> QED BY <1>1, <1>2, <1>3, <1>4, <1>5, <1>6, <1>7, <1>9 DEF AddEntryStep

\* beginSendObject with any argument, and what follows it.
SendCall ==
  \/ \E p, f, q, s, z : BeginSendObject(p, f, q, s, z)
  \/ ReserveEntry
  \/ FinishBeginSend

LEMMA ServerSendIsSendCall == ServerSend => SendCall
BY DEF ServerSend, SendCall

LEMMA SendPositive ==
  ASSUME HandlesPositive, SendCall
  PROVE  HandlesPositive'
<1> USE DEF HandlesPositive, TaskPcs, TaskFields, Positive, Threads
<1>1. ASSUME NEW p, NEW f, NEW q, NEW s, NEW z, BeginSendObject(p, f, q, s, z)
      PROVE  HandlesPositive'
  BY <1>1 DEF BeginSendObject
<1>2. CASE ReserveEntry
  <2> DEFINE r == task["server"]
  <2>1. PICK wd \in UninitWatch :
          db' = Insert(db, r.handle,
                       Entry(r.cur, r.cur.format, r.cur.size, wd, FALSE))
    BY <1>2 DEF ReserveEntry
  <2>2. DOMAIN db' = DOMAIN db \cup {r.handle}
    BY <2>1, InsertDomain
  <2>3. /\ counter' = counter /\ issued' = issued \cup {r.handle}
        /\ task' = [task EXCEPT !["server"].pc = "reserved",
                                !["server"].tmp = counter]
        /\ r.pc = "begun"
    BY <1>2 DEF ReserveEntry
  <2> QED BY <2>2, <2>3
<1>3. CASE FinishBeginSend
  BY <1>3 DEF FinishBeginSend
<1> QED BY <1>1, <1>2, <1>3 DEF SendCall

\* Every step keeps the handles positive.
LEMMA PositiveStep ==
  ASSUME HandlesPositive, [DatabaseNext]_databaseVars
  PROVE  HandlesPositive'
<1>1. CASE UNCHANGED databaseVars
  BY <1>1, PositiveKept DEF databaseVars, dbVars
<1>2. CASE Local
  BY <1>2, PositiveKept DEF Local, dbVars
<1>3. ASSUME NEW t \in {"notifier", "daemon"}, AddEntryStep(t)
      PROVE  HandlesPositive'
  BY <1>3, AddEntryPositive DEF Threads
<1>4. CASE InotifyHandler
  BY <1>4, InotifyDomain, PositiveKept DEF Threads
<1>5. CASE ServerCall
  BY <1>5, ServerCallDomain, PositiveKept
<1>6. CASE ServerSend
  BY <1>6, SendPositive, ServerSendIsSendCall
<1>7. CASE StorageCall
  <2>1. CASE RemoveStorage(MTP_STORAGE_REMOVABLE_RAM)
    BY <2>1, RemoveStorageDomain, PositiveKept
  <2>2. CASE AddStoragePath(Card, MTP_STORAGE_REMOVABLE_RAM, TRUE)
    BY <2>2, PositiveKept DEF AddStoragePath, Threads
  <2> QED BY <1>7, <2>1, <2>2 DEF StorageCall
<1> QED BY <1>1, <1>2, <1>3, <1>4, <1>5, <1>6, <1>7 DEF DatabaseNext, DbStep

LEMMA PositiveInit == DatabaseInit => HandlesPositive
<1> SUFFICES ASSUME DatabaseInit PROVE HandlesPositive
  OBVIOUS
<1>1. counter = 1 /\ issued = {} /\ DOMAIN db = {}
  BY DEF DatabaseInit, DbInit, EmptyMap
<1>2. DOMAIN task = Threads
  BY DEF DatabaseInit, DbInit
<1>3. ASSUME NEW t \in Threads
      PROVE  DOMAIN task[t] = TaskFields /\ task[t].pc \in {"idle", "entry"}
  <2>1. CASE t = "daemon"
    BY <2>1 DEF DatabaseInit, DbInit, IdleTask, TaskFields
  <2>2. CASE t # "daemon"
    BY <1>3, <2>2 DEF DatabaseInit, DbInit, IdleTask, TaskFields
  <2> QED BY <2>1, <2>2
<1> QED BY <1>1, <1>2, <1>3 DEF HandlesPositive, Positive, TaskPcs

-----------------------------------------------------------------------------
(* Handles are fresh.                                                      *)

\* A thread that has its handle and has not inserted under it, after counter
\* was incremented.
Holding(t) == task[t].pc \in {"watch", "insert_dir", "stat", "insert_file"}

\* One thread at most is between the read of counter and its increment ...
OneInWindow ==
  \A t, u \in Threads : InWindow(t) /\ InWindow(u) => t = u
\* ... and what it has read is still the value of counter.
WindowAtCounter ==
  \A t \in Threads : InWindow(t) =>
    /\ task[t].handle = counter
    /\ task[t].pc = "reserved" => task[t].tmp = counter
HoldersBelow ==
  \A t \in Threads : Holding(t) =>
    task[t].handle < counter /\ task[t].handle \notin issued
HoldersApart ==
  \A t, u \in Threads : Holding(t) /\ Holding(u) /\ t # u =>
    task[t].handle # task[u].handle
\* beginSendObject inserts before it increments.
IssuedBelow ==
  \A i \in issued :
    i < counter \/ (i = counter /\ \E t \in Threads : task[t].pc = "reserved")

FreshParts ==
  OneInWindow /\ WindowAtCounter /\ HoldersBelow /\ HoldersApart /\ IssuedBelow

\* The inductive strengthening of HandlesFreshUnlessRaced.
HandlesFreshInv ==
  HandlesPositive /\ ("counter" \notin ub => FreshParts)

\* The strengthening implies the property.
LEMMA FreshInvImplies == HandlesFreshInv => HandlesFreshUnlessRaced
<1> SUFFICES ASSUME HandlesFreshInv, "counter" \notin ub
             PROVE  HandlesFresh
  BY DEF HandlesFreshUnlessRaced
<1>0. FreshParts
  BY DEF HandlesFreshInv
<1> USE DEF Inserting, InWindow, Holding
<1>1. ASSUME NEW t \in Threads, Inserting(t)
      PROVE  task[t].handle \notin issued
  <2>1. CASE Holding(t)
    BY <1>0, <2>1 DEF FreshParts, HoldersBelow
  <2>2. CASE task[t].pc \in {"alloc", "begun"}
    <3>1. task[t].handle = counter /\ counter \in Nat
      BY <1>0, <2>2 DEF FreshParts, WindowAtCounter, HandlesFreshInv,
                        HandlesPositive, Positive
    <3>2. \A u \in Threads : task[u].pc # "reserved"
      BY <1>0, <2>2 DEF FreshParts, OneInWindow
    <3>3. ~(counter < counter)
      BY <3>1
    <3> QED BY <1>0, <3>1, <3>2, <3>3 DEF FreshParts, IssuedBelow
  <2> QED BY <1>1, <2>1, <2>2
<1>2. ASSUME NEW t \in Threads, NEW u \in Threads \ {t},
             Inserting(t), Inserting(u)
      PROVE  task[u].handle # task[t].handle
  <2>1. counter \in Nat
    BY DEF HandlesFreshInv, HandlesPositive, Positive
  <2>2. CASE Holding(t) /\ Holding(u)
    BY <1>0, <2>2 DEF FreshParts, HoldersApart
  <2>3. CASE InWindow(t) /\ Holding(u)
    <3>1. task[t].handle = counter /\ task[u].handle < counter
      BY <1>0, <2>3 DEF FreshParts, WindowAtCounter, HoldersBelow
    <3> QED BY <2>1, <3>1
  <2>4. CASE Holding(t) /\ InWindow(u)
    <3>1. task[u].handle = counter /\ task[t].handle < counter
      BY <1>0, <2>4 DEF FreshParts, WindowAtCounter, HoldersBelow
    <3> QED BY <2>1, <3>1
  <2>5. CASE InWindow(t) /\ InWindow(u)
    BY <1>0, <2>5 DEF FreshParts, OneInWindow
  <2> QED BY <1>2, <2>2, <2>3, <2>4, <2>5
<1> QED BY <1>1, <1>2 DEF HandlesFresh

\* Threads move on without touching a handle or the counter.
LEMMA FreshMoved ==
  ASSUME HandlesPositive, FreshParts, UNCHANGED <<counter, issued>>,
         DOMAIN task' = Threads,
         \A t \in Threads :
           /\ task'[t].handle = task[t].handle /\ task'[t].tmp = task[t].tmp
           /\ InWindow(t)' <=> InWindow(t)
           /\ Holding(t)' => Holding(t)
           /\ task'[t].pc = "reserved" <=> task[t].pc = "reserved"
  PROVE  FreshParts'
<1>1. OneInWindow'
  BY DEF FreshParts, OneInWindow
<1>2. WindowAtCounter'
  BY DEF FreshParts, WindowAtCounter
<1>3. HoldersBelow'
  BY DEF FreshParts, HoldersBelow
<1>4. HoldersApart'
  BY DEF FreshParts, HoldersApart
<1>5. IssuedBelow'
  BY DEF FreshParts, IssuedBelow
<1> QED BY <1>1, <1>2, <1>3, <1>4, <1>5 DEF FreshParts

\* The calls that do not take a handle.
LEMMA FreshKept ==
  ASSUME HandlesFreshInv, HandlesPositive', ub \subseteq ub',
         UNCHANGED <<counter, issued>>,
         \/ task' = task
         \/ \E t \in Threads : \E c : task[t].pc = "idle" /\
              task' = [task EXCEPT ![t].pc = "entry", ![t].todo = c]
  PROVE  HandlesFreshInv'
<1> SUFFICES ASSUME "counter" \notin ub' PROVE FreshParts'
  BY DEF HandlesFreshInv
<1>1. HandlesPositive /\ FreshParts
  BY DEF HandlesFreshInv
<1>2. DOMAIN task' = Threads
  BY DEF HandlesPositive
<1>3. ASSUME NEW t \in Threads
      PROVE  /\ task'[t].handle = task[t].handle /\ task'[t].tmp = task[t].tmp
             /\ InWindow(t)' <=> InWindow(t)
             /\ Holding(t)' => Holding(t)
             /\ task'[t].pc = "reserved" <=> task[t].pc = "reserved"
  <2>1. CASE task' = task
    BY <2>1 DEF InWindow, Holding
  <2>2. CASE task' # task
    <3>0. PICK u \in Threads :
            \E c : /\ task[u].pc = "idle"
                  /\ task' = [task EXCEPT ![u].pc = "entry", ![u].todo = c]
      BY <2>2
    <3>1. PICK c : /\ task[u].pc = "idle"
                   /\ task' = [task EXCEPT ![u].pc = "entry", ![u].todo = c]
      BY <3>0
    <3>2. /\ task'[t].handle = task[t].handle /\ task'[t].tmp = task[t].tmp
          /\ task'[t].pc = IF t = u THEN "entry" ELSE task[t].pc
      BY <1>1, <3>1 DEF HandlesPositive, TaskFields
    <3> QED BY <3>1, <3>2 DEF InWindow, Holding
  <2> QED BY <2>1, <2>2
<1> QED BY <1>1, <1>2, <1>3, FreshMoved

LEMMA FreshAddEntry ==
  ASSUME HandlesFreshInv, HandlesPositive', NEW t \in Threads, AddEntryStep(t)
  PROVE  HandlesFreshInv'
<1> SUFFICES ASSUME "counter" \notin ub' PROVE FreshParts'
  BY DEF HandlesFreshInv
<1>0. DOMAIN task = Threads /\ \A u \in Threads : DOMAIN task[u] = TaskFields
  BY DEF HandlesFreshInv, HandlesPositive
<1>1. CASE ReadCounter(t)
  <2>1. /\ task' = [task EXCEPT ![t].pc = "alloc", ![t].cur = Head(task[t].todo),
                                ![t].todo = Tail(task[t].todo),
                                ![t].handle = counter]
        /\ task[t].pc = "entry" /\ UNCHANGED <<counter, issued>>
        /\ "counter" \notin ub /\ "counter" \notin CounterRace(t)
    BY <1>1 DEF ReadCounter
  <2>2. /\ task'[t].pc = "alloc" /\ task'[t].handle = counter
        /\ \A u \in Threads \ {t} : task'[u] = task[u]
    BY <1>0, <2>1 DEF TaskFields
  <2>3. \A u \in Threads \ {t} : ~InWindow(u)
    BY <2>1 DEF CounterRace
  <2>4. FreshParts
    BY <2>1 DEF HandlesFreshInv
  <2>5. OneInWindow'
    BY <2>2, <2>3 DEF OneInWindow, InWindow
  <2>6. WindowAtCounter'
    BY <2>1, <2>2, <2>3 DEF WindowAtCounter, InWindow
  <2>7. HoldersBelow'
    <3>1. ASSUME NEW u \in Threads, Holding(u)'
          PROVE  Holding(u) /\ task'[u].handle = task[u].handle
      BY <2>2, <3>1 DEF Holding
    <3>2. HoldersBelow /\ counter' = counter /\ issued' = issued
      BY <2>1, <2>4 DEF FreshParts
    <3> QED BY <3>1, <3>2 DEF HoldersBelow
  <2>8. HoldersApart'
    BY <2>1, <2>2, <2>4, ZenonT(40) DEF FreshParts, HoldersApart, Holding
  <2>9. IssuedBelow'
    BY <2>1, <2>2, <2>4 DEF FreshParts, IssuedBelow
  <2> QED BY <2>5, <2>6, <2>7, <2>8, <2>9 DEF FreshParts
<1>2. CASE StoreCounter(t)
  <2>1. /\ task[t].pc = "alloc" /\ issued' = issued /\ ub' = ub
        /\ counter' \in {task[t].handle + 1, counter + 1}
        /\ \E pc \in {"watch", "stat", "idle", "entry"} :
             task' = [task EXCEPT ![t].pc = pc]
    BY <1>2 DEF StoreCounter, Return
  <2>2. /\ task'[t].pc \in {"watch", "stat", "idle", "entry"}
        /\ task'[t].handle = task[t].handle
        /\ \A u \in Threads \ {t} : task'[u] = task[u]
    BY <1>0, <2>1 DEF TaskFields
  <2>3. FreshParts
    BY <2>1 DEF HandlesFreshInv
  <2>4. /\ counter \in Nat /\ task[t].handle = counter /\ counter' = counter + 1
        /\ \A u \in Threads \ {t} : ~InWindow(u)
    BY <2>1, <2>3 DEF FreshParts, OneInWindow, WindowAtCounter, InWindow,
                      HandlesFreshInv, HandlesPositive, Positive
  <2>5. OneInWindow' /\ WindowAtCounter'
    BY <2>2, <2>4 DEF OneInWindow, WindowAtCounter, InWindow
  <2>6. \A i \in issued : i < counter
    BY <2>1, <2>3, <2>4 DEF FreshParts, IssuedBelow, InWindow
  <2>7. \A u \in Threads : Holding(u)' => task'[u].handle < counter'
    <3> SUFFICES ASSUME NEW u \in Threads, Holding(u)'
                 PROVE  task'[u].handle < counter'
      OBVIOUS
    <3>1. CASE u = t
      BY <2>2, <2>4, <3>1
    <3>2. CASE u # t
      <4>1. Holding(u) /\ task'[u].handle = task[u].handle
        BY <2>2, <3>2 DEF Holding
      <4>2. task[u].handle < counter /\ task[u].handle \in Nat
        BY <2>3, <4>1 DEF FreshParts, HoldersBelow, Holding, HandlesFreshInv,
                          HandlesPositive, Positive
      <4> QED BY <2>4, <4>1, <4>2
    <3> QED BY <3>1, <3>2
  <2>8. \A u \in Threads : Holding(u)' => task'[u].handle \notin issued'
    <3> SUFFICES ASSUME NEW u \in Threads, Holding(u)'
                 PROVE  task'[u].handle \notin issued'
      OBVIOUS
    <3>1. CASE u = t
      <4>1. ~(counter < counter)
        BY <2>4
      <4> QED BY <2>1, <2>2, <2>4, <2>6, <3>1, <4>1
    <3>2. CASE u # t
      BY <2>1, <2>2, <2>3, <3>2 DEF FreshParts, HoldersBelow, Holding
    <3> QED BY <3>1, <3>2
  <2>9. HoldersBelow'
    BY <2>7, <2>8 DEF HoldersBelow
  <2>10. HoldersApart'
    <3> SUFFICES ASSUME NEW u \in Threads, NEW v \in Threads,
                        Holding(u)', Holding(v)', u # v
                 PROVE  task'[u].handle # task'[v].handle
      BY DEF HoldersApart
    <3>1. ASSUME NEW w \in Threads \ {t}, Holding(w)'
          PROVE  task'[w].handle # counter
      <4>1. Holding(w) /\ task'[w].handle = task[w].handle
        BY <2>2, <3>1 DEF Holding
      <4>2. task[w].handle < counter
        BY <2>3, <4>1 DEF FreshParts, HoldersBelow
      <4> QED BY <2>4, <4>1, <4>2
    <3>2. CASE u # t /\ v # t
      BY <2>2, <2>3, <3>2 DEF FreshParts, HoldersApart, Holding
    <3> QED BY <2>2, <2>4, <3>1, <3>2
  <2>11. IssuedBelow'
    <3> SUFFICES ASSUME NEW i \in issued PROVE i < counter'
      BY <2>1 DEF IssuedBelow
    <3>1. i < counter /\ i \in Nat
      BY <2>6 DEF HandlesFreshInv, HandlesPositive, Positive
    <3> QED BY <2>4, <3>1
  <2> QED BY <2>5, <2>9, <2>10, <2>11 DEF FreshParts
<1>3. ASSUME /\ UNCHANGED <<counter, issued>>
             /\ \E pc \in TaskPcs :
                  /\ task'[t].pc = pc /\ task'[t].handle = task[t].handle
                  /\ pc \notin {"alloc", "begun", "reserved"}
                  /\ pc \in {"watch", "insert_dir", "stat", "insert_file"}
                       => Holding(t)
             /\ ~InWindow(t) /\ ub' = ub
             /\ \A u \in Threads \ {t} : task'[u] = task[u]
      PROVE  FreshParts'
  <2>1. FreshParts /\ HandlesPositive
    BY <1>3 DEF HandlesFreshInv
  <2>2. ~InWindow(t)' /\ \A u \in Threads \ {t} : InWindow(u)' <=> InWindow(u)
    BY <1>3 DEF InWindow
  <2>3. OneInWindow' /\ WindowAtCounter'
    BY <1>3, <2>1, <2>2 DEF FreshParts, OneInWindow, WindowAtCounter
  <2>4. \A u \in Threads :
          /\ task'[u].handle = task[u].handle
          /\ Holding(u)' => Holding(u)
    BY <1>3 DEF Holding
  <2>5. HoldersBelow' /\ HoldersApart'
    BY <1>3, <2>1, <2>4 DEF FreshParts, HoldersBelow, HoldersApart
  <2>6. IssuedBelow'
    BY <1>3, <2>1 DEF FreshParts, IssuedBelow, InWindow
  <2> QED BY <2>3, <2>5, <2>6 DEF FreshParts
<1>4. CASE WatchDirectory(t) \/ WatchRefused(t)
  <2>1. /\ task[t].pc = "watch" /\ UNCHANGED <<counter, issued, ub>>
        /\ \E wd : task' = [task EXCEPT ![t].pc = "insert_dir", ![t].tmp = wd]
    BY <1>4 DEF WatchDirectory, WatchRefused
  <2>2. /\ task'[t].pc = "insert_dir" /\ task'[t].handle = task[t].handle
        /\ \A u \in Threads \ {t} : task'[u] = task[u]
    BY <1>0, <2>1 DEF TaskFields
  <2> QED BY <1>3, <2>1, <2>2 DEF InWindow, Holding, TaskPcs
<1>5. CASE ListDirectory(t)
  <2>1. /\ task[t].pc = "list" /\ UNCHANGED <<counter, issued, ub>>
        /\ \E c : \E pc \in {"idle", "entry"} :
             task' = [task EXCEPT ![t].todo = c, ![t].pc = pc]
    BY <1>5 DEF ListDirectory
  <2>2. /\ task'[t].pc \in {"idle", "entry"}
        /\ task'[t].handle = task[t].handle
        /\ \A u \in Threads \ {t} : task'[u] = task[u]
    BY <1>0, <2>1 DEF TaskFields
  <2> QED BY <1>3, <2>1, <2>2 DEF InWindow, Holding, TaskPcs
<1>6. CASE StatFile(t)
  <2>1. task[t].pc = "stat" /\ UNCHANGED <<counter, issued, ub>>
    BY <1>6 DEF StatFile
  <2>2. /\ task'[t].pc \in {"insert_file", "idle", "entry"}
        /\ task'[t].handle = task[t].handle
        /\ \A u \in Threads \ {t} : task'[u] = task[u]
    BY <1>0, <1>6 DEF StatFile, Return, TaskFields
  <2> QED BY <1>3, <2>1, <2>2 DEF InWindow, Holding, TaskPcs
<1>7. ASSUME /\ Holding(t) /\ UNCHANGED <<counter, ub>>
             /\ issued' = issued \cup {task[t].handle}
             /\ task'[t].pc \in {"list", "idle", "entry"}
             /\ \A u \in Threads \ {t} : task'[u] = task[u]
      PROVE  FreshParts'
  <2>1. FreshParts /\ HandlesPositive
    BY <1>7 DEF HandlesFreshInv
  <2>2. ~InWindow(t)' /\ ~Holding(t)'
    BY <1>7 DEF InWindow, Holding
  <2>3. OneInWindow' /\ WindowAtCounter'
    BY <1>7, <2>1, <2>2 DEF FreshParts, OneInWindow, WindowAtCounter, InWindow
  <2>4. \A u \in Threads \ {t} :
          /\ task'[u].handle = task[u].handle
          /\ Holding(u)' => Holding(u) /\ task[u].handle # task[t].handle
    BY <1>7, <2>1 DEF FreshParts, HoldersApart, Holding
  <2>5. HoldersBelow' /\ HoldersApart'
    BY <1>7, <2>1, <2>2, <2>4 DEF FreshParts, HoldersBelow, HoldersApart
  <2>6. task[t].handle < counter
    BY <1>7, <2>1 DEF FreshParts, HoldersBelow
  <2>7. IssuedBelow'
    BY <1>7, <2>1, <2>6 DEF FreshParts, IssuedBelow, Holding
  <2> QED BY <2>3, <2>5, <2>7 DEF FreshParts
<1>8. CASE InsertDirectory(t)
  <2>1. Holding(t) /\ ~InWindow(t)
    BY <1>8 DEF InsertDirectory, Holding, InWindow
  <2>2. CASE task[t].cur.path \in DOMAIN fs
    <3>1. /\ issued' = issued \cup {task[t].handle} /\ UNCHANGED <<counter, ub>>
          /\ task' = [task EXCEPT ![t].pc = "list"]
      BY <1>8, <2>2 DEF InsertDirectory
    <3>2. task'[t].pc = "list" /\ \A u \in Threads \ {t} : task'[u] = task[u]
      BY <1>0, <3>1 DEF TaskFields
    <3> QED BY <1>7, <2>1, <3>1, <3>2
  <2>3. CASE task[t].cur.path \notin DOMAIN fs
    <3>1. UNCHANGED <<counter, issued, ub>> /\ \E left : GiveUp(t, left)
      BY <1>8, <2>3 DEF InsertDirectory
    <3>2. /\ task'[t].pc = "idle" /\ task'[t].handle = task[t].handle
          /\ \A u \in Threads \ {t} : task'[u] = task[u]
      BY <1>0, <3>1, GaveUp
    <3> QED BY <1>3, <2>1, <3>1, <3>2 DEF TaskPcs
  <2> QED BY <2>2, <2>3
<1>9. CASE InsertFile(t)
  <2>1. /\ Holding(t) /\ issued' = issued \cup {task[t].handle}
        /\ UNCHANGED <<counter, ub>>
        /\ task' = [task EXCEPT ![t].pc = Return(t)]
    BY <1>9 DEF InsertFile, Holding
  <2>2. /\ task'[t].pc \in {"idle", "entry"}
        /\ \A u \in Threads \ {t} : task'[u] = task[u]
    BY <1>0, <2>1 DEF TaskFields, Return
  <2> QED BY <1>7, <2>1, <2>2
<1>10. CASE ListingRefused(t)
  <2>1. /\ UNCHANGED <<counter, issued, ub>> /\ task[t].pc = "list"
        /\ \E left : GiveUp(t, left)
    BY <1>10 DEF ListingRefused
  <2>2. /\ task'[t].pc = "idle" /\ task'[t].handle = task[t].handle
        /\ \A u \in Threads \ {t} : task'[u] = task[u]
    BY <1>0, <2>1, GaveUp
  <2> QED BY <1>3, <2>1, <2>2 DEF InWindow, Holding, TaskPcs
<1> QED BY <1>1, <1>2, <1>4, <1>5, <1>6, <1>8, <1>9, <1>10 DEF AddEntryStep

LEMMA FreshSend ==
  ASSUME HandlesFreshInv, HandlesPositive', SendCall
  PROVE  HandlesFreshInv'
<1> SUFFICES ASSUME "counter" \notin ub' PROVE FreshParts'
  BY DEF HandlesFreshInv
<1> DEFINE s == "server"
<1>0. /\ DOMAIN task = Threads /\ \A u \in Threads : DOMAIN task[u] = TaskFields
      /\ s \in Threads /\ counter \in Nat
  BY DEF HandlesFreshInv, HandlesPositive, Threads, Positive
<1> HIDE DEF s
<1>1. ASSUME NEW p, NEW f, NEW q, NEW g, NEW z, BeginSendObject(p, f, q, g, z)
      PROVE  FreshParts'
  <2>1. /\ \E c : task' = [task EXCEPT ![s].pc = "begun", ![s].handle = counter,
                                       ![s].cur = c]
        /\ task[s].pc = "idle" /\ UNCHANGED <<counter, issued>>
        /\ "counter" \notin ub /\ "counter" \notin CounterRace(s)
    BY <1>1 DEF BeginSendObject, Idle, s
  <2>2. /\ task'[s].pc = "begun" /\ task'[s].handle = counter
        /\ \A u \in Threads \ {s} : task'[u] = task[u]
    BY <1>0, <2>1 DEF TaskFields
  <2>3. \A u \in Threads \ {s} : ~InWindow(u)
    BY <2>1 DEF CounterRace
  <2>4. FreshParts
    BY <2>1 DEF HandlesFreshInv
  <2>5. OneInWindow'
    BY <2>2, <2>3 DEF OneInWindow, InWindow
  <2>6. WindowAtCounter'
    BY <2>1, <2>2, <2>3 DEF WindowAtCounter, InWindow
  <2>7. ASSUME NEW u \in Threads, Holding(u)'
        PROVE  Holding(u) /\ task'[u].handle = task[u].handle
    BY <2>2, <2>7 DEF Holding
  <2>8. HoldersBelow' /\ HoldersApart'
    BY <2>1, <2>4, <2>7 DEF FreshParts, HoldersBelow, HoldersApart
  <2>9. IssuedBelow'
    BY <2>1, <2>2, <2>4 DEF FreshParts, IssuedBelow
  <2> QED BY <2>5, <2>6, <2>8, <2>9 DEF FreshParts
<1>2. CASE ReserveEntry
  <2>1. /\ issued' = issued \cup {task[s].handle} /\ UNCHANGED <<counter, ub>>
        /\ task' = [task EXCEPT ![s].pc = "reserved", ![s].tmp = counter]
        /\ task[s].pc = "begun"
    BY <1>2 DEF ReserveEntry, s
  <2>2. /\ task'[s].pc = "reserved" /\ task'[s].tmp = counter
        /\ task'[s].handle = task[s].handle
        /\ \A u \in Threads \ {s} : task'[u] = task[u]
    BY <1>0, <2>1 DEF TaskFields
  <2>3. FreshParts
    BY <2>1 DEF HandlesFreshInv
  <2>4. /\ task[s].handle = counter
        /\ \A u \in Threads \ {s} : ~InWindow(u)
    BY <1>0, <2>1, <2>3 DEF FreshParts, OneInWindow, WindowAtCounter, InWindow
  <2>5. OneInWindow'
    BY <2>2, <2>4 DEF OneInWindow, InWindow
  <2>6. WindowAtCounter'
    BY <2>1, <2>2, <2>4 DEF WindowAtCounter, InWindow
  <2>7. ASSUME NEW u \in Threads, Holding(u)'
        PROVE  Holding(u) /\ task'[u].handle = task[u].handle
    BY <2>2, <2>7 DEF Holding
  <2>8. HoldersApart'
    BY <2>3, <2>7 DEF FreshParts, HoldersApart
  <2>9. HoldersBelow'
    <3> SUFFICES ASSUME NEW u \in Threads, Holding(u)'
                 PROVE  task'[u].handle < counter' /\ task'[u].handle \notin issued'
      BY DEF HoldersBelow
    <3>1. task[u].handle < counter /\ task[u].handle \notin issued
      BY <2>3, <2>7 DEF FreshParts, HoldersBelow
    <3>2. task[u].handle # counter
      BY <1>0, <3>1
    <3>3. issued' = issued \cup {counter} /\ counter' = counter
      BY <2>1, <2>4
    <3>4. task'[u].handle = task[u].handle
      BY <2>7
    <3> QED BY <3>1, <3>2, <3>3, <3>4
  <2>10. IssuedBelow'
    <3>1. \A i \in issued : i < counter
      BY <2>1, <2>3, <2>4 DEF FreshParts, IssuedBelow, InWindow
    <3>2. \A i \in issued' : i < counter' \/ i = counter'
      BY <2>1, <2>4, <3>1
    <3>3. \E t \in Threads : task'[t].pc = "reserved"
      BY <1>0, <2>2
    <3> QED BY <3>2, <3>3 DEF IssuedBelow
  <2> QED BY <2>5, <2>6, <2>8, <2>9, <2>10 DEF FreshParts
<1>3. CASE FinishBeginSend
  <2>1. /\ UNCHANGED <<issued, ub>> /\ counter' = task[s].tmp + 1
        /\ task' = [task EXCEPT ![s].pc = "idle"]
        /\ task[s].pc = "reserved"
    BY <1>3 DEF FinishBeginSend, s
  <2>2. /\ task'[s].pc = "idle"
        /\ \A u \in Threads \ {s} : task'[u] = task[u]
    BY <1>0, <2>1 DEF TaskFields
  <2>3. FreshParts
    BY <2>1 DEF HandlesFreshInv
  <2>4. /\ counter' = counter + 1
        /\ \A u \in Threads \ {s} : ~InWindow(u)
    BY <1>0, <2>1, <2>3 DEF FreshParts, OneInWindow, WindowAtCounter, InWindow
  <2>5. OneInWindow' /\ WindowAtCounter'
    BY <2>2, <2>4 DEF OneInWindow, WindowAtCounter, InWindow
  <2>6. ASSUME NEW u \in Threads, Holding(u)'
        PROVE  Holding(u) /\ task'[u].handle = task[u].handle
    BY <2>2, <2>6 DEF Holding
  <2>7. HoldersApart'
    BY <2>3, <2>6 DEF FreshParts, HoldersApart
  <2>8. HoldersBelow'
    <3> SUFFICES ASSUME NEW u \in Threads, Holding(u)'
                 PROVE  task'[u].handle < counter' /\ task'[u].handle \notin issued'
      BY DEF HoldersBelow
    <3>1. task[u].handle < counter /\ task[u].handle \notin issued
      BY <2>3, <2>6 DEF FreshParts, HoldersBelow
    <3>2. task[u].handle \in Nat
      BY <2>6 DEF Holding, HandlesFreshInv, HandlesPositive, Positive
    <3> QED BY <1>0, <2>1, <2>4, <2>6, <3>1, <3>2
  <2>9. IssuedBelow'
    <3> SUFFICES ASSUME NEW i \in issued PROVE i < counter'
      BY <2>1 DEF IssuedBelow
    <3>1. i \in Nat /\ (i < counter \/ i = counter)
      BY <2>3 DEF FreshParts, IssuedBelow, HandlesFreshInv, HandlesPositive,
                  Positive
    <3> QED BY <1>0, <2>4, <3>1
  <2> QED BY <2>5, <2>7, <2>8, <2>9 DEF FreshParts
<1> QED BY <1>1, <1>2, <1>3 DEF SendCall

\* Every step keeps the strengthening.
LEMMA FreshStep ==
  ASSUME HandlesFreshInv, [DatabaseNext]_databaseVars
  PROVE  HandlesFreshInv'
<1>0. HandlesPositive'
  BY PositiveStep DEF HandlesFreshInv
<1>1. CASE UNCHANGED databaseVars
  BY <1>0, <1>1, FreshKept DEF databaseVars, dbVars
<1>2. CASE Local
  BY <1>0, <1>2, FreshKept DEF Local, dbVars
<1>3. ASSUME NEW t \in {"notifier", "daemon"}, AddEntryStep(t)
      PROVE  HandlesFreshInv'
  BY <1>0, <1>3, FreshAddEntry DEF Threads
<1>4. CASE InotifyHandler
  <2>1. task["notifier"].pc = "idle"
    BY <1>4 DEF InotifyHandler, Idle
  <2> QED BY <1>0, <1>4, <2>1, InotifyDomain, FreshKept DEF Threads
<1>5. CASE ServerCall
  BY <1>0, <1>5, ServerCallDomain, FreshKept
<1>6. CASE ServerSend
  BY <1>0, <1>6, FreshSend, ServerSendIsSendCall
<1>7. CASE StorageCall
  <2>1. CASE RemoveStorage(MTP_STORAGE_REMOVABLE_RAM)
    BY <1>0, <2>1, RemoveStorageDomain, FreshKept
  <2>2. CASE AddStoragePath(Card, MTP_STORAGE_REMOVABLE_RAM, TRUE)
    BY <1>0, <2>2, FreshKept DEF AddStoragePath, Idle, Threads
  <2> QED BY <1>7, <2>1, <2>2 DEF StorageCall
<1> QED BY <1>1, <1>2, <1>3, <1>4, <1>5, <1>6, <1>7 DEF DatabaseNext, DbStep

LEMMA FreshInit == DatabaseInit => HandlesFreshInv
<1> SUFFICES ASSUME DatabaseInit PROVE FreshParts
  BY PositiveInit DEF HandlesFreshInv
<1>1. issued = {}
  BY DEF DatabaseInit, DbInit
<1>2. ASSUME NEW t \in Threads
      PROVE  task[t].pc \in {"idle", "entry"}
  BY <1>2 DEF DatabaseInit, DbInit, IdleTask
<1> QED BY <1>1, <1>2 DEF FreshParts, OneInWindow, WindowAtCounter,
           HoldersBelow, HoldersApart, IssuedBelow, InWindow, Holding

\* The handles given to objects are unique and never reused, with any number
\* of files, events, scans and sends, as long as no two threads were ever
\* between reading and incrementing the counter: the race for the counter is
\* the only way to a duplicate handle.
THEOREM HandlesFreshUnlessRacedHolds ==
  DatabaseSpec => []HandlesFreshUnlessRaced
<1>1. DatabaseInit => HandlesFreshInv
  BY FreshInit
<1>2. HandlesFreshInv /\ [DatabaseNext]_databaseVars => HandlesFreshInv'
  BY FreshStep
<1>3. HandlesFreshInv => HandlesFreshUnlessRaced
  BY FreshInvImplies
<1> QED BY <1>1, <1>2, <1>3, PTL DEF DatabaseSpec

-----------------------------------------------------------------------------
(* Types: whatever is on disk and whatever the threads interleave, the map *)
(* holds entries, the calls on the way carry a path and a storage, and     *)
(* every descriptor that is watched or queued is a number.                 *)

Paths == Seq(PathNames)
Kinds == {"dir", "file"}
Nodes == [kind : Kinds, size : Int, ino : Int]
Events == [wd : Int, mask : {"IN_CREATE", "IN_MODIFY", "IN_DELETE"},
           name : PathNames]
Calls ==
  [kind : {"none", "entry", "root", "hidden", "send"}, path : Paths,
   parent : Int, storage : Int, format : Formats, size : Int]
Tasks ==
  [pc : TaskPcs, todo : Seq(Calls), cur : Calls, handle : Nat, tmp : Int,
   skipped : SUBSET Paths]

\* The parts of the strengthened type invariant: what the kernel holds ...
TreeTyped ==
  /\ IsFiniteSet(DOMAIN fs) /\ DOMAIN fs \subseteq Paths
  /\ \A p \in DOMAIN fs : fs[p] \in Nodes
WatchesTyped == DOMAIN watch \subseteq Int /\ nextWd \in Int /\ nextIno \in Int
QueueTyped == queue \in Seq(Events)
\* ... what the map holds ...
EntriesTyped == \A h \in DOMAIN db : db[h] \in DbEntry
\* ... and where the threads are: one that is about to start a call has one.
TasksTyped ==
  /\ task \in [Threads -> Tasks]
  /\ \A t \in Threads : task[t].pc = "entry" => task[t].todo # <<>>
FlagsTyped ==
  local_server \in BOOLEAN /\ alive \in BOOLEAN /\ ub \subseteq UbKinds

KernelTyped == TreeTyped /\ WatchesTyped /\ QueueTyped
TypeInv ==
  KernelTyped /\ EntriesTyped /\ TasksTyped /\ FlagsTyped /\ HandlesPositive

-----------------------------------------------------------------------------
(* Paths and maps.                                                         *)

\* A name appended to a path, and the directory above one, are paths.
LEMMA AppendPath ==
  ASSUME NEW p \in Paths, NEW n \in PathNames
  PROVE  Append(p, n) \in Paths /\ Last(Append(p, n)) = n
<1>1. /\ Append(p, n) \in Seq(PathNames) /\ Len(Append(p, n)) = Len(p) + 1
      /\ Append(p, n)[Len(p) + 1] = n
  BY AppendProperties DEF Paths
<1> QED BY <1>1 DEF Paths, Last

LEMMA FrontPath ==
  ASSUME NEW p \in Paths
  PROVE  Front(p) \in Paths
<1>1. Len(p) \in Nat
  BY LenProperties DEF Paths
<1>2. Len(p) - 1 \in Int
  BY <1>1
<1>3. \A i \in 1 .. Len(p) - 1 : p[i] \in PathNames
  <2> SUFFICES ASSUME NEW i \in 1 .. Len(p) - 1 PROVE p[i] \in PathNames
    OBVIOUS
  <2>1. i \in 1 .. Len(p)
    BY <1>1
  <2> QED BY <2>1, ElementOfSeq DEF Paths
<1>4. SubSeq(p, 1, Len(p) - 1) \in Seq(PathNames)
  BY <1>2, <1>3, SubSeqProperties
<1> QED BY <1>4 DEF Front, Paths

LEMMA LastName ==
  ASSUME NEW p \in Paths, Len(p) > 0
  PROVE  Last(p) \in PathNames
<1>1. Len(p) \in Nat
  BY LenProperties DEF Paths
<1>2. Len(p) \in 1 .. Len(p)
  BY <1>1
<1> QED BY <1>2, ElementOfSeq DEF Last, Paths

\* The map operations: a value that is there afterwards was there before, or
\* is the one that was put.
LEMMA InsertValues ==
  ASSUME NEW m, NEW k, NEW v, NEW V, v \in V, \A x \in DOMAIN m : m[x] \in V
  PROVE  \A x \in DOMAIN Insert(m, k, v) : Insert(m, k, v)[x] \in V
BY DEF Insert

LEMMA EraseValues ==
  ASSUME NEW m, NEW K, NEW V, \A x \in DOMAIN m : m[x] \in V
  PROVE  \A x \in DOMAIN Erase(m, K) : Erase(m, K)[x] \in V
BY DEF Erase, Restrict

LEMMA WalkedValues ==
  ASSUME NEW m, NEW K, NEW V, \A x \in DOMAIN m : m[x] \in V,
         NEW w \in Walked(m, K)
  PROVE  \A x \in DOMAIN w : w[x] \in V
<1>1. CASE K = {}
  BY <1>1 DEF Walked
<1>2. CASE K # {}
  <2>1. PICK S \in SUBSET K : w = Erase(m, S)
    BY <1>2 DEF Walked
  <2> QED BY <2>1, EraseValues
<1> QED BY <1>1, <1>2

\* A set of numbers that is not empty has a least one.
LEMMA MinIsLeast ==
  ASSUME NEW S \in SUBSET Nat, S # {}
  PROVE  Min(S) \in S /\ \A y \in S : Min(S) <= y
<1>1. PICK x \in S : \A y \in S : <<y, x>> \notin OpToRel(<, Nat)
  BY NatLessThanWellFounded, WFMin
<1>2. ASSUME NEW y \in S PROVE x <= y
  <2>1. x \in Nat /\ y \in Nat
    OBVIOUS
  <2>2. ~(y < x)
    BY <1>1, <2>1 DEF OpToRel
  <2> QED BY <2>1, <2>2
<1> QED BY <1>2 DEF Min

\* A directory read in any order is a sequence of its entries.
LEMMA SeqsOfSet ==
  ASSUME NEW S, IsFiniteSet(S), NEW v \in SetToSeqs(S)
  PROVE  v \in Seq(S)
<1>1. Cardinality(S) \in Nat
  BY FS_CardinalityType
<1>2. v \in [1 .. Cardinality(S) -> S]
  BY DEF SetToSeqs
<1>3. Seq(S) = UNION {[1 .. n -> S] : n \in Nat}
  BY SeqDef
<1> QED BY <1>1, <1>2, <1>3

-----------------------------------------------------------------------------
(* The kernel.                                                             *)

\* An event for a directory entry carries the entry's name.
LEMMA NotifiedTyped ==
  ASSUME KernelTyped, NEW p \in Paths,
         NEW mask \in {"IN_CREATE", "IN_MODIFY", "IN_DELETE"}
  PROVE  Notified(mask, p) \in Seq(Events)
<1>1. CASE WatchersOf(p) = {}
  BY <1>1 DEF Notified, KernelTyped, QueueTyped
<1>2. CASE WatchersOf(p) # {}
  <2> DEFINE w == CHOOSE wd \in WatchersOf(p) : TRUE
             e == [wd |-> w, mask |-> mask, name |-> Last(p)]
  <2>1. w \in WatchersOf(p)
    BY <1>2
  <2>2. w \in Int /\ Len(p) > 1
    BY <2>1 DEF WatchersOf, KernelTyped, WatchesTyped
  <2>3. Last(p) \in PathNames
    <3>1. Len(p) \in Nat
      BY LenProperties DEF Paths
    <3> QED BY <2>2, <3>1, LastName
  <2>4. e \in Events
    BY <2>2, <2>3 DEF Events
  <2>5. Notified(mask, p) \in {queue, Append(queue, e)}
    BY <1>2 DEF Notified
  <2>6. Append(queue, e) \in Seq(Events)
    BY <2>4, AppendProperties DEF KernelTyped, QueueTyped
  <2> QED BY <2>5, <2>6 DEF KernelTyped, QueueTyped
<1> QED BY <1>1, <1>2

LEMMA EraseDomainInt ==
  ASSUME KernelTyped, NEW K
  PROVE  DOMAIN Erase(watch, K) \subseteq Int
BY EraseDomain DEF KernelTyped, WatchesTyped

\* The descriptor inotify_add_watch answers with is a number.
LEMMA WatchDescriptorTyped ==
  ASSUME KernelTyped, NEW p
  PROVE  WatchDescriptor(p) \in Int
<1>1. CASE /\ p \in DOMAIN fs
           /\ \E wd \in DOMAIN watch : watch[wd] = fs[p].ino
  <2>1. (CHOOSE wd \in DOMAIN watch : watch[wd] = fs[p].ino) \in DOMAIN watch
    BY <1>1
  <2> QED BY <1>1, <2>1 DEF WatchDescriptor, KernelTyped, WatchesTyped
<1>2. CASE /\ p \in DOMAIN fs
           /\ ~\E wd \in DOMAIN watch : watch[wd] = fs[p].ino
  BY <1>2 DEF WatchDescriptor, KernelTyped, WatchesTyped
<1>3. CASE p \notin DOMAIN fs
  BY <1>3 DEF WatchDescriptor
<1> QED BY <1>1, <1>2, <1>3

LEMMA AddWatchTyped ==
  ASSUME KernelTyped, NEW p, AddWatch(p)
  PROVE  KernelTyped'
<1>1. UNCHANGED <<fs, queue, nextIno>>
  BY DEF AddWatch
<1>2. WatchDescriptor(p) \in Int
  BY WatchDescriptorTyped
<1>3. nextWd' \in Int
  BY DEF AddWatch, KernelTyped, WatchesTyped
<1>4. watch' \in {watch, Put(watch, WatchDescriptor(p), fs[p].ino)}
  BY DEF AddWatch
<1>5. DOMAIN watch' \subseteq Int
  BY <1>2, <1>4 DEF Put, KernelTyped, WatchesTyped
<1> QED BY <1>1, <1>3, <1>5 DEF KernelTyped, TreeTyped, WatchesTyped, QueueTyped

\* A step on the map alone, or one that drops watches and reads an event.
LEMMA KernelKept ==
  ASSUME KernelTyped, UNCHANGED <<fs, nextIno, nextWd>>,
         DOMAIN watch' \subseteq Int, queue' \in Seq(Events)
  PROVE  KernelTyped'
BY DEF KernelTyped, TreeTyped, WatchesTyped, QueueTyped

LEMMA KernelUnchanged ==
  ASSUME KernelTyped, UNCHANGED kernelVars
  PROVE  KernelTyped'
BY DEF kernelVars, KernelTyped, TreeTyped, WatchesTyped, QueueTyped

\* What creates, writes and removes an object keeps the types of the tree, the
\* watches and the queue.
LEMMA CreateTyped ==
  ASSUME KernelTyped, NEW p \in Paths, NEW k \in Kinds, FsCreate(p, k)
  PROVE  KernelTyped'
<1> DEFINE node == [kind |-> k, size |-> 0, ino |-> nextIno]
<1>1. node \in Nodes
  BY DEF Nodes, KernelTyped, WatchesTyped
<1>2. fs' = Put(fs, p, node) /\ UNCHANGED <<watch, nextWd>>
  BY DEF FsCreate
<1>3. DOMAIN fs' = DOMAIN fs \cup {p}
  BY <1>2 DEF Put
<1>4. IsFiniteSet(DOMAIN fs')
  BY <1>3, FS_AddElement DEF KernelTyped, TreeTyped
<1>5. \A q \in DOMAIN fs' : fs'[q] \in Nodes
  BY <1>1, <1>2 DEF Put, KernelTyped, TreeTyped
<1>6. TreeTyped'
  BY <1>3, <1>4, <1>5 DEF TreeTyped, KernelTyped
<1>7. nextIno' = nextIno + 1 /\ queue' = Notified("IN_CREATE", p)
  BY DEF FsCreate
<1>8. queue' \in Seq(Events)
  BY <1>7, NotifiedTyped
<1> QED BY <1>2, <1>6, <1>7, <1>8 DEF KernelTyped, WatchesTyped, QueueTyped

LEMMA ResizeTyped ==
  ASSUME KernelTyped, NEW p \in DOMAIN fs, NEW z \in Int, FsResize(p, z)
  PROVE  KernelTyped'
<1>1. p \in Paths
  BY DEF KernelTyped, TreeTyped
<1>2. fs' = [fs EXCEPT ![p].size = z] /\ UNCHANGED <<watch, nextWd, nextIno>>
      /\ queue' = Notified("IN_MODIFY", p)
  BY DEF FsResize
<1>3. DOMAIN fs' = DOMAIN fs /\ \A q \in DOMAIN fs' : fs'[q] \in Nodes
  BY <1>1, <1>2 DEF Nodes, KernelTyped, TreeTyped
<1>4. TreeTyped'
  BY <1>3 DEF TreeTyped, KernelTyped
<1>5. queue' \in Seq(Events)
  BY <1>1, <1>2, NotifiedTyped
<1> QED BY <1>2, <1>4, <1>5 DEF KernelTyped, WatchesTyped, QueueTyped

LEMMA RemoveTyped ==
  ASSUME KernelTyped, NEW p \in DOMAIN fs, FsRemove(p)
  PROVE  KernelTyped'
<1>1. p \in Paths
  BY DEF KernelTyped, TreeTyped
<1>2. /\ fs' = Erase(fs, {p}) /\ UNCHANGED <<nextWd, nextIno>>
      /\ queue' = Notified("IN_DELETE", p)
      /\ watch' = WatchWithout(fs[p].ino)
  BY DEF FsRemove
<1>3. DOMAIN fs' = DOMAIN fs \ {p}
  BY <1>2, EraseDomain
<1>4. IsFiniteSet(DOMAIN fs')
  BY <1>3, FS_Subset DEF KernelTyped, TreeTyped
<1>5. \A q \in DOMAIN fs' : fs'[q] \in Nodes
  BY <1>2, EraseValues DEF KernelTyped, TreeTyped
<1>6. TreeTyped'
  BY <1>3, <1>4, <1>5 DEF TreeTyped, KernelTyped
<1>7. queue' \in Seq(Events)
  BY <1>1, <1>2, NotifiedTyped
<1>8. DOMAIN watch' \subseteq Int
  BY <1>2, EraseDomainInt DEF WatchWithout
<1> QED BY <1>2, <1>6, <1>7, <1>8 DEF KernelTyped, WatchesTyped, QueueTyped

\* Local processes create, write and remove typed objects.
LEMMA LocalTyped ==
  ASSUME KernelTyped, LocalStep(Roots)
  PROVE  KernelTyped'
<1>1. ASSUME NEW d \in DOMAIN fs, NEW n \in Names, NEW k \in LocalKinds,
             LocalCreate(Append(d, n), k)
      PROVE  KernelTyped'
  <2>1. Append(d, n) \in Paths /\ k \in Kinds
    BY FileSystemAssumption, AppendPath
       DEF PathNames, Kinds, KernelTyped, TreeTyped
  <2> QED BY <1>1, <2>1, CreateTyped DEF LocalCreate
<1>2. ASSUME NEW p \in DOMAIN fs, NEW z \in Sizes, LocalWrite(p, z)
      PROVE  KernelTyped'
  <2>1. z \in Int
    BY FileSystemAssumption DEF Sizes
  <2> QED BY <1>2, <2>1, ResizeTyped DEF LocalWrite
<1>3. ASSUME NEW p \in DOMAIN fs, LocalRemove(p)
      PROVE  KernelTyped'
  BY <1>3, RemoveTyped DEF LocalRemove
<1>4. \A r : Below(r) \subseteq DOMAIN fs
  BY DEF Below
<1> QED BY <1>1, <1>2, <1>3, <1>4 DEF LocalStep

-----------------------------------------------------------------------------
(* The threads.                                                            *)

\* What an entry is made of.
LEMMA EntryTyped ==
  ASSUME NEW c \in Calls, NEW format \in Formats, NEW size \in Int,
         NEW wd \in Int, NEW watched \in BOOLEAN
  PROVE  Entry(c, format, size, wd, watched) \in DbEntry
BY DEF Entry, DbEntry, Calls, Paths

LEMMA CallTyped ==
  ASSUME NEW kind \in {"none", "entry", "root", "hidden", "send"},
         NEW p \in Paths, NEW parent \in Int, NEW storage \in Int,
         NEW format \in Formats, NEW size \in Int
  PROVE  Call(kind, p, parent, storage, format, size) \in Calls
BY DEF Call, Calls

\* The children of a directory, put before the calls that are still to make.
LEMMA ListedTyped ==
  ASSUME NEW v \in Seq(Paths), NEW parent \in Int, NEW storage \in Int,
         NEW todo \in Seq(Calls)
  PROVE  [i \in DOMAIN v |-> Call("entry", v[i], parent, storage, UNDEFINED, 0)]
            \o todo \in Seq(Calls)
<1> DEFINE s == [i \in DOMAIN v |->
                   Call("entry", v[i], parent, storage, UNDEFINED, 0)]
<1>1. /\ Len(v) \in Nat /\ DOMAIN v = 1 .. Len(v)
      /\ \A i \in DOMAIN v : v[i] \in Paths
  BY LenProperties, ElementOfSeq
<1>2. \A i \in DOMAIN v :
        Call("entry", v[i], parent, storage, UNDEFINED, 0) \in Calls
  BY <1>1, CallTyped DEF Formats
<1>3. s \in [1 .. Len(v) -> Calls]
  BY <1>1, <1>2
<1>4. Seq(Calls) = UNION {[1 .. n -> Calls] : n \in Nat}
  BY SeqDef
<1>5. s \in Seq(Calls)
  BY <1>1, <1>3, <1>4
<1> QED BY <1>5, ConcatProperties

\* A scan that is given up.
LEMMA GaveUpTyped ==
  ASSUME TypeInv, NEW t \in Threads, NEW left \in SUBSET Paths, GiveUp(t, left)
  PROVE  TasksTyped'
<1>1. /\ task \in [Threads -> Tasks] /\ task[t] \in Tasks
      /\ \A u \in Threads : task[u].pc = "entry" => task[u].todo # <<>>
  BY DEF TypeInv, TasksTyped
<1> DEFINE r == [task[t] EXCEPT !.pc = "idle", !.todo = <<>>,
                                !.skipped = @ \cup left]
<1>2. r \in Tasks /\ r.pc = "idle"
  BY <1>1, EmptySeq DEF Tasks, TaskPcs
<1>3. task' = [task EXCEPT ![t] = r]
  BY <1>1 DEF GiveUp
<1> HIDE DEF r
<1> QED BY <1>1, <1>2, <1>3 DEF TasksTyped

\* What a thread has still to add.
LEMMA LeftTyped ==
  ASSUME TypeInv, NEW t \in Threads
  PROVE  Left(t) \subseteq Paths
<1>1. task[t].todo \in Seq(Calls)
  BY DEF TypeInv, TasksTyped, Tasks
<1>2. \A i \in DOMAIN task[t].todo : task[t].todo[i] \in Calls
  BY <1>1, LenProperties, ElementOfSeq
<1> QED BY <1>2 DEF Left, Calls

\* Every step of add_file_entry, parse_directory and readFiles.
LEMMA AddEntryTyped ==
  ASSUME TypeInv, NEW t \in Threads, AddEntryStep(t)
  PROVE  KernelTyped' /\ EntriesTyped' /\ TasksTyped' /\ FlagsTyped'
<1> DEFINE r == task[t]
           c == r.cur
<1>1. /\ KernelTyped /\ EntriesTyped /\ TasksTyped /\ FlagsTyped
      /\ r \in Tasks /\ c \in Calls
      /\ counter \in Nat
  BY DEF TypeInv, TasksTyped, Tasks, HandlesPositive, Positive
<1>2. Return(t) \in {"idle", "entry"} /\ (Return(t) = "entry" => r.todo # <<>>)
  BY DEF Return
<1>3. CASE ReadCounter(t)
  <2>1. r.todo \in Seq(Calls) /\ r.todo # <<>>
    BY <1>1, <1>3 DEF ReadCounter, TasksTyped, Tasks
  <2>2. Head(r.todo) \in Calls /\ Tail(r.todo) \in Seq(Calls)
    BY <2>1, HeadTailProperties
  <2>3. TasksTyped'
    BY <1>1, <1>3, <2>2 DEF ReadCounter, TasksTyped, Tasks, TaskPcs
  <2>4. KernelTyped' /\ EntriesTyped'
    BY <1>1, <1>3, KernelUnchanged DEF ReadCounter, EntriesTyped
  <2>5. FlagsTyped'
    BY <1>1, <1>3 DEF ReadCounter, FlagsTyped, CounterRace, UbKinds
  <2> QED BY <2>3, <2>4, <2>5
<1>4. CASE StoreCounter(t)
  <2>1. TasksTyped'
    BY <1>1, <1>2, <1>4 DEF StoreCounter, TasksTyped, Tasks, TaskPcs
  <2>2. KernelTyped'
    BY <1>1, <1>4, AddWatchTyped, KernelUnchanged DEF StoreCounter
  <2>3. EntriesTyped' /\ FlagsTyped'
    BY <1>1, <1>4 DEF StoreCounter, EntriesTyped, FlagsTyped
  <2> QED BY <2>1, <2>2, <2>3
<1>5. CASE WatchDirectory(t)
  <2>1. WatchDescriptor(c.path) \in Int
    BY <1>1, WatchDescriptorTyped
  <2>2. TasksTyped'
    BY <1>1, <1>5, <2>1 DEF WatchDirectory, TasksTyped, Tasks, TaskPcs
  <2>3. KernelTyped'
    BY <1>1, <1>5, AddWatchTyped DEF WatchDirectory
  <2>4. EntriesTyped' /\ FlagsTyped'
    BY <1>1, <1>5 DEF WatchDirectory, EntriesTyped, FlagsTyped
  <2> QED BY <2>2, <2>3, <2>4
<1>6. CASE InsertDirectory(t)
  <2>1. KernelTyped'
    BY <1>1, <1>6, KernelUnchanged DEF InsertDirectory
  <2>2. EntriesTyped'
    <3>0. r.tmp \in Int /\ ASSOCIATION \in Formats /\ c \in Calls
      BY <1>1 DEF Tasks, Formats
    <3>1. Entry(c, ASSOCIATION, 0, r.tmp, TRUE) \in DbEntry
      BY <3>0 DEF Entry, DbEntry, Calls, Paths
    <3>2. db' \in {db, Insert(db, r.handle,
                              Entry(c, ASSOCIATION, 0, r.tmp, TRUE))}
      BY <1>6 DEF InsertDirectory
    <3> QED BY <1>1, <3>1, <3>2, InsertValues DEF EntriesTyped
  <2>3. TasksTyped'
    <3>2. CASE task' = [task EXCEPT ![t].pc = "list"]
      BY <1>1, <3>2 DEF TasksTyped, Tasks, TaskPcs
    <3>3. CASE GiveUp(t, Left(t))
      BY <3>3, GaveUpTyped, LeftTyped
    <3> QED BY <1>6, <3>2, <3>3 DEF InsertDirectory
  <2>4. FlagsTyped'
    BY <1>1, <1>6 DEF InsertDirectory, GiveUp, FlagsTyped
  <2> QED BY <2>1, <2>2, <2>3, <2>4
<1>7. CASE ListDirectory(t)
  <2> DEFINE parent == IF c.kind = "hidden" THEN 0 ELSE r.handle
             add(q) == Call("entry", q, parent, c.storage, UNDEFINED, 0)
  <2>1. PICK v \in SetToSeqs(Listing(c.path)) :
          task' = [task EXCEPT
            ![t].todo = [i \in DOMAIN v |-> add(v[i])] \o r.todo,
            ![t].pc = IF [i \in DOMAIN v |-> add(v[i])] \o r.todo = <<>>
                      THEN "idle" ELSE "entry"]
    BY <1>7 DEF ListDirectory
  <2> DEFINE rest == [i \in DOMAIN v |-> add(v[i])] \o r.todo
  <2>2. IsFiniteSet(Listing(c.path)) /\ Listing(c.path) \subseteq Paths
    BY <1>1, FS_Subset DEF Listing, KernelTyped, TreeTyped
  <2>3. v \in Seq(Paths)
    BY <2>2, SeqsOfSet, SeqMonotonic
  <2>4. parent \in Int /\ c.storage \in Int /\ r.todo \in Seq(Calls)
    BY <1>1 DEF Tasks, Calls
  <2>5. rest \in Seq(Calls)
    BY <2>3, <2>4, ListedTyped
  <2>6. TasksTyped'
    <3> HIDE DEF rest
    <3>1. task' = [task EXCEPT ![t].todo = rest,
                               ![t].pc = IF rest = <<>> THEN "idle" ELSE "entry"]
      BY <2>1 DEF rest
    <3> QED BY <1>1, <2>5, <3>1 DEF TasksTyped, Tasks, TaskPcs
  <2>7. KernelTyped' /\ EntriesTyped' /\ FlagsTyped'
    BY <1>1, <1>7, KernelUnchanged DEF ListDirectory, EntriesTyped, FlagsTyped
  <2> QED BY <2>6, <2>7
<1>8. CASE StatFile(t)
  <2>1. CASE IsFile(c.path)
    <3>1. fs[c.path].size \in Int
      BY <1>1, <2>1 DEF IsFile, KernelTyped, TreeTyped, Nodes
    <3>2. task' = [task EXCEPT ![t].pc = "insert_file",
                               ![t].cur.size = fs[c.path].size]
      BY <1>8, <2>1 DEF StatFile
    <3>3. [c EXCEPT !.size = fs[c.path].size] \in Calls
      BY <1>1, <3>1 DEF Calls
    <3>4. TasksTyped'
      BY <1>1, <3>2, <3>3 DEF TasksTyped, Tasks, TaskPcs
    <3> QED BY <1>1, <1>8, <3>4, KernelUnchanged
        DEF StatFile, EntriesTyped, FlagsTyped
  <2>2. CASE ~IsFile(c.path)
    <3>1. task' = [task EXCEPT ![t].pc = Return(t)]
      BY <1>8, <2>2 DEF StatFile
    <3>2. TasksTyped'
      BY <1>1, <1>2, <3>1 DEF TasksTyped, Tasks, TaskPcs
    <3> QED BY <1>1, <1>8, <3>2, KernelUnchanged
        DEF StatFile, EntriesTyped, FlagsTyped
  <2> QED BY <2>1, <2>2
<1>9. CASE InsertFile(t)
  <2>1. KernelTyped' /\ FlagsTyped'
    BY <1>1, <1>9, KernelUnchanged DEF InsertFile, FlagsTyped
  <2>2. EntriesTyped'
    <3>1. PICK wd \in UninitWatch :
            db' = Insert(db, r.handle, Entry(c, UNDEFINED, c.size, wd, FALSE))
      BY <1>9 DEF InsertFile
    <3>2. wd \in Int /\ c.size \in Int
      BY <1>1, DatabaseAssumption DEF Calls
    <3>3. Entry(c, UNDEFINED, c.size, wd, FALSE) \in DbEntry
      BY <1>1, <3>2, EntryTyped DEF Formats
    <3> QED BY <1>1, <3>1, <3>3, InsertValues DEF EntriesTyped
  <2>3. TasksTyped'
    BY <1>1, <1>2, <1>9 DEF InsertFile, TasksTyped, Tasks, TaskPcs
  <2> QED BY <2>1, <2>2, <2>3
<1>10. CASE WatchRefused(t)
  <2>1. TasksTyped'
    <3>1. task' = [task EXCEPT ![t].pc = "insert_dir", ![t].tmp = -1]
      BY <1>10 DEF WatchRefused
    <3>2. -1 \in Int
      OBVIOUS
    <3> QED BY <1>1, <3>1, <3>2 DEF TasksTyped, Tasks, TaskPcs
  <2> QED BY <1>1, <1>10, <2>1, KernelUnchanged
      DEF WatchRefused, EntriesTyped, FlagsTyped
<1>11. CASE ListingRefused(t)
  <2>1. PICK left : left = Left(t) \cup Listing(c.path) /\ GiveUp(t, left)
    BY <1>11 DEF ListingRefused
  <2>2. left \in SUBSET Paths
    BY <1>1, <2>1, LeftTyped DEF Listing, KernelTyped, TreeTyped
  <2>3. TasksTyped'
    BY <2>1, <2>2, GaveUpTyped
  <2>4. FlagsTyped'
    BY <1>1, <1>11 DEF ListingRefused, GiveUp, FlagsTyped
  <2> QED BY <1>1, <1>11, <2>3, <2>4, KernelUnchanged
      DEF ListingRefused, EntriesTyped
<1> QED BY <1>3, <1>4, <1>5, <1>6, <1>7, <1>8, <1>9, <1>10, <1>11
    DEF AddEntryStep

-----------------------------------------------------------------------------
(* The calls that take entries out or change them in place.                *)

\* deleteFile keeps the entries and drops at most a watch.
LEMMA DeleteFileTyped ==
  ASSUME TypeInv, NEW h, NEW u, u \subseteq UbKinds, DeleteFile(h, u),
         UNCHANGED local_server
  PROVE  EntriesTyped' /\ FlagsTyped' /\ DOMAIN watch' \subseteq Int
<1>1. KernelTyped /\ EntriesTyped /\ FlagsTyped
  BY DEF TypeInv
<1>2. CASE h \in DOMAIN db
  <2>1. db' \in Walked(Erase(db, {h}), Children(h) \ {h})
    BY <1>2 DEF DeleteFile
  <2>2. EntriesTyped'
    BY <1>1, <2>1, EraseValues, WalkedValues DEF EntriesTyped
  <2>3. FlagsTyped'
    BY <1>1, <1>2 DEF DeleteFile, FlagsTyped, UbKinds, IteratorUb
  <2>4. watch' \in {watch, Erase(watch, {db[h].watch_fd})}
    BY <1>2 DEF DeleteFile, WatchRemoved
  <2>5. DOMAIN watch' \subseteq Int
    BY <1>1, <2>4, EraseDomainInt DEF KernelTyped, WatchesTyped
  <2> QED BY <2>2, <2>3, <2>5
<1>3. CASE h \notin DOMAIN db
  BY <1>1, <1>3
     DEF DeleteFile, EntriesTyped, FlagsTyped, KernelTyped, WatchesTyped
<1> QED BY <1>2, <1>3

\* A change of one typed field of one entry.
LEMMA EditTyped ==
  ASSUME EntriesTyped, NEW h \in DOMAIN db,
         \/ \E z \in Int : db' = [db EXCEPT ![h].object_size = z]
         \/ \E q \in Int : db' = [db EXCEPT ![h].parent = q]
         \/ \E p \in Paths : db' = [db EXCEPT ![h].path = p]
  PROVE  EntriesTyped'
<1> DEFINE e == db[h]
<1>1. e \in DbEntry
  BY DEF EntriesTyped
<1>2. CASE \E z \in Int : db' = [db EXCEPT ![h].object_size = z]
  <2>1. PICK z \in Int : db' = [db EXCEPT ![h].object_size = z]
    BY <1>2
  <2>2. [e EXCEPT !.object_size = z] \in DbEntry
    BY <1>1 DEF DbEntry
  <2> QED BY <2>1, <2>2 DEF EntriesTyped
<1>3. CASE \E q \in Int : db' = [db EXCEPT ![h].parent = q]
  <2>1. PICK q \in Int : db' = [db EXCEPT ![h].parent = q]
    BY <1>3
  <2>2. [e EXCEPT !.parent = q] \in DbEntry
    BY <1>1 DEF DbEntry
  <2> QED BY <2>1, <2>2 DEF EntriesTyped
<1>4. CASE \E p \in Paths : db' = [db EXCEPT ![h].path = p]
  <2>1. PICK p \in Paths : db' = [db EXCEPT ![h].path = p]
    BY <1>4
  <2>2. [e EXCEPT !.path = p] \in DbEntry
    BY <1>1 DEF DbEntry, Paths
  <2> QED BY <2>1, <2>2 DEF EntriesTyped
<1> QED BY <1>2, <1>3, <1>4

\* inotify_handler, whichever entry it takes for the event's directory.
LEMMA InotifyTyped ==
  ASSUME TypeInv, InotifyHandler
  PROVE  KernelTyped' /\ EntriesTyped' /\ TasksTyped' /\ FlagsTyped'
<1> DEFINE e == Head(queue)
           u == EventUb(e.wd)
<1>1. KernelTyped /\ EntriesTyped /\ TasksTyped /\ FlagsTyped
  BY DEF TypeInv
<1>2. /\ queue # <<>> /\ queue' = Tail(queue)
      /\ UNCHANGED <<counter, local_server, issued, fs, nextIno, nextWd>>
  BY DEF InotifyHandler
<1>3. e \in Events /\ queue' \in Seq(Events)
  BY <1>1, <1>2, HeadTailProperties DEF KernelTyped, QueueTyped
<1>4. u \subseteq UbKinds
  BY DEF EventUb, UbKinds
<1>5. PICK parent :
        LET p == Append(db[parent].path, e.name) IN
        \/ ub' = ub \cup u /\ UNCHANGED <<db, task, watch, alive>>
        \/ parent \in DOMAIN db /\ ub' = ub \cup u /\ OnCreate(parent, p)
        \/ parent \in DOMAIN db /\ ub' = ub \cup u /\ OnModify(p)
        \/ OnDelete(p, u)
  BY DEF InotifyHandler
<1> DEFINE p == Append(db[parent].path, e.name)
<1>6. ASSUME DOMAIN watch' \subseteq Int PROVE KernelTyped'
  BY <1>1, <1>2, <1>3, <1>6, KernelKept
<1>7. CASE UNCHANGED <<db, task, watch, alive>> /\ ub' = ub \cup u
  BY <1>1, <1>2, <1>4, <1>6, <1>7
     DEF EntriesTyped, TasksTyped, FlagsTyped, KernelTyped, WatchesTyped
<1>8. CASE parent \in DOMAIN db /\ ub' = ub \cup u /\ OnCreate(parent, p)
  <2>1. db[parent] \in DbEntry /\ parent \in Int
    BY <1>8 DEF TypeInv, EntriesTyped, HandlesPositive, Positive
  <2>2. p \in Paths /\ db[parent].storage_id \in Int
    BY <1>3, <2>1, AppendPath DEF DbEntry, Events, Paths
  <2> DEFINE up == IF db[parent].parent = MTP_PARENT_ROOT THEN 0 ELSE parent
             c == Call("entry", p, up, db[parent].storage_id, UNDEFINED, 0)
  <2>3. c \in Calls
    <3>1. up \in Int
      BY <2>1
    <3> HIDE DEF up, p
    <3> QED BY <2>2, <3>1 DEF Call, Calls, Formats
  <2>4. <<c>> \in Seq(Calls) /\ <<c>> # <<>>
    BY <2>3
  <2>5. CASE task' = task
    BY <1>1, <1>2, <1>4, <1>6, <1>8, <2>5
       DEF OnCreate, EntriesTyped, TasksTyped, FlagsTyped, KernelTyped,
           WatchesTyped
  <2>6. CASE task' = [task EXCEPT !["notifier"].pc = "entry",
                                  !["notifier"].todo = <<c>>]
    <3> HIDE DEF c
    <3>1. TasksTyped'
      BY <1>1, <2>4, <2>6 DEF TasksTyped, Tasks, TaskPcs, Threads
    <3> QED BY <1>1, <1>2, <1>4, <1>6, <1>8, <3>1
            DEF OnCreate, EntriesTyped, FlagsTyped, KernelTyped, WatchesTyped
  <2> QED BY <1>8, <2>5, <2>6 DEF OnCreate
<1>9. CASE parent \in DOMAIN db /\ ub' = ub \cup u /\ OnModify(p)
  <2>1. \A h \in DOMAIN db' : db'[h] \in DbEntry
    <3> SUFFICES ASSUME NEW h \in DOMAIN db' PROVE db'[h] \in DbEntry
      OBVIOUS
    <3>1. /\ h \in DOMAIN db
          /\ db'[h] = IF db[h].path = p /\ IsFile(p)
                      THEN [db[h] EXCEPT !.object_size = fs[p].size] ELSE db[h]
      BY <1>9 DEF OnModify
    <3>2. db[h] \in DbEntry
      BY <1>1, <3>1 DEF EntriesTyped
    <3>3. CASE IsFile(p)
      <4>1. fs[p].size \in Int
        BY <1>1, <3>3 DEF IsFile, KernelTyped, TreeTyped, Nodes
      <4>2. [db[h] EXCEPT !.object_size = fs[p].size] \in DbEntry
        BY <3>2, <4>1 DEF DbEntry
      <4> QED BY <3>1, <3>2, <4>2
    <3>4. CASE ~IsFile(p)
      BY <3>1, <3>2, <3>4
    <3> QED BY <3>3, <3>4
  <2> QED BY <1>1, <1>2, <1>4, <1>6, <1>9, <2>1
      DEF OnModify, EntriesTyped, TasksTyped, FlagsTyped, KernelTyped,
          WatchesTyped
<1>10. CASE OnDelete(p, u)
  <2>1. TasksTyped'
    BY <1>1, <1>10 DEF OnDelete, TasksTyped
  <2>2. CASE HandlesAt(p) # {}
    <3>1. DeleteFile(Min(HandlesAt(p)), u)
      BY <1>10, <2>2 DEF OnDelete
    <3> QED BY <1>2, <1>4, <1>6, <2>1, <3>1, DeleteFileTyped
  <2>3. CASE HandlesAt(p) = {}
    <3>1. ub' = ub \cup u /\ UNCHANGED <<db, watch, alive>>
      BY <1>10, <2>3 DEF OnDelete
    <3> QED BY <1>1, <1>2, <1>4, <1>6, <2>1, <3>1
            DEF EntriesTyped, FlagsTyped, KernelTyped, WatchesTyped
  <2> QED BY <2>2, <2>3
<1> QED BY <1>5, <1>7, <1>8, <1>9, <1>10

\* endSendObject, moveFile and the renaming of an entry, whatever they are
\* called with.
LEMMA EndSendTyped ==
  ASSUME KernelTyped, EntriesTyped, NEW p, NEW h, NEW format, NEW ok,
         EndSendObject(p, h, format, ok)
  PROVE  EntriesTyped'
<1>1. CASE db' = Erase(db, {h})
  BY <1>1, EraseValues DEF EntriesTyped
<1>2. CASE /\ h \in DOMAIN db /\ IsFile(p)
           /\ db' = [db EXCEPT ![h].object_size = fs[p].size]
  <2>1. fs[p].size \in Int
    BY <1>2 DEF IsFile, KernelTyped, TreeTyped, Nodes
  <2> QED BY <1>2, <2>1, EditTyped
<1>3. CASE db' = db
  BY <1>3 DEF EntriesTyped
<1> QED BY <1>1, <1>2, <1>3 DEF EndSendObject

LEMMA MoveFileTyped ==
  ASSUME EntriesTyped, NEW h, NEW q \in Int, MoveFile(h, q)
  PROVE  EntriesTyped'
<1>1. CASE h \in DOMAIN db
  BY <1>1, EditTyped DEF MoveFile
<1>2. CASE h \notin DOMAIN db
  BY <1>2 DEF MoveFile, EntriesTyped
<1> QED BY <1>1, <1>2

LEMMA SetPathTyped ==
  ASSUME EntriesTyped, NEW h, NEW p \in Paths, SetPath(h, p)
  PROVE  EntriesTyped'
<1>1. CASE h \in DOMAIN db
  BY <1>1, EditTyped DEF SetPath
<1>2. CASE h \notin DOMAIN db
  BY <1>2 DEF SetPath, EntriesTyped
<1> QED BY <1>1, <1>2

\* The calls of the server's thread that are one step on the database.
LEMMA ServerCallTyped ==
  ASSUME TypeInv, ServerCall
  PROVE  KernelTyped' /\ EntriesTyped' /\ TasksTyped' /\ FlagsTyped'
<1>1. KernelTyped /\ EntriesTyped /\ TasksTyped /\ FlagsTyped
  BY DEF TypeInv
<1>2. UNCHANGED <<counter, local_server, task, issued>>
  BY DEF ServerCall
<1>3. TasksTyped'
  BY <1>1, <1>2 DEF TasksTyped
<1>4. ASSUME UNCHANGED <<ub, alive, kernelVars>>
      PROVE  KernelTyped' /\ FlagsTyped'
  BY <1>1, <1>2, <1>4, KernelUnchanged DEF FlagsTyped
<1>5. ASSUME NEW h \in DOMAIN db, NEW ok \in BOOLEAN,
             EndSendObject(db[h].path, h, db[h].object_format, ok)
      PROVE  EntriesTyped'
  BY <1>1, <1>5, EndSendTyped
<1>6. ASSUME NEW h \in DOMAIN db, DeleteFile(h, {}),
             UNCHANGED <<fs, queue, nextIno, nextWd>>
      PROVE  KernelTyped' /\ EntriesTyped' /\ FlagsTyped'
  <2>1. EntriesTyped' /\ FlagsTyped' /\ DOMAIN watch' \subseteq Int
    BY <1>2, <1>6, DeleteFileTyped
  <2>2. queue' \in Seq(Events)
    BY <1>1, <1>6 DEF KernelTyped, QueueTyped
  <2> QED BY <1>1, <1>6, <2>1, <2>2, KernelKept
<1>7. ASSUME NEW h \in DOMAIN db, NEW q \in DOMAIN db \cup {0}, MoveFile(h, q)
      PROVE  EntriesTyped'
  <2>1. q \in Int
    BY DEF TypeInv, HandlesPositive, Positive
  <2> QED BY <1>1, <1>7, <2>1, MoveFileTyped
<1>8. ASSUME NEW h \in DOMAIN db, NEW n \in Names,
             SetPath(h, Append(Front(db[h].path), n))
      PROVE  EntriesTyped'
  <2>1. db[h].path \in Paths
    BY <1>1 DEF EntriesTyped, DbEntry, Paths
  <2>2. Append(Front(db[h].path), n) \in Paths
    BY <2>1, FrontPath, AppendPath DEF PathNames
  <2> QED BY <1>1, <1>8, <2>2, SetPathTyped
<1> QED BY <1>3, <1>4, <1>5, <1>6, <1>7, <1>8 DEF ServerCall

\* beginSendObject with a path, a format and numbers.
LEMMA BeginTyped ==
  ASSUME TypeInv, NEW p \in Paths, NEW format \in Formats, NEW q \in Int,
         NEW s \in Int, NEW z \in Int, BeginSendObject(p, format, q, s, z)
  PROVE  KernelTyped' /\ EntriesTyped' /\ TasksTyped' /\ FlagsTyped'
<1> DEFINE r == task["server"]
           c == Call("send", p, q, s, format, z)
<1>1. /\ KernelTyped /\ EntriesTyped /\ TasksTyped /\ FlagsTyped
      /\ "server" \in Threads /\ r \in Tasks /\ counter \in Nat
  BY DEF TypeInv, TasksTyped, HandlesPositive, Positive, Threads
<1>2. c \in Calls
  BY DEF Call, Calls
<1>3. task' = [task EXCEPT !["server"].pc = "begun",
                           !["server"].handle = counter,
                           !["server"].cur = c]
  BY DEF BeginSendObject
<1>4. TasksTyped'
  <2> HIDE DEF c
  <2> QED BY <1>1, <1>2, <1>3 DEF TasksTyped, Tasks, TaskPcs
<1>5. EntriesTyped' /\ FlagsTyped'
  BY <1>1 DEF BeginSendObject, EntriesTyped, FlagsTyped, CounterRace, UbKinds
<1>6. KernelTyped'
  BY <1>1, KernelUnchanged DEF BeginSendObject
<1> QED BY <1>4, <1>5, <1>6

\* What follows it on the server's thread.
LEMMA ReserveTyped ==
  ASSUME TypeInv, ReserveEntry \/ FinishBeginSend
  PROVE  KernelTyped' /\ EntriesTyped' /\ TasksTyped' /\ FlagsTyped'
<1> DEFINE r == task["server"]
<1>1. /\ KernelTyped /\ EntriesTyped /\ TasksTyped /\ FlagsTyped
      /\ "server" \in Threads /\ r \in Tasks /\ r.cur \in Calls
      /\ counter \in Nat
  BY DEF TypeInv, TasksTyped, Tasks, HandlesPositive, Positive, Threads
<1>2. CASE ReserveEntry
  <2>1. EntriesTyped'
    <3>1. PICK wd \in UninitWatch :
            db' = Insert(db, r.handle,
                         Entry(r.cur, r.cur.format, r.cur.size, wd, FALSE))
      BY <1>2 DEF ReserveEntry
    <3>2. wd \in Int /\ r.cur.size \in Int /\ r.cur.format \in Formats
      BY <1>1, DatabaseAssumption DEF Calls
    <3>3. Entry(r.cur, r.cur.format, r.cur.size, wd, FALSE) \in DbEntry
      BY <1>1, <3>2 DEF Entry, DbEntry, Calls, Paths
    <3> QED BY <1>1, <3>1, <3>3, InsertValues DEF EntriesTyped
  <2>2. TasksTyped'
    <3>1. task' = [task EXCEPT !["server"].pc = "reserved",
                               !["server"].tmp = counter]
      BY <1>2 DEF ReserveEntry
    <3>2. counter \in Int
      BY <1>1
    <3>3. [r EXCEPT !.pc = "reserved", !.tmp = counter] \in Tasks
      BY <1>1, <3>2 DEF Tasks, TaskPcs
    <3> QED BY <1>1, <3>1, <3>3 DEF TasksTyped
  <2>3. KernelTyped' /\ FlagsTyped'
    BY <1>1, <1>2, KernelUnchanged DEF ReserveEntry, FlagsTyped
  <2> QED BY <2>1, <2>2, <2>3
<1>3. CASE FinishBeginSend
  <2>1. TasksTyped'
    BY <1>1, <1>3 DEF FinishBeginSend, TasksTyped, Tasks, TaskPcs
  <2> QED BY <1>1, <1>3, <2>1, KernelUnchanged
      DEF FinishBeginSend, EntriesTyped, FlagsTyped
<1> QED BY <1>2, <1>3

LEMMA ServerSendTyped ==
  ASSUME TypeInv, ServerSend
  PROVE  KernelTyped' /\ EntriesTyped' /\ TasksTyped' /\ FlagsTyped'
<1>1. ASSUME NEW h \in DOMAIN db, NEW n \in Names, NEW format \in Formats,
             BeginSendObject(Append(db[h].path, n), format, h,
                             db[h].storage_id, MaxSize)
      PROVE  KernelTyped' /\ EntriesTyped' /\ TasksTyped' /\ FlagsTyped'
  <2>1. db[h] \in DbEntry /\ h \in Int /\ MaxSize \in Int
    BY FileSystemAssumption
       DEF TypeInv, EntriesTyped, HandlesPositive, Positive
  <2>2. Append(db[h].path, n) \in Paths /\ db[h].storage_id \in Int
    BY <2>1, AppendPath DEF DbEntry, Paths, PathNames
  <2> QED BY <1>1, <2>1, <2>2, BeginTyped
<1> QED BY <1>1, ReserveTyped DEF ServerSend

\* The scan of a card, and its removal from the map.
LEMMA AddStorageTyped ==
  ASSUME TypeInv, AddStoragePath(Card, MTP_STORAGE_REMOVABLE_RAM, TRUE)
  PROVE  KernelTyped' /\ EntriesTyped' /\ TasksTyped' /\ FlagsTyped'
<1> DEFINE c == Call("hidden", Card, MTP_PARENT_ROOT,
                     MTP_STORAGE_REMOVABLE_RAM, UNDEFINED, 0)
<1>1. /\ KernelTyped /\ EntriesTyped /\ TasksTyped /\ FlagsTyped
      /\ "daemon" \in Threads
  BY DEF TypeInv, Threads
<1>2. Card \in Paths
  BY DEF Card, Paths, PathNames
<1>3. c \in Calls
  BY <1>2 DEF Call, Calls, Formats, MTP_PARENT_ROOT, MTP_STORAGE_REMOVABLE_RAM
<1>4. <<c>> \in Seq(Calls) /\ <<c>> # <<>>
  BY <1>3
<1>5. task' = [task EXCEPT !["daemon"].pc = "entry",
                           !["daemon"].todo = <<c>>]
  BY DEF AddStoragePath
<1>6. TasksTyped'
  <2> HIDE DEF c
  <2> DEFINE r == [task["daemon"] EXCEPT !.pc = "entry", !.todo = <<c>>]
  <2>1. task' \in [Threads -> Tasks]
    <3>1. task["daemon"] \in Tasks /\ task \in [Threads -> Tasks]
      BY <1>1 DEF TasksTyped
    <3>2. r \in Tasks
      BY <1>4, <3>1 DEF Tasks, TaskPcs
    <3>3. task' = [task EXCEPT !["daemon"] = r]
      BY <1>5
    <3> HIDE DEF r
    <3> QED BY <3>1, <3>2, <3>3
  <2>2. /\ \A t \in Threads \ {"daemon"} : task'[t] = task[t]
        /\ task'["daemon"].todo = <<c>>
    BY <1>1, <1>5 DEF TasksTyped, Tasks
  <2> QED BY <1>1, <1>4, <2>1, <2>2 DEF TasksTyped
<1> QED BY <1>1, <1>6, KernelUnchanged
    DEF AddStoragePath, EntriesTyped, FlagsTyped

LEMMA RemoveStorageTyped ==
  ASSUME TypeInv, NEW s, RemoveStorage(s)
  PROVE  KernelTyped' /\ EntriesTyped' /\ TasksTyped' /\ FlagsTyped'
<1>1. KernelTyped /\ EntriesTyped /\ TasksTyped /\ FlagsTyped
  BY DEF TypeInv
<1>2. db' \in Walked(db, {i \in DOMAIN db : db[i].storage_id = s})
  BY DEF RemoveStorage
<1>3. EntriesTyped'
  BY <1>1, <1>2, WalkedValues DEF EntriesTyped
<1> QED BY <1>1, <1>3, KernelUnchanged
    DEF RemoveStorage, TasksTyped, FlagsTyped, UbKinds, IteratorUb

-----------------------------------------------------------------------------
(* The type invariant.                                                     *)

\* Every step keeps the types.
LEMMA TypeStep ==
  ASSUME TypeInv, [DatabaseNext]_databaseVars
  PROVE  TypeInv'
<1>1. HandlesPositive'
  BY PositiveStep DEF TypeInv
<1>2. KernelTyped /\ EntriesTyped /\ TasksTyped /\ FlagsTyped
  BY DEF TypeInv
<1>3. CASE UNCHANGED databaseVars
  <2>1. UNCHANGED kernelVars /\ UNCHANGED dbVars
    BY <1>3 DEF databaseVars, fsVars, kernelVars
  <2> QED BY <1>1, <1>2, <2>1, KernelUnchanged
      DEF TypeInv, dbVars, EntriesTyped, TasksTyped, FlagsTyped
<1>4. CASE Local
  <2>1. KernelTyped' /\ UNCHANGED dbVars
    BY <1>2, <1>4, LocalTyped DEF Local
  <2> QED BY <1>1, <1>2, <2>1
      DEF TypeInv, dbVars, EntriesTyped, TasksTyped, FlagsTyped
<1>5. ASSUME NEW t \in {"notifier", "daemon"}, AddEntryStep(t)
      PROVE  TypeInv'
  BY <1>1, <1>5, AddEntryTyped DEF TypeInv, Threads
<1>6. CASE InotifyHandler
  BY <1>1, <1>6, InotifyTyped DEF TypeInv
<1>7. CASE ServerCall
  BY <1>1, <1>7, ServerCallTyped DEF TypeInv
<1>8. CASE ServerSend
  BY <1>1, <1>8, ServerSendTyped DEF TypeInv
<1>9. CASE StorageCall
  BY <1>1, <1>9, AddStorageTyped, RemoveStorageTyped DEF TypeInv, StorageCall
<1> QED BY <1>3, <1>4, <1>5, <1>6, <1>7, <1>8, <1>9 DEF DatabaseNext, DbStep

\* The start-up tree is finite and typed.
LEMMA TreeInit == DatabaseInit => KernelTyped
<1> SUFFICES ASSUME DatabaseInit PROVE KernelTyped
  OBVIOUS
<1> DEFINE T == InitialTree
           D == {T[i][1] : i \in DOMAIN T}
           f == [i \in DOMAIN T |-> T[i][1]]
<1>1. /\ Len(T) \in Nat /\ DOMAIN T = 1 .. Len(T)
      /\ \A i \in DOMAIN T : T[i] \in Seq(PathNames) \X {"dir", "file"}
  BY DatabaseAssumption, LenProperties, ElementOfSeq
<1>2. \A i \in DOMAIN T : T[i][1] \in Paths /\ T[i][2] \in Kinds
  BY <1>1 DEF Paths, Kinds
<1>3. IsFiniteSet(D)
  <2>1. f \in Surjection(DOMAIN T, D)
    BY DEF Surjection
  <2>2. IsFiniteSet(DOMAIN T)
    BY <1>1, FS_Interval
  <2> QED BY <2>1, <2>2, FS_Surjection
<1>4. fs = InitialFs /\ DOMAIN fs = D
  BY DEF DatabaseInit, FsInit, InitialFs
<1>5. ASSUME NEW p \in D PROVE fs[p] \in Nodes
  <2> DEFINE i == CHOOSE j \in DOMAIN T : T[j][1] = p
  <2>1. i \in DOMAIN T
    <3>1. PICK j \in DOMAIN T : T[j][1] = p
      BY <1>5
    <3> QED BY <3>1
  <2>2. fs[p] = [kind |-> T[i][2], size |-> 0, ino |-> i]
    BY <1>4 DEF InitialFs
  <2>3. i \in Int /\ T[i][2] \in Kinds
    BY <1>1, <1>2, <2>1
  <2> HIDE DEF i
  <2> QED BY <2>2, <2>3 DEF Nodes
<1>6. TreeTyped
  BY <1>2, <1>3, <1>4, <1>5 DEF TreeTyped
<1>7. watch = EmptyMap /\ queue = <<>> /\ nextIno = Len(T) + 1 /\ nextWd = 1
  BY DEF DatabaseInit, FsInit
<1>8. WatchesTyped
  BY <1>1, <1>7 DEF WatchesTyped, EmptyMap
<1>9. QueueTyped
  BY <1>7, EmptySeq DEF QueueTyped
<1> QED BY <1>6, <1>8, <1>9 DEF KernelTyped

LEMMA TypeInit == DatabaseInit => TypeInv
<1> SUFFICES ASSUME DatabaseInit PROVE TypeInv
  OBVIOUS
<1>1. KernelTyped /\ HandlesPositive
  BY TreeInit, PositiveInit
<1>2. EntriesTyped /\ FlagsTyped
  BY DEF DatabaseInit, DbInit, EmptyMap, EntriesTyped, FlagsTyped
<1> DEFINE c == Call("root", Home, 0, MTP_STORAGE_FIXED_RAM, UNDEFINED, 0)
           busy == [IdleTask EXCEPT !.pc = "entry", !.todo = <<c>>]
<1>3. NoCall \in Calls
  BY EmptySeq DEF NoCall, Call, Calls, Paths, Formats
<1>4. c \in Calls
  <2>1. Home \in Paths
    BY DEF Home, Paths, PathNames
  <2> QED BY <2>1 DEF Call, Calls, Formats, MTP_STORAGE_FIXED_RAM
<1>5. <<>> \in Seq(Calls) /\ <<c>> \in Seq(Calls) /\ <<c>> # <<>>
  BY <1>4, EmptySeq
<1>6. task = [t \in Threads |-> IF t # "daemon" THEN IdleTask ELSE busy]
  BY DEF DatabaseInit, DbInit
<1> HIDE DEF c
<1>7. IdleTask \in Tasks /\ IdleTask.pc = "idle"
  BY <1>3, <1>5 DEF IdleTask, Tasks, TaskPcs
<1>8. busy \in Tasks /\ busy.todo # <<>>
  <2>1. busy \in Tasks
    BY <1>5, <1>7 DEF Tasks, TaskPcs
  <2>2. busy.todo = <<c>>
    BY <1>7 DEF Tasks
  <2> QED BY <1>5, <2>1, <2>2
<1> HIDE DEF busy
<1>9. TasksTyped
  BY <1>6, <1>7, <1>8 DEF TasksTyped
<1> QED BY <1>1, <1>2, <1>9 DEF TypeInv

LEMMA TypeInvImplies == TypeInv => DatabaseTypeOK
<1> SUFFICES ASSUME TypeInv PROVE DatabaseTypeOK
  OBVIOUS
<1>1. DOMAIN db \subseteq Nat /\ counter \in Nat /\ issued \subseteq Nat
  BY DEF TypeInv, HandlesPositive, Positive
<1>2. \A t \in Threads :
        /\ task[t].pc \in TaskPcs
        /\ task[t].handle \in Nat /\ task[t].tmp \in Int
  BY DEF TypeInv, TasksTyped, Tasks
<1> QED BY <1>1, <1>2
    DEF DatabaseTypeOK, TypeInv, EntriesTyped, FlagsTyped, TaskPcs

\* The map always holds entries under numbers, the counter is a number, and
\* each thread is at a place add_file_entry, readFiles or beginSendObject has,
\* for every tree at start-up, every set of calls and every race.
THEOREM DatabaseTypeOKHolds == DatabaseSpec => []DatabaseTypeOK
BY TypeInit, TypeStep, TypeInvImplies, PTL DEF DatabaseSpec

-----------------------------------------------------------------------------
(* The kernel: watches, inodes and the order of events.                    *)

\* Every inode has one path and one watch descriptor at most, and what the
\* kernel will hand out next it has not handed out before.
InosApart ==
  /\ \A p, q \in DOMAIN fs : fs[p].ino = fs[q].ino => p = q
  /\ \A p \in DOMAIN fs : fs[p].ino < nextIno
WatchesApart ==
  /\ \A v, w \in DOMAIN watch : watch[v] = watch[w] => v = w
  /\ \A w \in DOMAIN watch : 0 < w /\ w < nextWd /\ watch[w] < nextIno
  /\ 0 < nextWd
QueueBelow == \A i \in DOMAIN queue : queue[i].wd < nextWd

\* The event of kind mask for the object p, read from descriptor w.
EventOf(w, mask, p) == [wd |-> w, mask |-> mask, name |-> Last(p)]

\* The removal of an object that is there again is followed by its creation.
Recreated(p, w) ==
  \A i \in DOMAIN queue : queue[i] = EventOf(w, "IN_DELETE", p) =>
    \E j \in DOMAIN queue : i < j /\ queue[j] = EventOf(w, "IN_CREATE", p)
EventsOrdered ==
  \A p \in DOMAIN fs : \A w \in WatchersOf(p) : Recreated(p, w)

KernelTold == InosApart /\ WatchesApart /\ QueueBelow /\ EventsOrdered
\* The inodes are numbers, also those that are watched.
InosTyped == \A w \in DOMAIN watch : watch[w] \in Int

\* The directory of a path is what comes before the last name, and never the
\* path itself.
LEMMA FrontShorter ==
  ASSUME NEW p \in Paths, p # <<>>
  PROVE  /\ Len(p) \in Nat /\ Len(p) > 0 /\ Len(Front(p)) = Len(p) - 1
         /\ Front(p) # p
         /\ \A i \in 1 .. Len(p) - 1 : Front(p)[i] = p[i]
<1>1. Len(p) \in Nat /\ Len(p) > 0
  BY LenProperties, EmptySeq DEF Paths
<1>2. \A i \in 1 .. Len(p) - 1 : p[i] \in PathNames
  <2>1. \A i \in 1 .. Len(p) : p[i] \in PathNames
    BY ElementOfSeq DEF Paths
  <2> QED BY <1>1, <2>1
<1>3. PICK n \in Int : n = Len(p) - 1
  BY <1>1
<1>4. /\ Len(SubSeq(p, 1, n)) = (IF 1 <= n THEN n - 1 + 1 ELSE 0)
      /\ \A i \in 1 .. n - 1 + 1 : SubSeq(p, 1, n)[i] = p[1 + i - 1]
  BY <1>1, <1>2, <1>3, SubSeqProperties
<1>5. Len(Front(p)) = n /\ \A i \in 1 .. n : Front(p)[i] = p[i]
  BY <1>1, <1>3, <1>4 DEF Front
<1>6. Front(p) # p
  <2>1. n # Len(p)
    BY <1>1, <1>3
  <2> QED BY <1>5, <2>1
<1> QED BY <1>1, <1>3, <1>5, <1>6

\* A path is its directory and its name.
LEMMA PathParts ==
  ASSUME NEW p \in Paths, NEW q \in Paths, p # <<>>, q # <<>>,
         Front(p) = Front(q), Last(p) = Last(q)
  PROVE  p = q
<1>1. /\ Len(p) \in Nat /\ Len(q) \in Nat /\ Len(p) > 0 /\ Len(q) > 0
      /\ \A i \in 1 .. Len(p) : p[i] \in PathNames
      /\ \A i \in 1 .. Len(q) : q[i] \in PathNames
  BY LenProperties, EmptySeq, ElementOfSeq DEF Paths
<1>2. /\ Len(Front(p)) = Len(p) - 1
      /\ \A i \in 1 .. Len(p) - 1 : Front(p)[i] = p[i]
  BY FrontShorter
<1>3. /\ Len(Front(q)) = Len(q) - 1
      /\ \A i \in 1 .. Len(q) - 1 : Front(q)[i] = q[i]
  BY FrontShorter
<1>4. Len(p) = Len(q)
  BY <1>1, <1>2, <1>3
<1>5. \A i \in 1 .. Len(p) : p[i] = q[i]
  <2> SUFFICES ASSUME NEW i \in 1 .. Len(p) PROVE p[i] = q[i]
    OBVIOUS
  <2>1. CASE i = Len(p)
    BY <1>4, <2>1 DEF Last
  <2>2. CASE i # Len(p)
    <3>1. i \in 1 .. Len(p) - 1 /\ i \in 1 .. Len(q) - 1
      BY <1>1, <1>4, <2>2
    <3> QED BY <1>2, <1>3, <3>1
  <2> QED BY <2>1, <2>2
<1> QED BY <1>4, <1>5, SeqEqual DEF Paths

LEMMA AppendParts ==
  ASSUME NEW p \in Paths, NEW n \in PathNames
  PROVE  /\ Append(p, n) \in Paths /\ Append(p, n) # <<>>
         /\ Front(Append(p, n)) = p /\ Last(Append(p, n)) = n
         /\ Len(Append(p, n)) = Len(p) + 1
<1> DEFINE q == Append(p, n)
<1>1. /\ q \in Seq(PathNames) /\ Len(q) = Len(p) + 1 /\ Len(p) \in Nat
      /\ q[Len(p) + 1] = n /\ \A i \in 1 .. Len(p) : q[i] = p[i]
      /\ \A i \in 1 .. Len(p) : p[i] \in PathNames
  BY AppendProperties, LenProperties, ElementOfSeq DEF Paths
<1> HIDE DEF q
<1>2. q # <<>>
  BY <1>1, EmptySeq
<1>3. /\ SubSeq(q, 1, Len(p)) \in Seq(PathNames)
      /\ Len(SubSeq(q, 1, Len(p))) =
           (IF 1 <= Len(p) THEN Len(p) - 1 + 1 ELSE 0)
      /\ \A i \in 1 .. Len(p) - 1 + 1 : SubSeq(q, 1, Len(p))[i] = q[1 + i - 1]
  BY <1>1, SubSeqProperties
<1>4. SubSeq(q, 1, Len(p)) = p
  <2> DEFINE s == SubSeq(q, 1, Len(p))
  <2>1. s \in Seq(PathNames) /\ p \in Seq(PathNames) /\ Len(s) = Len(p)
    BY <1>1, <1>3 DEF Paths
  <2>2. \A i \in 1 .. Len(p) : s[i] = p[i]
    BY <1>1, <1>3
  <2> HIDE DEF s
  <2>3. s = p
    BY <2>1, <2>2, SeqEqual
  <2> QED BY <2>3 DEF s
<1>5. Front(q) = p /\ Last(q) = n
  <2>1. Len(q) - 1 = Len(p)
    BY <1>1
  <2> QED BY <1>1, <1>4, <2>1 DEF Front, Last
<1> QED BY <1>1, <1>2, <1>5 DEF q, Paths

\* A prefix of a path, name by name.
LEMMA PrefixIs ==
  ASSUME NEW q \in Paths, NEW p \in Paths
  PROVE  IsPrefix(q, p)
           <=> (Len(q) <= Len(p) /\ \A i \in 1 .. Len(q) : q[i] = p[i])
<1>1. /\ Len(q) \in Nat /\ Len(p) \in Nat
      /\ \A i \in 1 .. Len(q) : q[i] \in PathNames
      /\ \A i \in 1 .. Len(p) : p[i] \in PathNames
  BY LenProperties, ElementOfSeq DEF Paths
<1>2. CASE Len(q) <= Len(p)
  <2>1. PICK n \in Nat : n = Len(q)
    BY <1>1
  <2>2. \A i \in 1 .. n : q[i] \in PathNames /\ p[i] \in PathNames
    BY <1>1, <1>2, <2>1
  <2>3. PICK a : a = SubSeq(q, 1, n)
    OBVIOUS
  <2>4. PICK b : b = SubSeq(p, 1, n)
    OBVIOUS
  <2>5. /\ a \in Seq(PathNames) /\ Len(a) = n
        /\ \A i \in 1 .. n : a[i] = q[i]
    <3>1. /\ SubSeq(q, 1, n) \in Seq(PathNames)
          /\ Len(SubSeq(q, 1, n)) = (IF 1 <= n THEN n - 1 + 1 ELSE 0)
          /\ \A i \in 1 .. n - 1 + 1 : SubSeq(q, 1, n)[i] = q[1 + i - 1]
      BY <2>2, SubSeqProperties
    <3> QED BY <2>3, <3>1
  <2>6. /\ b \in Seq(PathNames) /\ Len(b) = n
        /\ \A i \in 1 .. n : b[i] = p[i]
    <3>1. /\ SubSeq(p, 1, n) \in Seq(PathNames)
          /\ Len(SubSeq(p, 1, n)) = (IF 1 <= n THEN n - 1 + 1 ELSE 0)
          /\ \A i \in 1 .. n - 1 + 1 : SubSeq(p, 1, n)[i] = p[1 + i - 1]
      BY <2>2, SubSeqProperties
    <3> QED BY <2>4, <3>1
  <2>7. a = b <=> \A i \in 1 .. n : q[i] = p[i]
    <3>1. ASSUME a = b PROVE \A i \in 1 .. n : q[i] = p[i]
      BY <2>5, <2>6, <3>1
    <3>2. ASSUME \A i \in 1 .. n : q[i] = p[i] PROVE a = b
      <4>1. \A i \in 1 .. n : a[i] = b[i]
        BY <2>5, <2>6, <3>2
      <4> QED BY <2>5, <2>6, <4>1, SeqEqual
    <3> QED BY <3>1, <3>2
  <2>8. IsPrefix(q, p) <=> a = b
    BY <1>2, <2>1, <2>3, <2>4 DEF IsPrefix
  <2> QED BY <1>2, <2>1, <2>7, <2>8
<1>3. CASE ~(Len(q) <= Len(p))
  BY <1>3 DEF IsPrefix
<1> QED BY <1>2, <1>3

\* The directory of a path is above it, and so is what is above the directory.
LEMMA AboveFront ==
  ASSUME NEW p \in Paths, p # <<>>
  PROVE  /\ IsStrictPrefix(Front(p), p)
         /\ \A q \in Paths :
              IsStrictPrefix(q, Front(p)) => IsStrictPrefix(q, p)
<1>1. PICK d : d = Front(p)
  OBVIOUS
<1>2. /\ Len(p) \in Nat /\ Len(d) = Len(p) - 1 /\ d # p /\ d \in Paths
      /\ \A i \in 1 .. Len(p) - 1 : d[i] = p[i]
  BY <1>1, FrontShorter, FrontPath
<1>3. IsPrefix(d, p)
  BY <1>2, PrefixIs
<1>4. ASSUME NEW q \in Paths, IsStrictPrefix(q, d)
      PROVE  IsStrictPrefix(q, p)
  <2>1. Len(q) <= Len(d) /\ \A i \in 1 .. Len(q) : q[i] = d[i]
    BY <1>2, <1>4, PrefixIs DEF IsStrictPrefix
  <2>2. Len(q) \in Nat
    BY LenProperties DEF Paths
  <2>3. Len(q) <= Len(p) /\ Len(q) # Len(p)
    BY <1>2, <2>1, <2>2
  <2>4. \A i \in 1 .. Len(q) : q[i] = p[i]
    BY <1>2, <2>1, <2>2
  <2>5. IsPrefix(q, p)
    BY <2>3, <2>4, PrefixIs
  <2>6. q # p
    BY <2>3
  <2> QED BY <2>5, <2>6 DEF IsStrictPrefix
<1> QED BY <1>1, <1>2, <1>3, <1>4 DEF IsStrictPrefix

\* What an operation on p adds to the queue: what was unread stays, whoever
\* watches p is told last, and nothing else is said.
LEMMA NotifiedSays ==
  ASSUME KernelTyped, WatchesApart, NEW p \in Paths, NEW mask
  PROVE  LET Q == Notified(mask, p) IN
         /\ \A i \in DOMAIN queue : i \in DOMAIN Q /\ Q[i] = queue[i]
         /\ \A w \in WatchersOf(p) :
              \E i \in DOMAIN Q : /\ Q[i] = EventOf(w, mask, p)
                                  /\ \A j \in DOMAIN Q : j <= i
         /\ \A i \in DOMAIN Q \ DOMAIN queue :
              \E w \in WatchersOf(p) : Q[i] = EventOf(w, mask, p)
<1> DEFINE Q == Notified(mask, p)
<1>1. /\ queue \in Seq(Events) /\ Len(queue) \in Nat
      /\ DOMAIN queue = 1 .. Len(queue)
  BY LenProperties DEF KernelTyped, QueueTyped
<1>2. CASE WatchersOf(p) = {}
  <2>1. Q = queue
    BY <1>2 DEF Notified
  <2> QED BY <1>2, <2>1
<1>3. CASE WatchersOf(p) # {}
  <2>1. PICK w : w = CHOOSE wd \in WatchersOf(p) : TRUE
    OBVIOUS
  <2>2. w \in WatchersOf(p)
    BY <1>3, <2>1
  <2>3. \A v \in WatchersOf(p) : v = w
    BY <2>2 DEF WatchersOf, WatchesApart
  <2>4. PICK e : e = EventOf(w, mask, p)
    OBVIOUS
  <2>5. Q = IF queue # <<>> /\ Last(queue) = e THEN queue ELSE Append(queue, e)
    BY <1>3, <2>1, <2>4 DEF Notified, EventOf
  <2>6. CASE queue # <<>> /\ Last(queue) = e
    <3>1. Len(queue) \in DOMAIN queue /\ queue[Len(queue)] = e
          /\ \A j \in DOMAIN queue : j <= Len(queue)
      BY <1>1, <2>6, EmptySeq DEF Last
    <3>2. Q = queue
      BY <2>5, <2>6
    <3> QED BY <2>3, <2>4, <3>1, <3>2
  <2>7. CASE ~(queue # <<>> /\ Last(queue) = e)
    <3>1. PICK R : R = Append(queue, e)
      OBVIOUS
    <3>2. R = Q
      BY <2>5, <2>7, <3>1
    <3>3. queue \in Seq(Events \cup {e}) /\ e \in Events \cup {e}
      BY <1>1, SeqMonotonic
    <3>4. /\ DOMAIN R = 1 .. Len(queue) + 1 /\ R[Len(queue) + 1] = e
          /\ \A i \in 1 .. Len(queue) : R[i] = queue[i]
      <4>1. /\ R \in Seq(Events \cup {e}) /\ Len(R) = Len(queue) + 1
            /\ R[Len(queue) + 1] = e
            /\ \A i \in 1 .. Len(queue) : R[i] = queue[i]
        BY <3>1, <3>3, AppendProperties
      <4> QED BY <4>1, LenProperties
    <3>5. \A i \in DOMAIN queue : i \in DOMAIN R /\ R[i] = queue[i]
      BY <1>1, <3>4
    <3>6. /\ Len(queue) + 1 \in DOMAIN R
          /\ \A j \in DOMAIN R : j <= Len(queue) + 1
          /\ \A j \in DOMAIN R \ DOMAIN queue : j = Len(queue) + 1
      BY <1>1, <3>4
    <3> QED BY <2>2, <2>3, <2>4, <3>2, <3>4, <3>5, <3>6
  <2> QED BY <2>6, <2>7
<1> QED BY <1>2, <1>3

\* What std::map::erase leaves, it leaves as it was.
LEMMA ErasedKeeps ==
  ASSUME NEW m, NEW K
  PROVE  /\ DOMAIN Erase(m, K) = DOMAIN m \ K
         /\ \A x \in DOMAIN m \ K : Erase(m, K)[x] = m[x]
BY DEF Erase, Restrict

\* Programs create, write and remove; the kernel keeps its word.
LEMMA CreateTold ==
  ASSUME KernelTyped, InosTyped, KernelTold, NEW p \in Paths, p \notin DOMAIN fs,
         NEW kind, FsCreate(p, kind)
  PROVE  KernelTold' /\ InosTyped'
<1>1. /\ fs' = Put(fs, p, [kind |-> kind, size |-> 0, ino |-> nextIno])
      /\ nextIno' = nextIno + 1 /\ UNCHANGED <<watch, nextWd>>
      /\ queue' = Notified("IN_CREATE", p)
  BY DEF FsCreate
<1>2. /\ DOMAIN fs' = DOMAIN fs \cup {p}
      /\ \A q \in DOMAIN fs : fs'[q] = fs[q]
      /\ fs'[p].ino = nextIno
  BY <1>1 DEF Put
<1>3. /\ nextIno \in Int /\ \A q \in DOMAIN fs : fs[q].ino \in Int
      /\ \A w \in DOMAIN watch : watch[w] \in Int
      /\ DOMAIN fs \subseteq Paths
  BY DEF KernelTyped, TreeTyped, WatchesTyped, Nodes, InosTyped
<1>4. InosApart'
  <2>1. \A q \in DOMAIN fs : fs[q].ino < nextIno
    BY DEF KernelTold, InosApart
  <2>2. \A q \in DOMAIN fs : fs[q].ino # nextIno /\ fs[q].ino < nextIno + 1
    BY <1>3, <2>1
  <2>3. nextIno < nextIno + 1
    BY <1>3
  <2> QED BY <1>1, <1>2, <2>2, <2>3 DEF KernelTold, InosApart
<1>5. WatchesApart'
  <2>1. \A w \in DOMAIN watch : watch[w] < nextIno + 1
    BY <1>3 DEF KernelTold, WatchesApart
  <2> QED BY <1>1, <2>1 DEF KernelTold, WatchesApart
<1>6. /\ \A i \in DOMAIN queue : i \in DOMAIN queue' /\ queue'[i] = queue[i]
      /\ \A w \in WatchersOf(p) :
           \E i \in DOMAIN queue' : /\ queue'[i] = EventOf(w, "IN_CREATE", p)
                                    /\ \A j \in DOMAIN queue' : j <= i
      /\ \A i \in DOMAIN queue' \ DOMAIN queue :
           \E w \in WatchersOf(p) : queue'[i] = EventOf(w, "IN_CREATE", p)
  BY <1>1, NotifiedSays DEF KernelTold
<1>7. QueueBelow'
  <2>1. \A w \in WatchersOf(p) : w < nextWd
    BY DEF WatchersOf, KernelTold, WatchesApart
  <2> QED BY <1>1, <1>6, <2>1 DEF KernelTold, QueueBelow, EventOf
<1>8. EventsOrdered'
  <2> SUFFICES ASSUME NEW q \in DOMAIN fs', NEW w \in WatchersOf(q)'
               PROVE  Recreated(q, w)'
    BY DEF EventsOrdered
  <2>1. w \in WatchersOf(q)
    <3>1. /\ w \in DOMAIN watch /\ Len(q) > 1 /\ Front(q) \in DOMAIN fs'
          /\ watch[w] = fs'[Front(q)].ino
      BY <1>1 DEF WatchersOf
    <3>2. watch[w] < nextIno /\ watch[w] \in Int
      BY <1>3, <3>1 DEF KernelTold, WatchesApart
    <3>3. Front(q) # p
      BY <1>2, <1>3, <3>1, <3>2
    <3> QED BY <1>2, <3>1, <3>3 DEF WatchersOf
  <2>2. SUFFICES ASSUME NEW i \in DOMAIN queue',
                        queue'[i] = EventOf(w, "IN_DELETE", q)
                 PROVE  \E j \in DOMAIN queue' :
                          i < j /\ queue'[j] = EventOf(w, "IN_CREATE", q)
    BY DEF Recreated
  <2>3. CASE q # p
    <3>1. i \in DOMAIN queue /\ queue[i] = queue'[i]
      BY <1>6, <2>2 DEF EventOf
    <3>2. \E j \in DOMAIN queue :
            i < j /\ queue[j] = EventOf(w, "IN_CREATE", q)
      BY <1>2, <2>1, <2>2, <2>3, <3>1 DEF KernelTold, EventsOrdered, Recreated
    <3> QED BY <1>6, <3>2
  <2>4. CASE q = p
    <3>1. PICK j \in DOMAIN queue' : /\ queue'[j] = EventOf(w, "IN_CREATE", p)
                                     /\ \A k \in DOMAIN queue' : k <= j
      BY <1>6, <2>1, <2>4
    <3>2. i # j /\ i <= j
      BY <2>2, <2>4, <3>1 DEF EventOf
    <3>3. i \in Int /\ j \in Int
      <4>1. queue' \in Seq(Events)
        BY <1>1, NotifiedTyped
      <4> QED BY <4>1
    <3> QED BY <2>4, <3>1, <3>2, <3>3
  <2> QED BY <2>3, <2>4
<1> QED BY <1>1, <1>3, <1>4, <1>5, <1>7, <1>8 DEF KernelTold, InosTyped

LEMMA ResizeTold ==
  ASSUME KernelTyped, InosTyped, KernelTold, NEW p \in DOMAIN fs, NEW z,
         FsResize(p, z)
  PROVE  KernelTold' /\ InosTyped'
<1>1. /\ fs' = [fs EXCEPT ![p].size = z] /\ UNCHANGED <<watch, nextWd, nextIno>>
      /\ queue' = Notified("IN_MODIFY", p) /\ p \in Paths
  BY DEF FsResize, KernelTyped, TreeTyped
<1>2. DOMAIN fs' = DOMAIN fs /\ \A q \in DOMAIN fs : fs'[q].ino = fs[q].ino
  BY <1>1 DEF KernelTyped, TreeTyped, Nodes
<1>3. /\ \A i \in DOMAIN queue : i \in DOMAIN queue' /\ queue'[i] = queue[i]
      /\ \A i \in DOMAIN queue' \ DOMAIN queue :
           \E w \in WatchersOf(p) : queue'[i] = EventOf(w, "IN_MODIFY", p)
  BY <1>1, NotifiedSays DEF KernelTold
<1>4. InosApart' /\ WatchesApart' /\ InosTyped'
  BY <1>1, <1>2 DEF KernelTold, InosApart, WatchesApart, InosTyped
<1>5. QueueBelow'
  <2>1. \A w \in WatchersOf(p) : w < nextWd
    BY DEF WatchersOf, KernelTold, WatchesApart
  <2> QED BY <1>1, <1>3, <2>1 DEF KernelTold, QueueBelow, EventOf
<1>6. EventsOrdered'
  <2> SUFFICES ASSUME NEW q \in DOMAIN fs', NEW w \in WatchersOf(q)',
                      NEW i \in DOMAIN queue',
                      queue'[i] = EventOf(w, "IN_DELETE", q)
               PROVE  \E j \in DOMAIN queue' :
                        i < j /\ queue'[j] = EventOf(w, "IN_CREATE", q)
    BY DEF EventsOrdered, Recreated
  <2>1. w \in WatchersOf(q)
    BY <1>1, <1>2 DEF WatchersOf
  <2>2. i \in DOMAIN queue /\ queue[i] = queue'[i]
    BY <1>3 DEF EventOf
  <2>3. \E j \in DOMAIN queue : i < j /\ queue[j] = EventOf(w, "IN_CREATE", q)
    BY <1>2, <2>1, <2>2 DEF KernelTold, EventsOrdered, Recreated
  <2> QED BY <1>3, <2>3
<1> QED BY <1>4, <1>5, <1>6 DEF KernelTold

LEMMA RemoveTold ==
  ASSUME KernelTyped, InosTyped, KernelTold, NEW p \in DOMAIN fs, FsRemove(p)
  PROVE  KernelTold' /\ InosTyped'
<1>1. /\ fs' = Erase(fs, {p}) /\ UNCHANGED <<nextWd, nextIno>>
      /\ watch' = WatchWithout(fs[p].ino)
      /\ queue' = Notified("IN_DELETE", p) /\ p \in Paths
  BY DEF FsRemove, KernelTyped, TreeTyped
<1>2. /\ DOMAIN fs' = DOMAIN fs \ {p} /\ \A q \in DOMAIN fs' : fs'[q] = fs[q]
      /\ DOMAIN watch' \subseteq DOMAIN watch
      /\ \A w \in DOMAIN watch' : watch'[w] = watch[w]
  <2>1. PICK K : watch' = Erase(watch, K)
    BY <1>1 DEF WatchWithout
  <2>2. /\ DOMAIN fs' = DOMAIN fs \ {p}
        /\ \A q \in DOMAIN fs \ {p} : fs'[q] = fs[q]
    BY <1>1, ErasedKeeps
  <2>3. /\ DOMAIN watch' = DOMAIN watch \ K
        /\ \A w \in DOMAIN watch \ K : watch'[w] = watch[w]
    BY <2>1, ErasedKeeps
  <2> QED BY <2>2, <2>3
<1>3. /\ \A i \in DOMAIN queue : i \in DOMAIN queue' /\ queue'[i] = queue[i]
      /\ \A i \in DOMAIN queue' \ DOMAIN queue :
           \E w \in WatchersOf(p) : queue'[i] = EventOf(w, "IN_DELETE", p)
  BY <1>1, NotifiedSays DEF KernelTold
<1>4. InosApart' /\ WatchesApart' /\ InosTyped'
  <2>1. InosApart'
    <3>1. /\ \A q, r \in DOMAIN fs : fs[q].ino = fs[r].ino => q = r
          /\ \A q \in DOMAIN fs : fs[q].ino < nextIno
      BY DEF KernelTold, InosApart
    <3>2. /\ \A q \in DOMAIN fs' : q \in DOMAIN fs /\ fs'[q].ino = fs[q].ino
          /\ nextIno' = nextIno
      BY <1>1, <1>2
    <3>3. \A q, r \in DOMAIN fs' : fs'[q].ino = fs'[r].ino => q = r
      BY <3>1, <3>2
    <3>4. \A q \in DOMAIN fs' : fs'[q].ino < nextIno'
      BY <3>1, <3>2
    <3> QED BY <3>3, <3>4 DEF InosApart
  <2>2. WatchesApart'
    <3>1. /\ \A v, w \in DOMAIN watch : watch[v] = watch[w] => v = w
          /\ \A w \in DOMAIN watch : 0 < w /\ w < nextWd /\ watch[w] < nextIno
          /\ 0 < nextWd
      BY DEF KernelTold, WatchesApart
    <3>2. \A v, w \in DOMAIN watch' : watch'[v] = watch'[w] => v = w
      BY <1>2, <3>1
    <3>3. \A w \in DOMAIN watch' :
            0 < w /\ w < nextWd' /\ watch'[w] < nextIno'
      BY <1>1, <1>2, <3>1
    <3> QED BY <1>1, <3>1, <3>2, <3>3 DEF WatchesApart
  <2>3. InosTyped'
    BY <1>2 DEF InosTyped
  <2> QED BY <2>1, <2>2, <2>3
<1>5. QueueBelow'
  <2>1. \A w \in WatchersOf(p) : w < nextWd
    BY DEF WatchersOf, KernelTold, WatchesApart
  <2> QED BY <1>1, <1>3, <2>1 DEF KernelTold, QueueBelow, EventOf
<1>6. EventsOrdered'
  <2> SUFFICES ASSUME NEW q \in DOMAIN fs', NEW w \in WatchersOf(q)',
                      NEW i \in DOMAIN queue',
                      queue'[i] = EventOf(w, "IN_DELETE", q)
               PROVE  \E j \in DOMAIN queue' :
                        i < j /\ queue'[j] = EventOf(w, "IN_CREATE", q)
    BY DEF EventsOrdered, Recreated
  <2>1. w \in WatchersOf(q) /\ q \in DOMAIN fs /\ q # p
    BY <1>2 DEF WatchersOf
  <2>2. i \in DOMAIN queue
    <3> SUFFICES ASSUME i \notin DOMAIN queue PROVE FALSE
      OBVIOUS
    <3>1. w \in WatchersOf(p) /\ Last(p) = Last(q)
      BY <1>3 DEF EventOf
    <3>2. fs[Front(p)].ino = fs[Front(q)].ino /\ Front(p) \in DOMAIN fs
          /\ Front(q) \in DOMAIN fs /\ Len(p) > 1 /\ Len(q) > 1
      BY <2>1, <3>1 DEF WatchersOf
    <3>3. Front(p) = Front(q)
      BY <3>2 DEF KernelTold, InosApart
    <3>4. p # <<>> /\ q # <<>> /\ q \in Paths
      BY <2>1, <3>2 DEF KernelTyped, TreeTyped
    <3> QED BY <1>1, <2>1, <3>1, <3>3, <3>4, PathParts
  <2>3. \E j \in DOMAIN queue : i < j /\ queue[j] = EventOf(w, "IN_CREATE", q)
    BY <1>3, <2>1, <2>2 DEF KernelTold, EventsOrdered, Recreated
  <2> QED BY <1>3, <2>3
<1> QED BY <1>4, <1>5, <1>6 DEF KernelTold

\* inotify_add_watch makes a descriptor nobody has, or finds the inode's own.
LEMMA AddWatchTold ==
  ASSUME KernelTyped, InosTyped, KernelTold, NEW p, AddWatch(p)
  PROVE  /\ KernelTold' /\ InosTyped'
         /\ DOMAIN watch' \subseteq DOMAIN watch \cup {nextWd}
         /\ DOMAIN watch \subseteq DOMAIN watch'
         /\ \A w \in DOMAIN watch : watch'[w] = watch[w]
         /\ nextWd <= nextWd' /\ WatchDescriptor(p) < nextWd'
         /\ WatchDescriptor(p) \in DOMAIN watch' =>
              p \in DOMAIN fs /\ watch'[WatchDescriptor(p)] = fs[p].ino
         /\ p \in DOMAIN fs => WatchDescriptor(p) \in DOMAIN watch'
<1> DEFINE v == WatchDescriptor(p)
<1>0. /\ nextWd \in Int /\ DOMAIN watch \subseteq Int
      /\ \A q \in DOMAIN fs : fs[q].ino \in Int
  BY DEF KernelTyped, TreeTyped, WatchesTyped, Nodes
<1>1. UNCHANGED <<fs, queue, nextIno>>
      /\ nextWd' = IF v = nextWd THEN nextWd + 1 ELSE nextWd
  BY DEF AddWatch
<1>2. nextWd \notin DOMAIN watch /\ 0 < nextWd /\ -1 \notin DOMAIN watch
  BY <1>0 DEF KernelTold, WatchesApart
<1>3. CASE p \notin DOMAIN fs
  <2>1. v = -1 /\ watch' = watch
    BY <1>3 DEF AddWatch, WatchDescriptor
  <2>2. v # nextWd /\ v < nextWd
    BY <1>0, <1>2, <2>1
  <2>3. nextWd' = nextWd
    BY <1>1, <2>2
  <2>4. KernelTold' /\ InosTyped'
    BY <1>1, <2>1, <2>3
       DEF KernelTold, InosApart, WatchesApart, QueueBelow, EventsOrdered,
           WatchersOf, Recreated, InosTyped
  <2> HIDE DEF v
  <2> QED BY <1>0, <1>2, <1>3, <2>1, <2>2, <2>3, <2>4 DEF v
<1>4. CASE p \in DOMAIN fs /\ \E w \in DOMAIN watch : watch[w] = fs[p].ino
  <2>1. v \in DOMAIN watch /\ watch[v] = fs[p].ino
    BY <1>4 DEF WatchDescriptor
  <2>2. watch' = Put(watch, v, fs[p].ino)
    BY <1>4 DEF AddWatch
  <2> HIDE DEF v
  <2>3. DOMAIN watch' = DOMAIN watch /\ \A w \in DOMAIN watch : watch'[w] = watch[w]
    BY <2>1, <2>2 DEF Put
  <2>4. v < nextWd /\ v # nextWd
    BY <1>2, <2>1 DEF KernelTold, WatchesApart
  <2>5. nextWd' = nextWd
    BY <1>1, <2>4
  <2>6. KernelTold' /\ InosTyped'
    BY <1>1, <2>3, <2>5
       DEF KernelTold, InosApart, WatchesApart, QueueBelow, EventsOrdered,
           WatchersOf, Recreated, InosTyped
  <2> QED BY <1>0, <1>4, <2>1, <2>3, <2>4, <2>5, <2>6 DEF v
<1>5. CASE p \in DOMAIN fs /\ ~\E w \in DOMAIN watch : watch[w] = fs[p].ino
  <2>1. v = nextWd /\ watch' = Put(watch, nextWd, fs[p].ino)
    BY <1>5 DEF AddWatch, WatchDescriptor
  <2>2. nextWd' = nextWd + 1 /\ nextWd < nextWd'
    BY <1>0, <1>1, <2>1
  <2>3. /\ DOMAIN watch' = DOMAIN watch \cup {nextWd}
        /\ \A w \in DOMAIN watch : watch'[w] = watch[w]
        /\ watch'[nextWd] = fs[p].ino
    BY <1>2, <2>1 DEF Put
  <2>4. WatchesApart'
    <3>1. \A w \in DOMAIN watch : w < nextWd'
      BY <1>0, <2>2 DEF KernelTold, WatchesApart
    <3>2. 0 < nextWd'
      BY <1>0, <1>2, <2>2
    <3>3. fs[p].ino < nextIno
      BY <1>5 DEF KernelTold, InosApart
    <3> QED BY <1>1, <1>2, <1>5, <2>2, <2>3, <3>1, <3>2, <3>3
            DEF KernelTold, WatchesApart
  <2>5. QueueBelow'
    <3>1. \A i \in DOMAIN queue : queue[i].wd \in Int
      <4>1. queue \in Seq(Events) /\ DOMAIN queue = 1 .. Len(queue)
        BY LenProperties DEF KernelTyped, QueueTyped
      <4>2. \A i \in DOMAIN queue : queue[i] \in Events
        BY <4>1, ElementOfSeq
      <4> QED BY <4>2 DEF Events
    <3>2. \A i \in DOMAIN queue : queue[i].wd < nextWd'
      BY <1>0, <2>2, <3>1 DEF KernelTold, QueueBelow
    <3> QED BY <1>1, <3>2 DEF QueueBelow
  <2>6. EventsOrdered'
    <3> SUFFICES ASSUME NEW q \in DOMAIN fs, NEW w \in WatchersOf(q)'
                 PROVE  Recreated(q, w)
      BY <1>1 DEF EventsOrdered, Recreated
    <3>1. CASE w = nextWd
      <4>1. \A i \in DOMAIN queue : queue[i].wd # nextWd
        BY <1>0 DEF KernelTold, QueueBelow
      <4> QED BY <3>1, <4>1 DEF Recreated, EventOf
    <3>2. CASE w # nextWd
      <4>1. w \in WatchersOf(q)
        BY <1>1, <2>3, <3>2 DEF WatchersOf
      <4> QED BY <4>1 DEF KernelTold, EventsOrdered
    <3> QED BY <3>1, <3>2
  <2>7. InosApart' /\ InosTyped'
    BY <1>0, <1>1, <1>5, <2>3 DEF KernelTold, InosApart, InosTyped
  <2> HIDE DEF v
  <2> QED BY <1>0, <1>5, <2>1, <2>2, <2>3, <2>4, <2>5, <2>6, <2>7
          DEF v, KernelTold
<1> QED BY <1>3, <1>4, <1>5

\* An event is read, and a watch may go.
LEMMA ReadTold ==
  ASSUME KernelTyped, InosTyped, KernelTold, queue # <<>>, queue' = Tail(queue),
         UNCHANGED <<fs, nextIno, nextWd>>,
         DOMAIN watch' \subseteq DOMAIN watch,
         \A w \in DOMAIN watch' : watch'[w] = watch[w]
  PROVE  /\ KernelTold' /\ InosTyped'
         /\ Len(queue) \in Nat /\ Len(queue) > 0
         /\ DOMAIN queue = 1 .. Len(queue)
         /\ DOMAIN queue' = 1 .. Len(queue) - 1
         /\ \A i \in 1 .. Len(queue) - 1 : queue'[i] = queue[i + 1]
<1>1. /\ queue \in Seq(Events) /\ Len(queue) \in Nat /\ Len(queue) > 0
      /\ DOMAIN queue = 1 .. Len(queue)
  BY LenProperties, EmptySeq DEF KernelTyped, QueueTyped
<1>2. /\ DOMAIN queue' = 1 .. Len(queue) - 1
      /\ \A i \in 1 .. Len(queue) - 1 : queue'[i] = queue[i + 1]
  <2>1. /\ Tail(queue) \in Seq(Events) /\ Len(Tail(queue)) = Len(queue) - 1
        /\ \A i \in 1 .. Len(Tail(queue)) : Tail(queue)[i] = queue[i + 1]
    BY <1>1, HeadTailProperties
  <2> QED BY <2>1, LenProperties
<1>3. InosApart' /\ WatchesApart' /\ InosTyped'
  BY DEF KernelTold, InosApart, WatchesApart, InosTyped
<1>4. QueueBelow'
  BY <1>1, <1>2 DEF KernelTold, QueueBelow
<1>5. EventsOrdered'
  <2> SUFFICES ASSUME NEW q \in DOMAIN fs, NEW w \in WatchersOf(q)',
                      NEW i \in DOMAIN queue',
                      queue'[i] = EventOf(w, "IN_DELETE", q)
               PROVE  \E j \in DOMAIN queue' :
                        i < j /\ queue'[j] = EventOf(w, "IN_CREATE", q)
    BY DEF EventsOrdered, Recreated
  <2>1. w \in WatchersOf(q)
    BY DEF WatchersOf
  <2>2. i + 1 \in DOMAIN queue /\ queue[i + 1] = EventOf(w, "IN_DELETE", q)
    BY <1>1, <1>2
  <2>3. PICK j \in DOMAIN queue :
          i + 1 < j /\ queue[j] = EventOf(w, "IN_CREATE", q)
    BY <2>1, <2>2 DEF KernelTold, EventsOrdered, Recreated
  <2>4. j - 1 \in DOMAIN queue' /\ i < j - 1 /\ queue'[j - 1] = queue[j - 1 + 1]
        /\ j - 1 + 1 = j
    BY <1>1, <1>2, <2>3
  <2> QED BY <2>3, <2>4
<1> QED BY <1>1, <1>2, <1>3, <1>4, <1>5 DEF KernelTold

-----------------------------------------------------------------------------
(* When only the notifier and the scan at start-up touch the database: one *)
(* handle per path, and the database agrees with the tree.                 *)

\* No call of another thread, and nobody touches the tree during the scan.
LocalOnly == DbCalls = {} /\ QuietScan

Scanners == {"notifier", "daemon"}
\* One thread at a time adds entries, and what happens during the scan of the
\* root is read by nobody.
OneScan ==
  /\ Idle("server")
  /\ ~Idle("daemon") => Idle("notifier") /\ queue = <<>>

\* In the map m: an entry, or a call that will make one, is the root's or
\* belongs to the entry of the directory it lies in.
Placed(m, c) ==
  /\ c.path # <<>>
  /\ \/ c.path = Home
     \/ /\ c.parent \in DOMAIN m /\ m[c.parent].watched
        /\ m[c.parent].path = Front(c.path)
EntryOK(h) ==
  /\ Placed(db, db[h]) /\ db[h].parent # MTP_PARENT_ROOT
  /\ db[h].storage_id = MTP_STORAGE_FIXED_RAM
  /\ db[h].watched = (db[h].object_format = ASSOCIATION)
  /\ db[h].path = Home => db[h].watched
CallOK(m, c) ==
  /\ Placed(m, c) /\ c.parent # MTP_PARENT_ROOT
  /\ c.storage = MTP_STORAGE_FIXED_RAM
  /\ c.kind = IF c.path = Home THEN "root" ELSE "entry"
\* ... and it will not be the second entry of its path.
New(m, c) == CallOK(m, c) /\ \A h \in DOMAIN m : m[h].path # c.path

Pending(t) ==
  task[t].pc \in {"alloc", "watch", "insert_dir", "stat", "insert_file"}
TodoNew(t) ==
  /\ \A i \in DOMAIN task[t].todo : New(db, task[t].todo[i])
  /\ \A i, j \in DOMAIN task[t].todo :
       task[t].todo[i].path = task[t].todo[j].path => i = j
CurNew(t) ==
  /\ Pending(t) =>
       /\ New(db, task[t].cur)
       /\ \A i \in DOMAIN task[t].todo : task[t].todo[i].path # task[t].cur.path
  /\ task[t].pc \in {"stat", "insert_file"} => task[t].cur.path # Home
\* Nothing in a directory is known or about to be before it is listed.
Outside(c, p) == c.path = Home \/ Front(c.path) # p
Listed(t) ==
  task[t].pc = "list" =>
    /\ CallOK(db, task[t].cur)
    /\ task[t].handle \in DOMAIN db
    /\ db[task[t].handle].path = task[t].cur.path
    /\ db[task[t].handle].watched
    /\ \A h \in DOMAIN db : Outside(db[h], task[t].cur.path)
    /\ \A i \in DOMAIN task[t].todo :
         Outside(task[t].todo[i], task[t].cur.path)

EntriesOK ==
  /\ \A h \in DOMAIN db : EntryOK(h)
  /\ \A g, h \in DOMAIN db : db[g].path = db[h].path => g = h
CallsNew ==
  \A t \in Scanners : ~Idle(t) => TodoNew(t) /\ CurNew(t) /\ Listed(t)
PathsInv == ub = {} => EntriesOK /\ CallsNew

\* The directory of entry d is still watched.
Watching(d) == db[d].watch_fd \in DOMAIN watch
\* w is a descriptor of the directory p, as long as it is one at all (-1, which
\* a refused watch leaves, never is).
WatchOf(p, w) ==
  w < nextWd /\ (w \in DOMAIN watch => p \in DOMAIN fs /\ watch[w] = fs[p].ino)
\* An event for the object of c is in the queue.
Pends(mask, c) ==
  \E i \in DOMAIN queue :
    queue[i] = EventOf(db[c.parent].watch_fd, mask, c.path)
\* c need not agree with the tree: its removal, or that of the directory it is
\* in, is on its way.
Excused(c) ==
  c.path # Home /\ (~Watching(c.parent) \/ Pends("IN_DELETE", c))
TrueDir(p, w) == IsDirectory(p) /\ (w \in DOMAIN watch \/ w = -1)
TrueFile(c, size) ==
  IsFile(c.path) /\ (fs[c.path].size = size \/ Pends("IN_MODIFY", c))

WatchesTrue ==
  \A h \in DOMAIN db : db[h].watched => WatchOf(db[h].path, db[h].watch_fd)
Sound(h) ==
  \/ Excused(db[h])
  \/ db[h].watched /\ TrueDir(db[h].path, db[h].watch_fd)
  \/ ~db[h].watched /\ TrueFile(db[h], db[h].object_size)
CurSound(t) ==
  LET c == task[t].cur IN
  /\ task[t].pc = "watch" => Excused(c) \/ IsDirectory(c.path)
  /\ task[t].pc = "insert_dir" =>
       /\ WatchOf(c.path, task[t].tmp)
       /\ Excused(c) \/ TrueDir(c.path, task[t].tmp)
  /\ task[t].pc = "stat" =>
       (IsDirectory(c.path) => ~Watching(c.parent) \/ Pends("IN_CREATE", c))
  /\ task[t].pc = "insert_file" => Excused(c) \/ TrueFile(c, c.size)

\* p lies in the directory of d, what happens there is reported, and nobody gave
\* up its scan.
InDir(p, d) ==
  /\ Len(p) > 1 /\ db[d].path = Front(p) /\ db[d].watched /\ Watching(d)
  /\ p \notin Skipped
\* Thread t has p before it, or is making its entry.
OnTheWay(t, p) ==
  \/ Pending(t) /\ task[t].cur.path = p
  \/ \E i \in DOMAIN task[t].todo : task[t].todo[i].path = p
Known(p) == \E h \in DOMAIN db : db[h].path = p
Told(p, d) ==
  \E i \in DOMAIN queue : queue[i] = EventOf(db[d].watch_fd, "IN_CREATE", p)
\* p has an entry, or is on the way to one.
Noticed(p, d) ==
  \/ Known(p) \/ Told(p, d)
  \/ \E t \in Scanners : ~Idle(t) /\ OnTheWay(t, p)
  \/ \E t \in Scanners : task[t].pc = "list" /\ task[t].handle = d

AllNoticed ==
  \A p \in DOMAIN fs : \A d \in DOMAIN db : InDir(p, d) => Noticed(p, d)
EntriesSound == \A h \in DOMAIN db : Sound(h)
CallsSound == \A t \in Scanners : CurSound(t)
SyncNow == WatchesTrue /\ AllNoticed /\ EntriesSound /\ CallsSound
SyncInv == ub = {} /\ alive => SyncNow

\* The handles of the database were issued (so a fresh one is not among them).
EntriesIssued == DOMAIN db \subseteq issued

LocalInv ==
  /\ TypeInv /\ HandlesFreshInv /\ EntriesIssued
  /\ InosTyped /\ KernelTold /\ OneScan /\ PathsInv /\ SyncInv

-----------------------------------------------------------------------------
(* The steps that are left, and the scan they belong to.                   *)

OthersStay(t) == \A u \in Threads \ {t} : task'[u] = task[u]

LEMMA LocalOnlyStep ==
  ASSUME LocalOnly, OneScan, DatabaseNext
  PROVE  /\ alive
         /\ \/ \E t \in Scanners : AddEntryStep(t)
            \/ InotifyHandler
            \/ Idle("daemon") /\ LocalStep(Roots) /\ UNCHANGED dbVars
<1>1. ~ServerCall
  BY DEF LocalOnly, ServerCall
<1>2. ~ServerSend
  BY DEF LocalOnly, ServerSend, OneScan, Idle, ReserveEntry, FinishBeginSend
<1>3. ~StorageCall
  BY DEF LocalOnly, StorageCall
<1>4. CASE Local
  BY <1>4 DEF LocalOnly, Local, DatabaseNext
<1>5. CASE DbStep
  BY <1>1, <1>2, <1>3, <1>5 DEF DbStep, Scanners, DatabaseNext
<1> QED BY <1>4, <1>5 DEF DatabaseNext

\* While a scanner adds entries, every other thread is idle.
LEMMA Alone ==
  ASSUME OneScan, NEW t \in Scanners, ~Idle(t)
  PROVE  t \in Threads /\ \A u \in Threads \ {t} : Idle(u)
BY DEF OneScan, Scanners, Threads

\* What every step of add_file_entry leaves as it was.
LEMMA AddEntryFrame ==
  ASSUME TypeInv, NEW t \in Threads, AddEntryStep(t)
  PROVE  /\ UNCHANGED <<fs, queue, nextIno>> /\ ub \subseteq ub'
         /\ ~Idle(t) /\ OthersStay(t)
<1>1. DOMAIN task = Threads
  BY DEF TypeInv, TasksTyped
<1>2. /\ ~Idle(t)
      /\ UNCHANGED <<fs, queue, nextIno>> /\ ub \subseteq ub'
  BY DEF AddEntryStep, ReadCounter, StoreCounter, WatchDirectory,
         InsertDirectory, ListDirectory, StatFile, InsertFile, WatchRefused,
         ListingRefused, Idle, AddWatch, kernelVars
<1> USE DEF OthersStay
<1>3. CASE ReadCounter(t)
  BY <1>1, <1>2, <1>3 DEF ReadCounter
<1>4. CASE StoreCounter(t)
  BY <1>1, <1>2, <1>4 DEF StoreCounter
<1>6. CASE WatchDirectory(t) \/ WatchRefused(t)
  BY <1>1, <1>2, <1>6 DEF WatchDirectory, WatchRefused
<1>7. CASE StatFile(t)
  BY <1>1, <1>2, <1>7 DEF StatFile
<1>8. CASE InsertFile(t)
  BY <1>1, <1>2, <1>8 DEF InsertFile
<1>9. CASE InsertDirectory(t)
  BY <1>1, <1>2, <1>9 DEF InsertDirectory, GiveUp
<1>10. CASE ListingRefused(t)
  BY <1>1, <1>2, <1>10 DEF ListingRefused, GiveUp
<1>5. CASE ListDirectory(t)
  <2>1. \E s : \E pc : task' = [task EXCEPT ![t].todo = s, ![t].pc = pc]
    BY <1>5 DEF ListDirectory
  <2>2. PICK s, pc : task' = [task EXCEPT ![t].todo = s, ![t].pc = pc]
    BY <2>1
  <2> QED BY <1>1, <1>2, <2>2
<1> QED BY <1>2, <1>3, <1>4, <1>5, <1>6, <1>7, <1>8, <1>9, <1>10
    DEF AddEntryStep

\* The scans that were given up are never taken up again.
LEMMA SkippedGrows ==
  ASSUME TypeInv, NEW t \in Threads, AddEntryStep(t)
  PROVE  Skipped \subseteq Skipped'
<1>1. /\ DOMAIN task = Threads
      /\ \A u \in Threads : task[u] \in Tasks
  BY DEF TypeInv, TasksTyped
<1>2. OthersStay(t)
  BY AddEntryFrame
<1>3. \A u \in Threads \ {t} : task'[u].skipped = task[u].skipped
  BY <1>2 DEF OthersStay
<1>4. task[t].skipped \subseteq task'[t].skipped
  <2>0. DOMAIN task[t] = TaskFields /\ "skipped" \in TaskFields
    BY DEF TypeInv, HandlesPositive, TaskFields
  <2>1. CASE \E left : GiveUp(t, left)
    BY <1>1, <2>0, <2>1, GaveUp
  <2>2. CASE ReadCounter(t)
    BY <1>1, <2>0, <2>2 DEF ReadCounter
  <2>6. CASE StoreCounter(t)
    BY <1>1, <2>0, <2>6 DEF StoreCounter
  <2>7. CASE WatchDirectory(t) \/ WatchRefused(t)
    BY <1>1, <2>0, <2>7 DEF WatchDirectory, WatchRefused
  <2>3. CASE InsertDirectory(t) \/ ListingRefused(t)
    <3>1. \/ \E left : GiveUp(t, left)
          \/ task' = [task EXCEPT ![t].pc = "list"]
      BY <2>3 DEF InsertDirectory, ListingRefused
    <3> QED BY <1>1, <2>0, <2>1, <3>1
  <2>4. CASE StatFile(t)
    <3>1. \/ \E z : task' = [task EXCEPT ![t].pc = "insert_file",
                                        ![t].cur.size = z]
          \/ task' = [task EXCEPT ![t].pc = Return(t)]
      BY <2>4 DEF StatFile
    <3> QED BY <1>1, <2>0, <3>1
  <2>8. CASE InsertFile(t)
    BY <1>1, <2>0, <2>8 DEF InsertFile
  <2>5. CASE ListDirectory(t)
    <3>1. \E s : \E pc : task' = [task EXCEPT ![t].todo = s, ![t].pc = pc]
      BY <2>5 DEF ListDirectory
    <3>2. PICK s, pc : task' = [task EXCEPT ![t].todo = s, ![t].pc = pc]
      BY <3>1
    <3> QED BY <1>1, <3>2 DEF Tasks
  <2> QED BY <2>2, <2>3, <2>4, <2>5, <2>6, <2>7, <2>8 DEF AddEntryStep
<1> QED BY <1>3, <1>4 DEF Skipped

\* What the notifier starts is its own.
LEMMA InotifyFrame ==
  ASSUME TypeInv, OneScan, InotifyHandler
  PROVE  /\ \A u \in Threads : Idle(u)
         /\ queue # <<>> /\ ub \subseteq ub' /\ OthersStay("notifier")
         /\ Skipped' = Skipped
         /\ queue' = Tail(queue) /\ UNCHANGED <<fs, nextIno, nextWd>>
<1>1. /\ DOMAIN task = Threads
      /\ \A u \in Threads : task[u] \in Tasks
  BY DEF TypeInv, TasksTyped
<1>2. /\ Idle("notifier") /\ queue # <<>> /\ queue' = Tail(queue)
      /\ UNCHANGED <<fs, nextIno, nextWd>>
  BY DEF InotifyHandler
<1>3. \A u \in Threads : Idle(u)
  BY <1>2 DEF OneScan, Threads
<1>4. ub \subseteq ub'
  BY InotifyDomain
<1>5. task' = task \/ \E c : task' = [task EXCEPT !["notifier"].pc = "entry",
                                                  !["notifier"].todo = c]
  BY InotifyDomain
<1>6. OthersStay("notifier")
  <2>1. CASE task' = task
    BY <2>1 DEF OthersStay
  <2>2. CASE task' # task
    <3>1. PICK c : task' = [task EXCEPT !["notifier"].pc = "entry",
                                        !["notifier"].todo = c]
      BY <1>5, <2>2
    <3> QED BY <1>1, <3>1 DEF OthersStay
  <2> QED BY <2>1, <2>2
<1>7. Skipped' = Skipped
  <2>1. CASE task' = task
    BY <2>1 DEF Skipped
  <2>2. CASE task' # task
    <3>1. PICK c : task' = [task EXCEPT !["notifier"].pc = "entry",
                                        !["notifier"].todo = c]
      BY <1>5, <2>2
    <3>2. \A u \in Threads : task'[u].skipped = task[u].skipped
      BY <1>1, <3>1 DEF Tasks
    <3> QED BY <3>2 DEF Skipped
  <2> QED BY <2>1, <2>2
<1> QED BY <1>2, <1>3, <1>4, <1>6, <1>7

LEMMA OneScanStep ==
  ASSUME LocalOnly, TypeInv, OneScan, DatabaseNext
  PROVE  OneScan'
<1>1. ASSUME NEW t \in Scanners, AddEntryStep(t)
      PROVE  OneScan'
  <2>1. t \in Threads
    BY DEF Scanners, Threads
  <2>2. UNCHANGED queue /\ ~Idle(t) /\ OthersStay(t)
    BY <1>1, <2>1, AddEntryFrame
  <2>3. Idle("server") /\ "server" \in Threads \ {t}
    BY DEF OneScan, Scanners, Threads
  <2>4. Idle("server")'
    BY <2>2, <2>3 DEF OthersStay, Idle
  <2>5. CASE t = "daemon"
    <3>1. Idle("notifier") /\ queue = <<>> /\ "notifier" \in Threads \ {t}
      BY <2>2, <2>5 DEF OneScan, Threads
    <3> QED BY <2>2, <2>4, <3>1 DEF OneScan, OthersStay, Idle
  <2>6. CASE t = "notifier"
    <3>1. Idle("daemon") /\ "daemon" \in Threads \ {t}
      BY <2>2, <2>6 DEF OneScan, Threads
    <3> QED BY <2>2, <2>4, <3>1 DEF OneScan, OthersStay, Idle
  <2> QED BY <2>5, <2>6 DEF Scanners
<1>2. CASE InotifyHandler
  <2>1. OthersStay("notifier") /\ \A u \in Threads : Idle(u)
    BY <1>2, InotifyFrame
  <2>2. Idle("server")' /\ Idle("daemon")'
    BY <2>1 DEF OthersStay, Idle, Threads
  <2> QED BY <2>2 DEF OneScan
<1>3. CASE Idle("daemon") /\ UNCHANGED dbVars
  BY <1>3 DEF OneScan, Idle, dbVars
<1> QED BY <1>1, <1>2, <1>3, LocalOnlyStep

-----------------------------------------------------------------------------
(* The paths: entries and calls, step by step.                             *)

\* An entry stays placed as long as the entry of its directory stays.
LEMMA PlacedKept ==
  ASSUME NEW m, NEW n, NEW c, Placed(m, c),
         c.path = Home \/ c.parent \in DOMAIN n,
         \A h \in DOMAIN m \cap DOMAIN n :
           n[h].path = m[h].path /\ n[h].watched = m[h].watched
  PROVE  Placed(n, c)
BY DEF Placed

\* The handle add_file_entry inserts under is nobody's yet.
LEMMA HandleFree ==
  ASSUME HandlesFreshInv, EntriesIssued, ub = {}, NEW t \in Threads,
         task[t].pc \in {"insert_dir", "insert_file"}
  PROVE  task[t].handle \notin DOMAIN db
BY DEF HandlesFreshInv, FreshParts, HoldersBelow, Holding, EntriesIssued

\* A call that is new in a directory, and has its turn, makes a good entry;
\* the calls for other paths stay new.
LEMMA EntryAdded ==
  ASSUME EntriesOK, NEW c, New(db, c), NEW k, k \notin DOMAIN db,
         NEW e, e.path = c.path, e.parent = c.parent,
         e.storage_id = c.storage,
         e.watched = (e.object_format = ASSOCIATION),
         c.path = Home => e.watched,
         db' = Insert(db, k, e)
  PROVE  /\ EntriesOK'
         /\ DOMAIN db' = DOMAIN db \cup {k} /\ db'[k] = e
         /\ \A h \in DOMAIN db : db'[h] = db[h]
         /\ \A x : New(db, x) /\ x.path # c.path => New(db', x)
         /\ \A x : Placed(db, x) => Placed(db', x)
<1>2. /\ DOMAIN db' = DOMAIN db \cup {k} /\ db'[k] = e
      /\ \A h \in DOMAIN db : db'[h] = db[h]
  BY DEF Insert
<1>3. /\ Placed(db, c) /\ c.parent # MTP_PARENT_ROOT
      /\ c.storage = MTP_STORAGE_FIXED_RAM
      /\ \A h \in DOMAIN db : db[h].path # c.path
  BY DEF New, CallOK
<1>4. ASSUME NEW x, Placed(db, x)
      PROVE  Placed(db', x)
  BY <1>2, <1>4 DEF Placed
<1>5. ASSUME NEW h \in DOMAIN db'
      PROVE  EntryOK(h)'
  <2>1. CASE h = k
    <3>1. Placed(db', c)
      BY <1>3, <1>4
    <3>2. Placed(db', e)
      BY <3>1 DEF Placed
    <3> QED BY <1>2, <1>3, <2>1, <3>2 DEF EntryOK
  <2>2. CASE h \in DOMAIN db
    <3>1. EntryOK(h)
      BY <2>2 DEF EntriesOK
    <3>2. Placed(db', db[h])
      BY <1>4, <3>1 DEF EntryOK
    <3> QED BY <1>2, <2>2, <3>1, <3>2 DEF EntryOK
  <2> QED BY <1>2, <2>1, <2>2
<1>6. ASSUME NEW g \in DOMAIN db', NEW h \in DOMAIN db',
             db'[g].path = db'[h].path
      PROVE  g = h
  <2>1. CASE g \in DOMAIN db /\ h \in DOMAIN db
    BY <1>2, <1>6, <2>1 DEF EntriesOK
  <2>2. CASE g = k \/ h = k
    BY <1>2, <1>3, <1>6, <2>2
  <2> QED BY <1>2, <2>1, <2>2
<1>7. ASSUME NEW x, New(db, x), x.path # c.path
      PROVE  New(db', x)
  <2>1. CallOK(db', x)
    BY <1>4, <1>7 DEF New, CallOK
  <2>2. \A h \in DOMAIN db' : db'[h].path # x.path
    BY <1>2, <1>7 DEF New
  <2> QED BY <2>1, <2>2 DEF New
<1> QED BY <1>2, <1>4, <1>5, <1>6, <1>7 DEF EntriesOK

\* A thread's own state, by its fields.
LEMMA TaskTyped ==
  ASSUME TypeInv, NEW t \in Threads
  PROVE  /\ DOMAIN task = Threads /\ task[t] \in Tasks
         /\ task[t].cur \in Calls /\ task[t].todo \in Seq(Calls)
         /\ Len(task[t].todo) \in Nat
         /\ DOMAIN task[t].todo = 1 .. Len(task[t].todo)
<1>1. /\ task \in [Threads -> Tasks] /\ task[t] \in Tasks
      /\ task[t].cur \in Calls /\ task[t].todo \in Seq(Calls)
  BY DEF TypeInv, TasksTyped, Tasks
<1> QED BY <1>1, LenProperties

\* The scanner t has its calls in order.
InOrder(t) == TodoNew(t) /\ CurNew(t) /\ Listed(t)

\* The next call is taken from the list.
LEMMA ReadCounterDoes ==
  ASSUME TypeInv, NEW t \in Threads, ReadCounter(t)
  PROVE  /\ UNCHANGED <<db, alive, kernelVars>>
         /\ task[t].pc = "entry" /\ task'[t].pc = "alloc"
         /\ 1 \in DOMAIN task[t].todo /\ task'[t].cur = task[t].todo[1]
         /\ DOMAIN task'[t].todo = 1 .. Len(task[t].todo) - 1
         /\ \A i \in DOMAIN task'[t].todo :
              /\ i + 1 \in DOMAIN task[t].todo /\ i + 1 # 1
              /\ task'[t].todo[i] = task[t].todo[i + 1]
<1>1. /\ task[t].pc = "entry" /\ UNCHANGED <<db, alive, kernelVars>>
      /\ task' = [task EXCEPT ![t].pc = "alloc", ![t].cur = Head(task[t].todo),
                              ![t].todo = Tail(task[t].todo),
                              ![t].handle = counter]
  BY DEF ReadCounter
<1>2. PICK s : s = task[t].todo
  OBVIOUS
<1>3. /\ DOMAIN task = Threads /\ task[t] \in Tasks
      /\ s \in Seq(Calls) /\ Len(s) \in Nat /\ DOMAIN s = 1 .. Len(s)
  BY <1>2, TaskTyped
<1>4. s # <<>>
  BY <1>1, <1>2 DEF TypeInv, TasksTyped
<1>5. /\ task'[t].pc = "alloc" /\ task'[t].cur = Head(s)
      /\ task'[t].todo = Tail(s)
  BY <1>1, <1>2, <1>3 DEF Tasks
<1>6. /\ Tail(s) \in Seq(Calls) /\ Len(Tail(s)) = Len(s) - 1
      /\ \A i \in 1 .. Len(Tail(s)) : Tail(s)[i] = s[i + 1]
  BY <1>3, <1>4, HeadTailProperties
<1>7. DOMAIN Tail(s) = 1 .. Len(s) - 1
  BY <1>6, LenProperties
<1>8. Len(s) > 0 /\ Head(s) = s[1]
  BY <1>3, <1>4, EmptySeq
<1>9. \A i \in 1 .. Len(s) - 1 : i + 1 \in 1 .. Len(s) /\ i + 1 # 1
  BY <1>3
<1>10. 1 \in 1 .. Len(s)
  BY <1>3, <1>8
<1> QED BY <1>1, <1>2, <1>3, <1>5, <1>6, <1>7, <1>8, <1>9, <1>10

LEMMA ReadCounterPaths ==
  ASSUME TypeInv, EntriesOK, NEW t \in Threads, InOrder(t), ReadCounter(t)
  PROVE  EntriesOK' /\ InOrder(t)'
<1>1. /\ UNCHANGED db /\ task'[t].pc = "alloc"
      /\ 1 \in DOMAIN task[t].todo /\ task'[t].cur = task[t].todo[1]
      /\ \A i \in DOMAIN task'[t].todo :
           /\ i + 1 \in DOMAIN task[t].todo /\ i + 1 # 1
           /\ task'[t].todo[i] = task[t].todo[i + 1]
      /\ DOMAIN task'[t].todo \subseteq Int
  BY ReadCounterDoes
<1>2. /\ \A i \in DOMAIN task[t].todo : New(db, task[t].todo[i])
      /\ \A i, j \in DOMAIN task[t].todo :
           task[t].todo[i].path = task[t].todo[j].path => i = j
  BY DEF InOrder, TodoNew
<1>3. TodoNew(t)'
  <2>1. \A i \in DOMAIN task'[t].todo : New(db', task'[t].todo[i])
    BY <1>1, <1>2
  <2>2. \A i, j \in DOMAIN task'[t].todo :
          task'[t].todo[i].path = task'[t].todo[j].path => i = j
    BY <1>1, <1>2
  <2> QED BY <2>1, <2>2 DEF TodoNew
<1>4. CurNew(t)'
  <2>1. New(db', task'[t].cur)
    BY <1>1, <1>2
  <2>2. \A i \in DOMAIN task'[t].todo : task'[t].todo[i].path # task'[t].cur.path
    BY <1>1, <1>2
  <2> QED BY <1>1, <2>1, <2>2 DEF CurNew
<1>5. Listed(t)' /\ EntriesOK'
  BY <1>1 DEF Listed, EntriesOK, EntryOK
<1> QED BY <1>3, <1>4, <1>5 DEF InOrder

\* A step within a call, or back to the list of calls.
LEMMA MovedOn ==
  ASSUME TypeInv, NEW t \in Threads, NEW pc,
         task' = [task EXCEPT ![t].pc = pc]
  PROVE  /\ task'[t].pc = pc /\ task'[t].todo = task[t].todo
         /\ task'[t].cur = task[t].cur /\ task'[t].handle = task[t].handle
         /\ task'[t].tmp = task[t].tmp
BY TaskTyped DEF Tasks

LEMMA StoreCounterDoes ==
  ASSUME TypeInv, NEW t \in Threads, New(db, task[t].cur), StoreCounter(t)
  PROVE  /\ UNCHANGED <<db, alive, kernelVars>> /\ task[t].pc = "alloc"
         /\ task'[t].todo = task[t].todo /\ task'[t].cur = task[t].cur
         /\ \/ IsDirectory(task[t].cur.path) /\ task'[t].pc = "watch"
            \/ /\ ~IsDirectory(task[t].cur.path) /\ task[t].cur.path # Home
               /\ task'[t].pc = "stat"
            \/ task[t].cur.path = Home /\ task'[t].pc = Return(t)
<1>1. PICK pc : /\ task' = [task EXCEPT ![t].pc = pc]
                /\ pc = IF IsDirectory(task[t].cur.path) THEN "watch"
                        ELSE IF task[t].cur.kind = "entry" THEN "stat"
                        ELSE Return(t)
  BY DEF StoreCounter
<1>2. /\ task[t].cur.storage = MTP_STORAGE_FIXED_RAM
      /\ task[t].cur.kind = IF task[t].cur.path = Home THEN "root" ELSE "entry"
  BY DEF New, CallOK
<1>3. UNCHANGED <<db, alive, kernelVars>> /\ task[t].pc = "alloc"
  BY <1>2 DEF StoreCounter
<1>4. /\ task'[t].pc = pc /\ task'[t].todo = task[t].todo
      /\ task'[t].cur = task[t].cur
  <2>1. task' = [task EXCEPT ![t].pc = pc]
    BY <1>1
  <2> QED BY <2>1, MovedOn
<1> QED BY <1>1, <1>2, <1>3, <1>4

\* What follows a call whose turn is over: idle, or the next call.
LEMMA Returned ==
  ASSUME NEW t \in Threads, TodoNew(t)', task'[t].pc = Return(t)
  PROVE  InOrder(t)'
BY DEF InOrder, CurNew, Pending, Listed, Return

LEMMA StoreCounterPaths ==
  ASSUME TypeInv, EntriesOK, NEW t \in Threads, InOrder(t), StoreCounter(t)
  PROVE  EntriesOK' /\ InOrder(t)'
<1>1. /\ TodoNew(t) /\ New(db, task[t].cur)
      /\ \A i \in DOMAIN task[t].todo : task[t].todo[i].path # task[t].cur.path
  BY DEF InOrder, CurNew, Pending, StoreCounter
<1>2. /\ UNCHANGED db
      /\ task'[t].todo = task[t].todo /\ task'[t].cur = task[t].cur
      /\ \/ task'[t].pc = "watch"
         \/ task[t].cur.path # Home /\ task'[t].pc = "stat"
         \/ task'[t].pc = Return(t)
  BY <1>1, StoreCounterDoes
<1>3. EntriesOK' /\ TodoNew(t)'
  BY <1>1, <1>2 DEF EntriesOK, EntryOK, TodoNew
<1>4. CASE task'[t].pc \in {"watch", "stat"}
  <2>1. New(db', task'[t].cur)
    BY <1>1, <1>2
  <2>2. task'[t].pc = "stat" => task'[t].cur.path # Home
    BY <1>2 DEF Return
  <2>3. CurNew(t)' /\ Listed(t)'
    BY <1>1, <1>2, <1>4, <2>1, <2>2 DEF CurNew, Listed
  <2> QED BY <1>3, <2>3 DEF InOrder
<1>5. CASE task'[t].pc = Return(t)
  BY <1>3, <1>5, Returned
<1> QED BY <1>2, <1>4, <1>5

LEMMA WatchDirectoryPaths ==
  ASSUME TypeInv, EntriesOK, NEW t \in Threads, InOrder(t), WatchDirectory(t)
  PROVE  EntriesOK' /\ InOrder(t)'
<1>1. /\ UNCHANGED db /\ task[t].pc = "watch"
      /\ task' = [task EXCEPT ![t].pc = "insert_dir",
                              ![t].tmp = WatchDescriptor(task[t].cur.path)]
  BY DEF WatchDirectory
<1>2. /\ task'[t].todo = task[t].todo /\ task'[t].cur = task[t].cur
      /\ task'[t].pc = "insert_dir"
  BY <1>1, TaskTyped DEF Tasks
<1>3. EntriesOK' /\ TodoNew(t)'
  <2>1. EntriesOK'
    BY <1>1 DEF EntriesOK, EntryOK
  <2>2. TodoNew(t)'
    <3>1. TodoNew(t)
      BY DEF InOrder
    <3>2. UNCHANGED db
      BY <1>1
    <3> QED BY <1>2, <3>1, <3>2 DEF TodoNew
  <2> QED BY <2>1, <2>2
<1>4. CurNew(t)' /\ Listed(t)'
  BY <1>1, <1>2 DEF CurNew, Listed, InOrder, Pending
<1> QED BY <1>3, <1>4 DEF InOrder

\* The watch is refused: the call goes on all the same.
LEMMA WatchRefusedDoes ==
  ASSUME TypeInv, NEW t \in Threads, WatchRefused(t)
  PROVE  /\ UNCHANGED <<db, kernelVars>> /\ task[t].pc = "watch"
         /\ task'[t].todo = task[t].todo /\ task'[t].cur = task[t].cur
         /\ task'[t].pc = "insert_dir" /\ task'[t].tmp = -1
BY TaskTyped DEF WatchRefused, Tasks

LEMMA WatchRefusedPaths ==
  ASSUME TypeInv, EntriesOK, NEW t \in Threads, InOrder(t), WatchRefused(t)
  PROVE  EntriesOK' /\ InOrder(t)'
<1>1. /\ UNCHANGED db /\ task[t].pc = "watch"
      /\ task'[t].todo = task[t].todo /\ task'[t].cur = task[t].cur
      /\ task'[t].pc = "insert_dir"
  BY WatchRefusedDoes
<1>2. EntriesOK'
  BY <1>1 DEF EntriesOK, EntryOK
<1>3. TodoNew(t)'
  <2>1. TodoNew(t)
    BY DEF InOrder
  <2> QED BY <1>1, <2>1 DEF TodoNew
<1>4. CurNew(t)' /\ Listed(t)'
  BY <1>1 DEF CurNew, Listed, InOrder, Pending
<1> QED BY <1>2, <1>3, <1>4 DEF InOrder

\* Nothing lies in the directory of a call that is new.
LEMMA NewIsEmpty ==
  ASSUME NEW c, New(db, c), NEW x, Placed(db, x)
  PROVE  Outside(x, c.path)
BY DEF New, Placed, Outside

LEMMA InsertDirectoryDoes ==
  ASSUME TypeInv, HandlesFreshInv, EntriesIssued, ub = {}, NEW t \in Threads,
         InsertDirectory(t)
  PROVE  /\ UNCHANGED kernelVars /\ task[t].pc = "insert_dir"
         /\ task[t].handle \notin DOMAIN db
         /\ \/ /\ task[t].cur.path \in DOMAIN fs /\ UNCHANGED alive
               /\ db' = Insert(db, task[t].handle,
                               Entry(task[t].cur, ASSOCIATION, 0, task[t].tmp,
                                     TRUE))
               /\ task'[t].pc = "list" /\ task'[t].todo = task[t].todo
               /\ task'[t].cur = task[t].cur
               /\ task'[t].handle = task[t].handle
            \/ /\ task[t].cur.path \notin DOMAIN fs /\ UNCHANGED db
               /\ GiveUp(t, Left(t)) /\ alive' = (t # "notifier")
               /\ task'[t].pc = "idle" /\ task'[t].todo = <<>>
<1>1. UNCHANGED kernelVars /\ task[t].pc = "insert_dir"
  BY DEF InsertDirectory
<1>2. task[t].handle \notin DOMAIN db
  BY <1>1, HandleFree
<1>3. CASE task[t].cur.path \in DOMAIN fs
  <2>1. /\ db' = Insert(db, task[t].handle,
                        Entry(task[t].cur, ASSOCIATION, 0, task[t].tmp, TRUE))
        /\ task' = [task EXCEPT ![t].pc = "list"] /\ UNCHANGED alive
    BY <1>3 DEF InsertDirectory
  <2> QED BY <1>1, <1>2, <1>3, <2>1, MovedOn
<1>4. CASE task[t].cur.path \notin DOMAIN fs
  <2>1. GiveUp(t, Left(t)) /\ alive' = (t # "notifier") /\ UNCHANGED db
    BY <1>4 DEF InsertDirectory, GiveUp
  <2>2. task'[t].pc = "idle" /\ task'[t].todo = <<>>
    BY <2>1, TaskTyped DEF GiveUp, Tasks
  <2> QED BY <1>1, <1>2, <1>4, <2>1, <2>2
<1> QED BY <1>3, <1>4

\* A thread that gave its scan up has no calls to make.
LEMMA IdlePaths ==
  ASSUME EntriesOK, UNCHANGED db, NEW t \in Threads,
         task'[t].pc = "idle", task'[t].todo = <<>>
  PROVE  EntriesOK' /\ InOrder(t)'
<1>1. DOMAIN task'[t].todo = {}
  OBVIOUS
<1>2. TodoNew(t)' /\ CurNew(t)' /\ Listed(t)'
  BY <1>1 DEF TodoNew, CurNew, Pending, Listed
<1> QED BY <1>2 DEF InOrder, EntriesOK, EntryOK

LEMMA InsertDirectoryPaths ==
  ASSUME TypeInv, HandlesFreshInv, EntriesIssued, ub = {}, EntriesOK,
         NEW t \in Threads, InOrder(t), InsertDirectory(t)
  PROVE  EntriesOK' /\ InOrder(t)'
<1>1. PICK c, k : c = task[t].cur /\ k = task[t].handle
  OBVIOUS
<1>2. task[t].pc = "insert_dir"
  BY DEF InsertDirectory
<1>3. /\ New(db, c)
      /\ \A i \in DOMAIN task[t].todo :
           New(db, task[t].todo[i]) /\ task[t].todo[i].path # c.path
      /\ \A i, j \in DOMAIN task[t].todo :
           task[t].todo[i].path = task[t].todo[j].path => i = j
  BY <1>1, <1>2 DEF InOrder, CurNew, Pending, TodoNew
<1>4. CASE c.path \in DOMAIN fs
  <2>1. /\ k \notin DOMAIN db
        /\ db' = Insert(db, k, Entry(c, ASSOCIATION, 0, task[t].tmp, TRUE))
        /\ task'[t].pc = "list" /\ task'[t].todo = task[t].todo
        /\ task'[t].cur = c /\ task'[t].handle = k
    BY <1>1, <1>4, InsertDirectoryDoes
  <2>2. PICK e : e = Entry(c, ASSOCIATION, 0, task[t].tmp, TRUE)
    OBVIOUS
  <2>3. /\ e.path = c.path /\ e.parent = c.parent /\ e.storage_id = c.storage
        /\ e.watched = (e.object_format = ASSOCIATION) /\ e.watched
        /\ db' = Insert(db, k, e)
    BY <2>1, <2>2 DEF Entry
  <2>4. /\ EntriesOK'
        /\ DOMAIN db' = DOMAIN db \cup {k} /\ db'[k] = e
        /\ \A h \in DOMAIN db : db'[h] = db[h]
        /\ \A x : New(db, x) /\ x.path # c.path => New(db', x)
        /\ \A x : Placed(db, x) => Placed(db', x)
    <3>1. New(db, c) /\ k \notin DOMAIN db /\ db' = Insert(db, k, e)
      BY <1>3, <2>1, <2>3
    <3>2. e.path = c.path /\ e.parent = c.parent /\ e.storage_id = c.storage
      BY <2>3
    <3>3. e.watched = (e.object_format = ASSOCIATION)
      BY <2>3
    <3>4. c.path = Home => e.watched
      BY <2>3
    <3> QED BY <3>1, <3>2, <3>3, <3>4, EntryAdded
  <2>5. TodoNew(t)'
    <3>1. \A i \in DOMAIN task'[t].todo : New(db', task'[t].todo[i])
      BY <1>3, <2>1, <2>4
    <3>2. \A i, j \in DOMAIN task'[t].todo :
            task'[t].todo[i].path = task'[t].todo[j].path => i = j
      BY <1>3, <2>1
    <3> QED BY <3>1, <3>2 DEF TodoNew
  <2>6. CurNew(t)'
    BY <2>1 DEF CurNew, Pending
  <2>7. Listed(t)'
    <3>1. CallOK(db', c)
      BY <1>3, <2>4 DEF New, CallOK
    <3>2. k \in DOMAIN db' /\ db'[k].path = c.path /\ db'[k].watched
      BY <2>3, <2>4
    <3>3. \A h \in DOMAIN db : Outside(db[h], c.path)
      BY <1>3, NewIsEmpty DEF EntriesOK, EntryOK
    <3>4. Outside(db'[k], c.path)
      <4>1. Outside(c, c.path)
        BY <1>3, NewIsEmpty DEF New, CallOK
      <4> QED BY <2>3, <2>4, <4>1 DEF Outside
    <3>5. \A h \in DOMAIN db' : Outside(db'[h], c.path)
      BY <2>4, <3>3, <3>4
    <3>6. \A i \in DOMAIN task[t].todo : Outside(task[t].todo[i], c.path)
      <4>1. \A i \in DOMAIN task[t].todo : Placed(db, task[t].todo[i])
        BY <1>3 DEF New, CallOK
      <4> QED BY <1>3, <4>1, NewIsEmpty
    <3> QED BY <2>1, <3>1, <3>2, <3>5, <3>6 DEF Listed
  <2> QED BY <2>4, <2>5, <2>6, <2>7 DEF InOrder
<1>5. CASE c.path \notin DOMAIN fs
  <2>1. UNCHANGED db /\ task'[t].pc = "idle" /\ task'[t].todo = <<>>
    BY <1>1, <1>5, InsertDirectoryDoes
  <2> QED BY <2>1, IdlePaths
<1> QED BY <1>4, <1>5

\* The listing is refused.
LEMMA ListingRefusedPaths ==
  ASSUME TypeInv, EntriesOK, NEW t \in Threads, ListingRefused(t)
  PROVE  EntriesOK' /\ InOrder(t)'
<1>1. UNCHANGED db /\ \E left : GiveUp(t, left)
  BY DEF ListingRefused
<1>2. task'[t].pc = "idle" /\ task'[t].todo = <<>>
  BY <1>1, TaskTyped DEF GiveUp, Tasks
<1> QED BY <1>1, <1>2, IdlePaths

\* A directory read in any order gives each of its entries once.
LEMMA SeqsOfSetOnce ==
  ASSUME NEW S, IsFiniteSet(S), NEW v \in SetToSeqs(S)
  PROVE  /\ v \in Seq(S) /\ Len(v) \in Nat /\ DOMAIN v = 1 .. Len(v)
         /\ \A i, j \in DOMAIN v : v[i] = v[j] => i = j
         /\ \A x \in S : \E i \in DOMAIN v : v[i] = x
<1>1. PICK n \in Nat : n = Cardinality(S)
  BY FS_CardinalityType
<1>2. /\ v \in [1 .. n -> S]
      /\ \A i, j \in 1 .. n : i # j => v[i] # v[j]
  BY <1>1 DEF SetToSeqs
<1>3. v \in Injection(1 .. n, S)
  BY <1>2 DEF Injection, IsInjective
<1>4. Cardinality(1 .. n) = n
  BY FS_Interval, <1>1
<1>5. v \in Surjection(1 .. n, S)
  BY <1>1, <1>3, <1>4, FS_Injection
<1>6. v \in Seq(S) /\ Len(v) \in Nat /\ DOMAIN v = 1 .. Len(v)
  BY SeqsOfSet, LenProperties
<1>7. DOMAIN v = 1 .. n
  BY <1>2
<1>8. \A x \in S : \E i \in 1 .. n : v[i] = x
  BY <1>5 DEF Surjection
<1> QED BY <1>2, <1>6, <1>7, <1>8

LEMMA IntervalEnd ==
  ASSUME NEW a \in Nat, NEW b \in Nat, 1 .. a = 1 .. b
  PROVE  a = b
<1>1. ~(a < b)
  <2> SUFFICES ASSUME a < b PROVE FALSE
    OBVIOUS
  <2>1. b \in 1 .. b /\ b \notin 1 .. a
    OBVIOUS
  <2> QED BY <2>1
<1>2. ~(b < a)
  <2> SUFFICES ASSUME b < a PROVE FALSE
    OBVIOUS
  <2>1. a \in 1 .. a /\ a \notin 1 .. b
    OBVIOUS
  <2> QED BY <2>1
<1> QED BY <1>1, <1>2

\* The calls for the objects of a directory, put before the other calls.
ListedCalls(c, k, v, s) ==
  [i \in DOMAIN v |-> Call("entry", v[i], k, c.storage, UNDEFINED, 0)] \o s

LEMMA ListedCallsAre ==
  ASSUME NEW c \in Calls, NEW k \in Int, NEW v \in Seq(Paths),
         NEW s \in Seq(Calls)
  PROVE  LET r == ListedCalls(c, k, v, s) IN
         /\ Len(v) \in Nat /\ Len(s) \in Nat
         /\ DOMAIN r = 1 .. Len(v) + Len(s)
         /\ \A i \in 1 .. Len(v) :
              r[i] = Call("entry", v[i], k, c.storage, UNDEFINED, 0)
         /\ \A i \in 1 .. Len(s) : r[Len(v) + i] = s[i]
<1>1. PICK u : u = [i \in DOMAIN v |->
                      Call("entry", v[i], k, c.storage, UNDEFINED, 0)]
  OBVIOUS
<1>2. /\ Len(v) \in Nat /\ DOMAIN v = 1 .. Len(v) /\ Len(s) \in Nat
      /\ \A i \in 1 .. Len(v) : v[i] \in Paths
  BY LenProperties, ElementOfSeq
<1>3. \A i \in 1 .. Len(v) :
        Call("entry", v[i], k, c.storage, UNDEFINED, 0) \in Calls
  <2>1. c.storage \in Int
    BY DEF Calls
  <2> QED BY <1>2, <2>1, CallTyped DEF Formats
<1>4. u \in [1 .. Len(v) -> Calls]
  BY <1>1, <1>2, <1>3
<1>5. u \in Seq(Calls)
  <2>1. Seq(Calls) = UNION {[1 .. n -> Calls] : n \in Nat}
    BY SeqDef
  <2> QED BY <1>2, <1>4, <2>1
<1>6. Len(u) = Len(v)
  <2>1. DOMAIN u = 1 .. Len(u) /\ Len(u) \in Nat
    BY <1>5, LenProperties
  <2>2. 1 .. Len(u) = 1 .. Len(v)
    BY <1>4, <2>1
  <2> QED BY <1>2, <2>1, <2>2, IntervalEnd
<1>7. /\ u \o s \in Seq(Calls) /\ Len(u \o s) = Len(u) + Len(s)
      /\ \A i \in 1 .. Len(u) + Len(s) :
           (u \o s)[i] = IF i <= Len(u) THEN u[i] ELSE s[i - Len(u)]
  BY <1>5, ConcatProperties
<1>8. DOMAIN (u \o s) = 1 .. Len(v) + Len(s)
  BY <1>6, <1>7, LenProperties
<1>9. \A i \in 1 .. Len(v) : (u \o s)[i] = u[i]
  BY <1>2, <1>6, <1>7
<1>10. \A i \in 1 .. Len(s) : (u \o s)[Len(v) + i] = s[i]
  <2> SUFFICES ASSUME NEW i \in 1 .. Len(s)
               PROVE  (u \o s)[Len(v) + i] = s[i]
    OBVIOUS
  <2>1. /\ Len(v) + i \in 1 .. Len(u) + Len(s) /\ ~(Len(v) + i <= Len(u))
        /\ Len(v) + i - Len(u) = i
    BY <1>2, <1>6
  <2> QED BY <1>7, <2>1
<1>11. ListedCalls(c, k, v, s) = u \o s
  BY <1>1 DEF ListedCalls
<1> QED BY <1>1, <1>2, <1>8, <1>9, <1>10, <1>11

LEMMA ListDirectoryDoes ==
  ASSUME TypeInv, NEW t \in Threads, CallOK(db, task[t].cur), ListDirectory(t)
  PROVE  /\ UNCHANGED <<db, alive, kernelVars>> /\ task[t].pc = "list"
         /\ task'[t].pc \in {"idle", "entry"}
         /\ task'[t].pc = "idle" => task'[t].todo = <<>>
         /\ \E v \in SetToSeqs(Listing(task[t].cur.path)) :
              task'[t].todo = ListedCalls(task[t].cur, task[t].handle, v,
                                          task[t].todo)
<1>1. task[t].cur.kind # "hidden"
  BY DEF CallOK
<1>2. UNCHANGED <<db, alive, kernelVars>> /\ task[t].pc = "list"
  BY DEF ListDirectory
<1>3. PICK c, k : c = task[t].cur /\ k = task[t].handle
  OBVIOUS
<1>4. \E v \in SetToSeqs(Listing(c.path)) :
        \E u : /\ u = [i \in DOMAIN v |->
                        Call("entry", v[i], IF c.kind = "hidden" THEN 0 ELSE k,
                             c.storage, UNDEFINED, 0)]
              /\ task' = [task EXCEPT ![t].todo = u \o task[t].todo,
                                      ![t].pc = IF u \o task[t].todo = <<>>
                                                THEN "idle" ELSE "entry"]
  <2>1. PICK v \in SetToSeqs(Listing(task[t].cur.path)) :
          task' =
            [task EXCEPT
               ![t].todo =
                 [i \in DOMAIN v |->
                    Call("entry", v[i],
                         IF task[t].cur.kind = "hidden" THEN 0
                         ELSE task[t].handle,
                         task[t].cur.storage, UNDEFINED, 0)] \o task[t].todo,
               ![t].pc =
                 IF [i \in DOMAIN v |->
                       Call("entry", v[i],
                            IF task[t].cur.kind = "hidden" THEN 0
                            ELSE task[t].handle,
                            task[t].cur.storage, UNDEFINED, 0)]
                      \o task[t].todo = <<>>
                 THEN "idle" ELSE "entry"]
    BY DEF ListDirectory
  <2>2. PICK u : u = [i \in DOMAIN v |->
                        Call("entry", v[i],
                             IF task[t].cur.kind = "hidden" THEN 0
                             ELSE task[t].handle,
                             task[t].cur.storage, UNDEFINED, 0)]
    OBVIOUS
  <2>3. task' = [task EXCEPT ![t].todo = u \o task[t].todo,
                             ![t].pc = IF u \o task[t].todo = <<>>
                                       THEN "idle" ELSE "entry"]
    BY <2>1, <2>2
  <2>4. u = [i \in DOMAIN v |->
               Call("entry", v[i], IF c.kind = "hidden" THEN 0 ELSE k,
                    c.storage, UNDEFINED, 0)]
    BY <1>3, <2>2
  <2> QED BY <1>3, <2>3, <2>4
<1>5. PICK v \in SetToSeqs(Listing(c.path)) : \E r :
        /\ r = ListedCalls(c, k, v, task[t].todo)
        /\ task' = [task EXCEPT ![t].todo = r,
                                ![t].pc = IF r = <<>> THEN "idle" ELSE "entry"]
  <2>1. PICK v \in SetToSeqs(Listing(c.path)) :
          \E u : /\ u = [i \in DOMAIN v |->
                          Call("entry", v[i],
                               IF c.kind = "hidden" THEN 0 ELSE k,
                               c.storage, UNDEFINED, 0)]
                /\ task' = [task EXCEPT ![t].todo = u \o task[t].todo,
                                        ![t].pc = IF u \o task[t].todo = <<>>
                                                  THEN "idle" ELSE "entry"]
    BY <1>4
  <2>2. PICK u : /\ u = [i \in DOMAIN v |->
                          Call("entry", v[i],
                               IF c.kind = "hidden" THEN 0 ELSE k,
                               c.storage, UNDEFINED, 0)]
                 /\ task' = [task EXCEPT ![t].todo = u \o task[t].todo,
                                         ![t].pc = IF u \o task[t].todo = <<>>
                                                   THEN "idle" ELSE "entry"]
    BY <2>1
  <2>3. u = [i \in DOMAIN v |->
               Call("entry", v[i], k, c.storage, UNDEFINED, 0)]
    BY <1>1, <1>3, <2>2
  <2>4. u \o task[t].todo = ListedCalls(c, k, v, task[t].todo)
    BY <2>3 DEF ListedCalls
  <2> QED BY <2>2, <2>4
<1>7. PICK r : /\ r = ListedCalls(c, k, v, task[t].todo)
               /\ task' = [task EXCEPT ![t].todo = r,
                                       ![t].pc = IF r = <<>> THEN "idle"
                                                 ELSE "entry"]
  BY <1>5
<1>6. task'[t].todo = r /\ task'[t].pc = IF r = <<>> THEN "idle" ELSE "entry"
  BY <1>7, TaskTyped DEF Tasks
<1> QED BY <1>2, <1>3, <1>6, <1>7

LEMMA ListingIs ==
  ASSUME KernelTyped, NEW p
  PROVE  /\ IsFiniteSet(Listing(p)) /\ Listing(p) \subseteq Paths
         /\ \A q \in Listing(p) :
              q \in DOMAIN fs /\ Len(q) = Len(p) + 1 /\ Front(q) = p
<1>1. Listing(p) \subseteq DOMAIN fs
  BY DEF Listing
<1>2. IsFiniteSet(Listing(p)) /\ Listing(p) \subseteq Paths
  BY <1>1, FS_Subset DEF KernelTyped, TreeTyped
<1> QED BY <1>2 DEF Listing

LEMMA HomeIs == Home \in Paths /\ Home # <<>> /\ Len(Home) = 1 /\ Front(Home) = <<>>
<1>1. Home \in Paths
  BY DEF Home, Paths, PathNames
<1>2. Len(Home) = 1 /\ Home # <<>>
  BY DEF Home
<1>3. Front(Home) = <<>>
  <2>1. Front(Home) = SubSeq(Home, 1, 0)
    BY <1>2 DEF Front
  <2> QED BY <2>1, SubSeqEmpty
<1> QED BY <1>1, <1>2, <1>3

\* A path of several names is not the home directory's.
LEMMA HomeIsShort ==
  ASSUME NEW p, Len(p) > 1
  PROVE  p # Home
<1>1. Len(Home) = 1
  BY HomeIs
<1>2. ASSUME p = Home PROVE FALSE
  <2>1. Len(p) = 1
    BY <1>1, <1>2
  <2> QED BY <2>1
<1> QED BY <1>2

\* Listing a directory: its objects are new, and so are the calls for them.
LEMMA ListDirectoryPaths ==
  ASSUME TypeInv, EntriesOK, NEW t \in Threads, InOrder(t), ListDirectory(t)
  PROVE  EntriesOK' /\ InOrder(t)'
<1>1. PICK c, k, s : c = task[t].cur /\ k = task[t].handle /\ s = task[t].todo
  OBVIOUS
<1>2. task[t].pc = "list"
  BY DEF ListDirectory
<1>3. /\ CallOK(db, c) /\ k \in DOMAIN db
      /\ db[k].path = c.path /\ db[k].watched
      /\ \A h \in DOMAIN db : Outside(db[h], c.path)
      /\ \A i \in DOMAIN s : Outside(s[i], c.path) /\ New(db, s[i])
      /\ \A i, j \in DOMAIN s : s[i].path = s[j].path => i = j
  BY <1>1, <1>2 DEF InOrder, Listed, TodoNew
<1>4. /\ c \in Calls /\ s \in Seq(Calls) /\ k \in Int
      /\ Len(s) \in Nat /\ DOMAIN s = 1 .. Len(s)
  BY <1>1, <1>3, TaskTyped DEF TypeInv, HandlesPositive, Positive
<1>5. /\ UNCHANGED db /\ task'[t].pc \in {"idle", "entry"}
      /\ \E v \in SetToSeqs(Listing(c.path)) :
           task'[t].todo = ListedCalls(c, k, v, s)
  BY <1>1, <1>3, ListDirectoryDoes
<1>6. PICK v \in SetToSeqs(Listing(c.path)) :
        task'[t].todo = ListedCalls(c, k, v, s)
  BY <1>5
<1>7. /\ IsFiniteSet(Listing(c.path)) /\ Listing(c.path) \subseteq Paths
      /\ \A q \in Listing(c.path) : Len(q) = Len(c.path) + 1 /\ Front(q) = c.path
  BY ListingIs DEF TypeInv
<1>8. /\ v \in Seq(Listing(c.path)) /\ Len(v) \in Nat /\ DOMAIN v = 1 .. Len(v)
      /\ \A i, j \in DOMAIN v : v[i] = v[j] => i = j
  BY <1>7, SeqsOfSetOnce
<1>9. v \in Seq(Paths) /\ \A i \in 1 .. Len(v) : v[i] \in Listing(c.path)
  BY <1>7, <1>8, SeqMonotonic, ElementOfSeq
<1>10. PICK r : r = ListedCalls(c, k, v, s)
  OBVIOUS
<1>11. /\ DOMAIN r = 1 .. Len(v) + Len(s)
       /\ \A i \in 1 .. Len(v) :
            r[i] = Call("entry", v[i], k, c.storage, UNDEFINED, 0)
       /\ \A i \in 1 .. Len(s) : r[Len(v) + i] = s[i]
  <2>1. LET q == ListedCalls(c, k, v, s) IN
        /\ DOMAIN q = 1 .. Len(v) + Len(s)
        /\ \A i \in 1 .. Len(v) :
             q[i] = Call("entry", v[i], k, c.storage, UNDEFINED, 0)
        /\ \A i \in 1 .. Len(s) : q[Len(v) + i] = s[i]
    <3>1. c \in Calls /\ k \in Int /\ v \in Seq(Paths) /\ s \in Seq(Calls)
      BY <1>4, <1>9
    <3> QED BY <3>1, ListedCallsAre
  <2> QED BY <1>10, <2>1
<1>12. \A i \in DOMAIN r : i \in 1 .. Len(v) \/ \E j \in 1 .. Len(s) : i = Len(v) + j
  <2> SUFFICES ASSUME NEW i \in DOMAIN r, i \notin 1 .. Len(v)
               PROVE  \E j \in 1 .. Len(s) : i = Len(v) + j
    OBVIOUS
  <2>1. i - Len(v) \in 1 .. Len(s) /\ i = Len(v) + (i - Len(v))
    BY <1>4, <1>8, <1>11
  <2> QED BY <2>1
<1>13. \A i \in 1 .. Len(v) :
         /\ Front(v[i]) = c.path /\ v[i] # Home /\ v[i] # <<>>
         /\ r[i].path = v[i] /\ New(db, r[i])
  <2> SUFFICES ASSUME NEW i \in 1 .. Len(v)
               PROVE  /\ Front(v[i]) = c.path /\ v[i] # Home /\ v[i] # <<>>
                      /\ r[i].path = v[i] /\ New(db, r[i])
    OBVIOUS
  <2>1. Front(v[i]) = c.path /\ Len(v[i]) = Len(c.path) + 1 /\ v[i] \in Paths
    BY <1>7, <1>9
  <2>2. c.path # <<>> /\ c.path \in Paths /\ c.storage = MTP_STORAGE_FIXED_RAM
    BY <1>3, <1>4 DEF CallOK, Placed, Calls
  <2>3. v[i] # Home
    BY <2>1, <2>2, HomeIs
  <2>4. v[i] # <<>>
    <3>1. Len(c.path) \in Nat
      BY <2>2, LenProperties DEF Paths
    <3>2. Len(v[i]) # 0
      BY <2>1, <3>1
    <3> QED BY <3>2, EmptySeq
  <2>5. /\ r[i].path = v[i] /\ r[i].kind = "entry" /\ r[i].parent = k
        /\ r[i].storage = c.storage
    <3>1. r[i] = [kind |-> "entry", path |-> v[i], parent |-> k,
                  storage |-> c.storage, format |-> UNDEFINED, size |-> 0]
      BY <1>11 DEF Call
    <3> QED BY <3>1
  <2>6. \A h \in DOMAIN db : db[h].path # v[i]
    BY <1>3, <2>1, <2>3 DEF Outside
  <2>7. k # MTP_PARENT_ROOT
    <3>1. k \in Nat
      BY <1>3 DEF TypeInv, HandlesPositive, Positive
    <3> QED BY <3>1 DEF MTP_PARENT_ROOT
  <2>8. Placed(db, r[i])
    BY <1>3, <2>1, <2>4, <2>5 DEF Placed
  <2> QED BY <2>1, <2>2, <2>3, <2>4, <2>5, <2>6, <2>7, <2>8 DEF New, CallOK
<1>14. \A i \in DOMAIN r : New(db, r[i])
  BY <1>3, <1>4, <1>11, <1>12, <1>13
<1>15. ASSUME NEW i \in DOMAIN r, NEW j \in DOMAIN r, r[i].path = r[j].path
       PROVE  i = j
  <2>1. CASE i \in 1 .. Len(v) /\ j \in 1 .. Len(v)
    <3>1. r[i].path = v[i] /\ r[j].path = v[j]
      BY <1>13, <2>1
    <3>2. v[i] = v[j]
      BY <1>15, <3>1
    <3> QED BY <1>8, <2>1, <3>2
  <2>0. ASSUME NEW x \in 1 .. Len(v), NEW y \in DOMAIN r, y \notin 1 .. Len(v)
        PROVE  r[x].path # r[y].path
    <3>1. PICK z \in 1 .. Len(s) : y = Len(v) + z
      BY <1>12, <2>0
    <3>2. r[y] = s[z] /\ Outside(s[z], c.path)
      BY <1>3, <1>4, <1>11, <3>1
    <3>3. r[x].path # Home /\ Front(r[x].path) = c.path
      BY <1>13
    <3> QED BY <3>2, <3>3 DEF Outside
  <2>2. CASE i \in 1 .. Len(v) /\ j \notin 1 .. Len(v)
    BY <1>15, <2>0, <2>2
  <2>3. CASE i \notin 1 .. Len(v) /\ j \in 1 .. Len(v)
    BY <1>15, <2>0, <2>3
  <2>4. CASE i \notin 1 .. Len(v) /\ j \notin 1 .. Len(v)
    <3>1. PICK a \in 1 .. Len(s) : i = Len(v) + a
      BY <1>12, <2>4
    <3>2. PICK b \in 1 .. Len(s) : j = Len(v) + b
      BY <1>12, <2>4
    <3>3. s[a].path = s[b].path
      BY <1>11, <1>15, <3>1, <3>2
    <3>4. a = b
      BY <1>3, <1>4, <3>3
    <3> QED BY <3>1, <3>2, <3>4
  <2> QED BY <2>1, <2>2, <2>3, <2>4
<1>16. TodoNew(t)'
  <2>1. task'[t].todo = r
    BY <1>6, <1>10
  <2>2. \A i \in DOMAIN r : New(db', r[i])
    BY <1>5, <1>14
  <2> QED BY <1>15, <2>1, <2>2 DEF TodoNew
<1>17. CurNew(t)' /\ Listed(t)'
  BY <1>5 DEF CurNew, Pending, Listed
<1>18. EntriesOK'
  BY <1>5 DEF EntriesOK, EntryOK
<1> QED BY <1>16, <1>17, <1>18 DEF InOrder

LEMMA StatFileDoes ==
  ASSUME TypeInv, NEW t \in Threads, StatFile(t)
  PROVE  /\ UNCHANGED <<db, alive, kernelVars>> /\ task[t].pc = "stat"
         /\ task'[t].todo = task[t].todo
         /\ \/ /\ IsFile(task[t].cur.path) /\ task'[t].pc = "insert_file"
               /\ task'[t].cur =
                    [task[t].cur EXCEPT !.size = fs[task[t].cur.path].size]
            \/ ~IsFile(task[t].cur.path) /\ task'[t].pc = Return(t)
<1>1. UNCHANGED <<db, alive, kernelVars>> /\ task[t].pc = "stat"
  BY DEF StatFile
<1>2. CASE IsFile(task[t].cur.path)
  <2>1. PICK z : z = fs[task[t].cur.path].size
    OBVIOUS
  <2>2. task' = [task EXCEPT ![t].pc = "insert_file", ![t].cur.size = z]
    BY <1>2, <2>1 DEF StatFile
  <2>3. /\ task'[t].pc = "insert_file" /\ task'[t].todo = task[t].todo
        /\ task'[t].cur = [task[t].cur EXCEPT !.size = z]
    BY <2>2, TaskTyped DEF Tasks
  <2> QED BY <1>1, <1>2, <2>1, <2>3
<1>3. CASE ~IsFile(task[t].cur.path)
  <2>1. task' = [task EXCEPT ![t].pc = Return(t)]
    BY <1>3 DEF StatFile
  <2>2. PICK pc : pc = Return(t)
    OBVIOUS
  <2>3. task' = [task EXCEPT ![t].pc = pc]
    BY <2>1, <2>2
  <2>4. task'[t].pc = pc /\ task'[t].todo = task[t].todo
    BY <2>3, MovedOn
  <2> QED BY <1>1, <1>3, <2>2, <2>4
<1> QED BY <1>2, <1>3

LEMMA StatFilePaths ==
  ASSUME TypeInv, EntriesOK, NEW t \in Threads, InOrder(t), StatFile(t)
  PROVE  EntriesOK' /\ InOrder(t)'
<1>1. /\ UNCHANGED db /\ task'[t].todo = task[t].todo /\ task[t].pc = "stat"
  BY StatFileDoes
<1>2. /\ TodoNew(t) /\ New(db, task[t].cur) /\ task[t].cur.path # Home
      /\ \A i \in DOMAIN task[t].todo : task[t].todo[i].path # task[t].cur.path
  BY <1>1 DEF InOrder, CurNew, Pending
<1>3. EntriesOK' /\ TodoNew(t)'
  BY <1>1, <1>2 DEF EntriesOK, EntryOK, TodoNew
<1>4. CASE task'[t].pc = Return(t)
  BY <1>3, <1>4, Returned
<1>5. CASE task'[t].pc # Return(t)
  <2>1. PICK c, d : c = task[t].cur /\ d = task'[t].cur
    OBVIOUS
  <2>2. /\ task'[t].pc = "insert_file"
        /\ d = [c EXCEPT !.size = fs[c.path].size]
    BY <1>5, <2>1, StatFileDoes
  <2>3. c \in Calls
    BY <2>1, TaskTyped
  <2>4. /\ d.path = c.path /\ d.parent = c.parent /\ d.storage = c.storage
        /\ d.kind = c.kind
    BY <2>2, <2>3 DEF Calls
  <2>5. New(db, d)
    BY <1>2, <2>1, <2>4 DEF New, CallOK, Placed
  <2>6. CurNew(t)'
    BY <1>1, <1>2, <2>1, <2>2, <2>4, <2>5 DEF CurNew
  <2>7. Listed(t)'
    BY <2>2 DEF Listed
  <2> QED BY <1>3, <2>6, <2>7 DEF InOrder
<1> QED BY <1>4, <1>5

LEMMA InsertFileDoes ==
  ASSUME TypeInv, HandlesFreshInv, EntriesIssued, ub = {}, NEW t \in Threads,
         InsertFile(t)
  PROVE  /\ UNCHANGED <<alive, kernelVars>> /\ task[t].pc = "insert_file"
         /\ task[t].handle \notin DOMAIN db
         /\ task'[t].pc = Return(t) /\ task'[t].todo = task[t].todo
         /\ \E wd : db' = Insert(db, task[t].handle,
                                 Entry(task[t].cur, UNDEFINED, task[t].cur.size,
                                       wd, FALSE))
<1>1. UNCHANGED <<alive, kernelVars>> /\ task[t].pc = "insert_file"
  BY DEF InsertFile
<1>2. task[t].handle \notin DOMAIN db
  BY <1>1, HandleFree
<1>3. PICK pc : pc = Return(t)
  OBVIOUS
<1>4. task' = [task EXCEPT ![t].pc = pc]
  BY <1>3 DEF InsertFile
<1>5. task'[t].pc = pc /\ task'[t].todo = task[t].todo
  BY <1>4, MovedOn
<1>6. \E wd : db' = Insert(db, task[t].handle,
                           Entry(task[t].cur, UNDEFINED, task[t].cur.size,
                                 wd, FALSE))
  BY DEF InsertFile
<1> QED BY <1>1, <1>2, <1>3, <1>5, <1>6

LEMMA InsertFilePaths ==
  ASSUME TypeInv, HandlesFreshInv, EntriesIssued, ub = {}, EntriesOK,
         NEW t \in Threads, InOrder(t), InsertFile(t)
  PROVE  EntriesOK' /\ InOrder(t)'
<1>1. PICK c, k : c = task[t].cur /\ k = task[t].handle
  OBVIOUS
<1>2. /\ task[t].pc = "insert_file" /\ k \notin DOMAIN db
      /\ task'[t].pc = Return(t) /\ task'[t].todo = task[t].todo
      /\ \E wd : db' = Insert(db, k, Entry(c, UNDEFINED, c.size, wd, FALSE))
  BY <1>1, InsertFileDoes
<1>3. PICK wd : db' = Insert(db, k, Entry(c, UNDEFINED, c.size, wd, FALSE))
  BY <1>2
<1>4. /\ New(db, c) /\ c.path # Home
      /\ \A i \in DOMAIN task[t].todo :
           New(db, task[t].todo[i]) /\ task[t].todo[i].path # c.path
      /\ \A i, j \in DOMAIN task[t].todo :
           task[t].todo[i].path = task[t].todo[j].path => i = j
  BY <1>1, <1>2 DEF InOrder, CurNew, Pending, TodoNew
<1>5. PICK e : e = Entry(c, UNDEFINED, c.size, wd, FALSE)
  OBVIOUS
<1>6. /\ e.path = c.path /\ e.parent = c.parent /\ e.storage_id = c.storage
      /\ e.watched = (e.object_format = ASSOCIATION)
      /\ c.path = Home => e.watched
  BY <1>4, <1>5 DEF Entry, UNDEFINED, ASSOCIATION
<1>7. EntriesOK' /\ \A x : New(db, x) /\ x.path # c.path => New(db', x)
  <2>1. New(db, c) /\ k \notin DOMAIN db /\ db' = Insert(db, k, e)
    BY <1>2, <1>3, <1>4, <1>5
  <2>2. e.path = c.path /\ e.parent = c.parent /\ e.storage_id = c.storage
    BY <1>6
  <2>3. e.watched = (e.object_format = ASSOCIATION)
    BY <1>6
  <2>4. c.path = Home => e.watched
    BY <1>6
  <2> QED BY <2>1, <2>2, <2>3, <2>4, EntryAdded
<1>8. TodoNew(t)'
  <2>1. \A i \in DOMAIN task'[t].todo : New(db', task'[t].todo[i])
    BY <1>2, <1>4, <1>7
  <2>2. \A i, j \in DOMAIN task'[t].todo :
          task'[t].todo[i].path = task'[t].todo[j].path => i = j
    BY <1>2, <1>4
  <2> QED BY <2>1, <2>2 DEF TodoNew
<1> QED BY <1>2, <1>7, <1>8, Returned

\* The first event of the queue.
LEMMA HeadEvent ==
  ASSUME KernelTyped, queue # <<>>
  PROVE  /\ Head(queue) = queue[1] /\ 1 \in DOMAIN queue
         /\ Head(queue) \in Events
<1>1. queue \in Seq(Events)
  BY DEF KernelTyped, QueueTyped
<1>2. Len(queue) \in Nat /\ Len(queue) > 0 /\ DOMAIN queue = 1 .. Len(queue)
  BY <1>1, LenProperties, EmptySeq
<1> QED BY <1>1, <1>2, HeadTailProperties

\* The directory the first event belongs to, when nothing undefined happens.
EventOwner(m) ==
  /\ m \in DOMAIN db /\ db[m].watch_fd = queue[1].wd /\ db[m].watched
  /\ queue[1].name \in PathNames

\* What reading an event does to the object p.
CreateRead(m, p) ==
  /\ queue[1].mask = "IN_CREATE" /\ UNCHANGED <<db, watch, alive>>
  /\ \/ HandlesAt(p) # {} /\ UNCHANGED task
     \/ /\ HandlesAt(p) = {} /\ task'["notifier"].pc = "entry"
        /\ task'["notifier"].todo =
             <<Call("entry", p,
                    IF db[m].parent = MTP_PARENT_ROOT THEN 0 ELSE m,
                    db[m].storage_id, UNDEFINED, 0)>>
ModifyRead(p) ==
  /\ queue[1].mask = "IN_MODIFY" /\ UNCHANGED <<watch, alive, task>>
  /\ db' = [h \in DOMAIN db |->
              IF db[h].path = p /\ IsFile(p)
              THEN [db[h] EXCEPT !.object_size = fs[p].size] ELSE db[h]]
ForeignDelete(p) ==
  /\ queue[1].mask = "IN_DELETE" /\ UNCHANGED <<db, watch, alive, task>>
  /\ HandlesAt(p) = {}
DeleteRead(h, p) ==
  /\ queue[1].mask = "IN_DELETE" /\ UNCHANGED <<alive, task>>
  /\ h \in DOMAIN db /\ db[h].path = p
  /\ \A g \in DOMAIN db : db[g].parent = h => g = h
  /\ DOMAIN db' = DOMAIN db \ {h} /\ \A g \in DOMAIN db' : db'[g] = db[g]
  /\ watch' = IF db[h].object_format = ASSOCIATION
              THEN WatchRemoved(db[h].watch_fd) ELSE watch

LEMMA OnDeleteDoes ==
  ASSUME NEW p, OnDelete(p, {}), ub' = {}, DOMAIN db \subseteq Nat
  PROVE  /\ UNCHANGED <<alive, task>>
         /\ \/ HandlesAt(p) = {} /\ UNCHANGED <<db, watch>>
            \/ \E h \in DOMAIN db :
                 /\ db[h].path = p
                 /\ \A g \in DOMAIN db : db[g].parent = h => g = h
                 /\ DOMAIN db' = DOMAIN db \ {h}
                 /\ \A g \in DOMAIN db' : db'[g] = db[g]
                 /\ watch' = IF db[h].object_format = ASSOCIATION
                             THEN WatchRemoved(db[h].watch_fd) ELSE watch
<1>1. CASE HandlesAt(p) = {}
  BY <1>1 DEF OnDelete
<1>2. CASE HandlesAt(p) # {}
  <2>1. PICK h : h = Min(HandlesAt(p))
    OBVIOUS
  <2>2. h \in DOMAIN db /\ db[h].path = p
    <3>1. HandlesAt(p) \in SUBSET Nat
      BY DEF HandlesAt
    <3>2. h \in HandlesAt(p)
      BY <1>2, <2>1, <3>1, MinIsLeast
    <3> QED BY <3>2 DEF HandlesAt
  <2>3. DeleteFile(h, {}) /\ UNCHANGED task
    BY <1>2, <2>1 DEF OnDelete
  <2>4. PICK K : K = Children(h) \ {h}
    OBVIOUS
  <2>5. /\ db' \in Walked(Erase(db, {h}), K)
        /\ IteratorUb(K) \subseteq ub'
        /\ alive' = alive \/ K # {}
        /\ watch' = IF db[h].object_format = ASSOCIATION
                    THEN WatchRemoved(db[h].watch_fd) ELSE watch
    BY <2>2, <2>3, <2>4 DEF DeleteFile
  <2>6. K = {}
    BY <2>5 DEF IteratorUb
  <2>7. db' = Erase(db, {h})
    BY <2>5, <2>6 DEF Walked
  <2>8. DOMAIN db' = DOMAIN db \ {h} /\ \A g \in DOMAIN db' : db'[g] = db[g]
    <3>1. /\ DOMAIN db' = DOMAIN db \ {h}
          /\ \A g \in DOMAIN db \ {h} : db'[g] = db[g]
      BY <2>7, ErasedKeeps
    <3> QED BY <3>1
  <2>9. \A g \in DOMAIN db : db[g].parent = h => g = h
    BY <2>4, <2>6 DEF Children
  <2> QED BY <2>2, <2>3, <2>5, <2>6, <2>8, <2>9
<1> QED BY <1>1, <1>2

LEMMA InotifyDoes ==
  ASSUME TypeInv, OneScan, InotifyHandler, ub' = {}
  PROVE  \E m : /\ EventOwner(m)
                /\ LET p == Append(db[m].path, queue[1].name) IN
                   \/ CreateRead(m, p) \/ ModifyRead(p) \/ ForeignDelete(p)
                   \/ \E h \in DOMAIN db : DeleteRead(h, p)
<1>1. /\ queue # <<>> /\ Head(queue) = queue[1] /\ queue[1] \in Events
      /\ DOMAIN db \subseteq Nat /\ DOMAIN task = Threads
      /\ task["notifier"] \in Tasks
  BY InotifyFrame, HeadEvent, TaskTyped
     DEF TypeInv, HandlesPositive, Positive, Threads
<1>2. PICK e : e = queue[1]
  OBVIOUS
<1>3. PICK u : u = EventUb(e.wd)
  OBVIOUS
<1>4. PICK parent \in EventParents(e.wd) :
        LET p == Append(db[parent].path, e.name) IN
        \/ /\ parent \notin DOMAIN db
           /\ ub' = ub \cup u
        \/ /\ parent \in DOMAIN db /\ e.mask = "IN_CREATE"
           /\ ub' = ub \cup u
           /\ OnCreate(parent, p)
        \/ /\ parent \in DOMAIN db /\ e.mask = "IN_MODIFY"
           /\ ub' = ub \cup u
           /\ OnModify(p)
        \/ /\ parent \in DOMAIN db /\ e.mask = "IN_DELETE"
           /\ OnDelete(p, u)
  BY <1>1, <1>2, <1>3 DEF InotifyHandler
<1>5. PICK p : p = Append(db[parent].path, e.name)
  OBVIOUS
<1>6. u = {}
  <2>1. ASSUME OnDelete(p, u)
        PROVE  u \subseteq ub'
    BY <2>1 DEF OnDelete, DeleteFile
  <2> QED BY <1>4, <1>5, <2>1
<1>7. Owners(e.wd) # {} /\ db[Min(Owners(e.wd))].watched
  BY <1>3, <1>6 DEF EventUb
<1>8. parent \in DOMAIN db /\ db[parent].watch_fd = e.wd /\ db[parent].watched
  <2>1. parent = Min(Owners(e.wd))
    BY <1>7 DEF EventParents
  <2>2. Owners(e.wd) \in SUBSET Nat
    BY <1>1 DEF Owners
  <2>3. parent \in Owners(e.wd)
    BY <1>7, <2>1, <2>2, MinIsLeast
  <2> QED BY <1>7, <2>1, <2>3 DEF Owners
<1>9. EventOwner(parent)
  BY <1>1, <1>2, <1>8 DEF EventOwner, Events
<1>10. CASE e.mask = "IN_CREATE" /\ OnCreate(parent, p)
  <2>1. UNCHANGED <<db, watch, alive>>
    BY <1>10 DEF OnCreate
  <2>2. CASE HandlesAt(p) # {}
    BY <1>2, <1>5, <1>9, <1>10, <2>1, <2>2 DEF OnCreate, CreateRead
  <2>3. CASE HandlesAt(p) = {}
    <3>1. PICK s : s = <<Call("entry", p,
                              IF db[parent].parent = MTP_PARENT_ROOT THEN 0
                              ELSE parent,
                              db[parent].storage_id, UNDEFINED, 0)>>
      OBVIOUS
    <3>2. task' = [task EXCEPT !["notifier"].pc = "entry",
                               !["notifier"].todo = s]
      BY <1>10, <2>3, <3>1 DEF OnCreate
    <3>3. task'["notifier"].pc = "entry" /\ task'["notifier"].todo = s
      BY <1>1, <3>2 DEF Threads, Tasks
    <3>4. CreateRead(parent, p)
      BY <1>2, <1>10, <2>1, <2>3, <3>1, <3>3 DEF CreateRead
    <3> QED BY <1>2, <1>5, <1>9, <3>4
  <2> QED BY <2>2, <2>3
<1>11. CASE e.mask = "IN_MODIFY" /\ OnModify(p)
  <2>1. ModifyRead(p)
    BY <1>2, <1>11 DEF OnModify, ModifyRead
  <2> QED BY <1>2, <1>5, <1>9, <2>1
<1>12. CASE e.mask = "IN_DELETE" /\ OnDelete(p, u)
  <2>1. /\ UNCHANGED <<alive, task>>
        /\ \/ HandlesAt(p) = {} /\ UNCHANGED <<db, watch>>
           \/ \E h \in DOMAIN db :
                /\ db[h].path = p
                /\ \A g \in DOMAIN db : db[g].parent = h => g = h
                /\ DOMAIN db' = DOMAIN db \ {h}
                /\ \A g \in DOMAIN db' : db'[g] = db[g]
                /\ watch' = IF db[h].object_format = ASSOCIATION
                            THEN WatchRemoved(db[h].watch_fd) ELSE watch
    BY <1>1, <1>6, <1>12, OnDeleteDoes
  <2>2. ForeignDelete(p) \/ \E h \in DOMAIN db : DeleteRead(h, p)
    BY <1>2, <1>12, <2>1 DEF ForeignDelete, DeleteRead
  <2> QED BY <1>2, <1>5, <1>9, <2>2
<1> QED BY <1>4, <1>5, <1>8, <1>10, <1>11, <1>12

\* Reading an event keeps the paths in order.
LEMMA InotifyPaths ==
  ASSUME TypeInv, OneScan, EntriesOK, InotifyHandler, ub' = {}
  PROVE  EntriesOK' /\ (Idle("notifier")' \/ InOrder("notifier")')
<1>1. PICK m : /\ EventOwner(m)
               /\ LET p == Append(db[m].path, queue[1].name) IN
                  \/ CreateRead(m, p) \/ ModifyRead(p) \/ ForeignDelete(p)
                  \/ \E h \in DOMAIN db : DeleteRead(h, p)
  BY InotifyDoes
<1>2. PICK p : p = Append(db[m].path, queue[1].name)
  OBVIOUS
<1>3. /\ m \in DOMAIN db /\ db[m].watched /\ queue[1].name \in PathNames
      /\ EntryOK(m) /\ db[m].path \in Paths
  BY <1>1 DEF EventOwner, EntriesOK, TypeInv, EntriesTyped, DbEntry, Paths
<1>4. /\ p \in Paths /\ p # <<>> /\ Front(p) = db[m].path /\ p # Home
  <2>1. p \in Paths /\ p # <<>> /\ Front(p) = db[m].path
    BY <1>2, <1>3, AppendParts
  <2>2. db[m].path # <<>>
    BY <1>3 DEF EntryOK, Placed
  <2> QED BY <2>1, <2>2, HomeIs
<1>5. task["notifier"].pc = "idle"
  BY InotifyFrame DEF Idle, Threads
<1>6. CASE CreateRead(m, p)
  <2>1. EntriesOK'
    <3>1. UNCHANGED db
      BY <1>6 DEF CreateRead
    <3> QED BY <3>1 DEF EntriesOK, EntryOK
  <2>2. CASE UNCHANGED task
    BY <1>5, <2>1, <2>2 DEF Idle
  <2>3. CASE ~UNCHANGED task
    <3>1. PICK c : c = Call("entry", p,
                            IF db[m].parent = MTP_PARENT_ROOT THEN 0 ELSE m,
                            db[m].storage_id, UNDEFINED, 0)
      OBVIOUS
    <3>2. /\ HandlesAt(p) = {} /\ UNCHANGED db
          /\ task'["notifier"].pc = "entry" /\ task'["notifier"].todo = <<c>>
      BY <1>6, <2>3, <3>1 DEF CreateRead
    <3>3. /\ c.kind = "entry" /\ c.path = p /\ c.parent = m
          /\ c.storage = MTP_STORAGE_FIXED_RAM
      BY <1>3, <3>1 DEF Call, EntryOK
    <3>4. m # MTP_PARENT_ROOT
      BY <1>3 DEF TypeInv, HandlesPositive, Positive, MTP_PARENT_ROOT
    <3>5. Placed(db, c)
      BY <1>3, <1>4, <3>3 DEF Placed
    <3>6. New(db, c)
      BY <1>4, <3>2, <3>3, <3>4, <3>5 DEF New, CallOK, HandlesAt
    <3>7. DOMAIN <<c>> = {1} /\ <<c>>[1] = c
      OBVIOUS
    <3>8. TodoNew("notifier")'
      <4>1. \A i \in DOMAIN task'["notifier"].todo :
              i = 1 /\ New(db', task'["notifier"].todo[i])
        BY <3>2, <3>6, <3>7
      <4> QED BY <4>1 DEF TodoNew
    <3>9. CurNew("notifier")' /\ Listed("notifier")'
      BY <3>2 DEF CurNew, Pending, Listed
    <3> QED BY <2>1, <3>8, <3>9 DEF InOrder
  <2> QED BY <2>2, <2>3
<1>7. CASE ModifyRead(p)
  <2>1. UNCHANGED task
    BY <1>7 DEF ModifyRead
  <2>2. /\ DOMAIN db' = DOMAIN db
        /\ \A h \in DOMAIN db :
             /\ db'[h].path = db[h].path /\ db'[h].parent = db[h].parent
             /\ db'[h].storage_id = db[h].storage_id
             /\ db'[h].watched = db[h].watched
             /\ db'[h].object_format = db[h].object_format
    <3>1. \A h \in DOMAIN db : db[h] \in DbEntry
      BY DEF TypeInv, EntriesTyped
    <3> QED BY <1>7, <3>1 DEF ModifyRead, DbEntry
  <2>3. ASSUME NEW h \in DOMAIN db'
        PROVE  EntryOK(h)'
    <3>1. EntryOK(h)
      BY <2>2, <2>3 DEF EntriesOK
    <3>2. Placed(db', db'[h])
      BY <2>2, <3>1 DEF EntryOK, Placed
    <3> QED BY <2>2, <3>1, <3>2 DEF EntryOK
  <2>4. EntriesOK'
    BY <2>2, <2>3 DEF EntriesOK
  <2> QED BY <1>5, <2>1, <2>4 DEF Idle
<1>8. CASE ForeignDelete(p)
  BY <1>5, <1>8 DEF ForeignDelete, EntriesOK, EntryOK, Idle
<1>9. CASE \E h \in DOMAIN db : DeleteRead(h, p)
  <2>1. PICK h \in DOMAIN db : DeleteRead(h, p)
    BY <1>9
  <2>2. /\ UNCHANGED task /\ db[h].path = p
        /\ \A g \in DOMAIN db : db[g].parent = h => g = h
        /\ DOMAIN db' = DOMAIN db \ {h} /\ \A g \in DOMAIN db' : db'[g] = db[g]
    BY <2>1 DEF DeleteRead
  <2>3. ASSUME NEW g \in DOMAIN db'
        PROVE  EntryOK(g)'
    <3>1. EntryOK(g) /\ g # h
      BY <2>2, <2>3 DEF EntriesOK
    <3>2. db[g].parent # h
      BY <2>2, <2>3, <3>1
    <3>3. Placed(db', db[g])
      BY <2>2, <3>1, <3>2 DEF EntryOK, Placed
    <3> QED BY <2>2, <2>3, <3>1, <3>3 DEF EntryOK
  <2>4. EntriesOK'
    BY <2>2, <2>3 DEF EntriesOK
  <2> QED BY <1>5, <2>2, <2>4 DEF Idle
<1> QED BY <1>1, <1>2, <1>6, <1>7, <1>8, <1>9

LEMMA PathsStep ==
  ASSUME LocalOnly, TypeInv, HandlesFreshInv, EntriesIssued, OneScan, PathsInv,
         DatabaseNext
  PROVE  PathsInv'
<1> SUFFICES ASSUME ub' = {}
             PROVE  EntriesOK' /\ CallsNew'
  BY DEF PathsInv
<1>1. ASSUME NEW t \in Scanners, AddEntryStep(t)
      PROVE  EntriesOK' /\ CallsNew'
  <2>1. t \in Threads /\ ub \subseteq ub' /\ ~Idle(t) /\ OthersStay(t)
    BY <1>1, AddEntryFrame DEF Scanners, Threads
  <2>2. ub = {}
    BY <2>1
  <2>3. EntriesOK /\ InOrder(t)
    BY <2>1, <2>2 DEF PathsInv, CallsNew, InOrder
  <2>4. EntriesOK' /\ InOrder(t)'
    BY <1>1, <2>1, <2>2, <2>3, ReadCounterPaths, StoreCounterPaths,
       WatchDirectoryPaths, InsertDirectoryPaths, ListDirectoryPaths,
       StatFilePaths, InsertFilePaths, WatchRefusedPaths, ListingRefusedPaths
       DEF AddEntryStep
  <2>5. \A u \in Scanners \ {t} : Idle(u)'
    <3>1. \A u \in Threads \ {t} : Idle(u)
      BY <2>1, Alone
    <3> QED BY <2>1, <3>1 DEF OthersStay, Idle, Scanners, Threads
  <2> QED BY <2>4, <2>5 DEF CallsNew, InOrder
<1>2. CASE InotifyHandler
  <2>1. /\ ub \subseteq ub' /\ OthersStay("notifier")
        /\ Idle("daemon")
    BY <1>2, InotifyFrame DEF Threads
  <2>2. EntriesOK
    BY <2>1 DEF PathsInv
  <2>3. EntriesOK' /\ (Idle("notifier")' \/ InOrder("notifier")')
    BY <1>2, <2>2, InotifyPaths
  <2>4. Idle("daemon")'
    BY <2>1 DEF OthersStay, Idle, Threads
  <2> QED BY <2>3, <2>4 DEF CallsNew, InOrder, Scanners
<1>3. CASE UNCHANGED dbVars
  <2>1. UNCHANGED <<db, task, ub>>
    BY <1>3 DEF dbVars
  <2>2. EntriesOK /\ CallsNew
    BY <2>1 DEF PathsInv
  <2>3. EntriesOK'
    BY <2>1, <2>2 DEF EntriesOK, EntryOK
  <2>4. CallsNew'
    BY <2>1, <2>2 DEF CallsNew, TodoNew, CurNew, Listed, Pending, Idle
  <2> QED BY <2>3, <2>4
<1> QED BY <1>1, <1>2, <1>3, LocalOnlyStep

-----------------------------------------------------------------------------
(* What was handed out, and what the kernel keeps, along every step.       *)

\* add_file_entry puts an entry under a handle nobody had, or raced for it.
LEMMA EntryInserted ==
  ASSUME HandlesFreshInv, NEW t \in Threads, AddEntryStep(t)
  PROVE  /\ issued \subseteq issued' /\ ub \subseteq ub'
         /\ DOMAIN db' \ DOMAIN db \subseteq issued'
         /\ "counter" \notin ub => (DOMAIN db' \ DOMAIN db) \cap issued = {}
<1>1. CASE ReadCounter(t) \/ StoreCounter(t) \/ WatchDirectory(t)
           \/ ListDirectory(t) \/ StatFile(t) \/ WatchRefused(t)
           \/ ListingRefused(t)
  <2>1. UNCHANGED <<db, issued>> /\ ub \subseteq ub'
    BY <1>1 DEF ReadCounter, StoreCounter, WatchDirectory, ListDirectory,
                StatFile, WatchRefused, ListingRefused
  <2> QED BY <2>1
<1>2. CASE InsertDirectory(t) \/ InsertFile(t)
  <2>1. /\ task[t].pc \in {"insert_dir", "insert_file"} /\ ub' = ub
        /\ \/ UNCHANGED <<db, issued>>
           \/ /\ issued' = issued \cup {task[t].handle}
              /\ \E e : db' = Insert(db, task[t].handle, e)
    BY <1>2 DEF InsertDirectory, InsertFile
  <2>2. "counter" \notin ub => task[t].handle \notin issued
    BY <2>1 DEF HandlesFreshInv, FreshParts, HoldersBelow, Holding
  <2>3. CASE UNCHANGED <<db, issued>>
    BY <2>1, <2>3
  <2>4. CASE ~UNCHANGED <<db, issued>>
    <3>1. PICK e : db' = Insert(db, task[t].handle, e)
      BY <2>1, <2>4
    <3>2. DOMAIN db' = DOMAIN db \cup {task[t].handle}
      BY <3>1, InsertDomain
    <3> QED BY <2>1, <2>2, <2>4, <3>2
  <2> QED BY <2>3, <2>4
<1> QED BY <1>1, <1>2 DEF AddEntryStep

LEMMA EntriesIssuedLocally ==
  ASSUME LocalOnly, OneScan, HandlesFreshInv, EntriesIssued, DatabaseNext
  PROVE  EntriesIssued'
<1>1. ASSUME NEW t \in Scanners, AddEntryStep(t)
      PROVE  EntriesIssued'
  <2>1. issued \subseteq issued' /\ DOMAIN db' \ DOMAIN db \subseteq issued'
    BY <1>1, EntryInserted DEF Scanners, Threads
  <2> QED BY <2>1 DEF EntriesIssued
<1>2. CASE InotifyHandler
  BY <1>2, InotifyDomain DEF EntriesIssued
<1>3. CASE UNCHANGED dbVars
  BY <1>3 DEF dbVars, EntriesIssued
<1> QED BY <1>1, <1>2, <1>3, LocalOnlyStep

\* The notifier drops watches and adds none.
LEMMA InotifyWatches ==
  ASSUME InotifyHandler
  PROVE  /\ queue # <<>> /\ queue' = Tail(queue)
         /\ UNCHANGED <<fs, nextIno, nextWd>>
         /\ DOMAIN watch' \subseteq DOMAIN watch
         /\ \A w \in DOMAIN watch' : watch'[w] = watch[w]
<1>1. /\ queue # <<>> /\ queue' = Tail(queue)
      /\ UNCHANGED <<fs, nextIno, nextWd>>
  BY DEF InotifyHandler
<1>2. watch' = watch \/ \E K : watch' = Erase(watch, K)
  <2> DEFINE e == Head(queue)
             u == EventUb(e.wd)
  <2>0. PICK parent \in EventParents(e.wd) :
          LET p == Append(db[parent].path, e.name) IN
          UNCHANGED watch \/ OnCreate(parent, p) \/ OnModify(p) \/ OnDelete(p, u)
    BY DEF InotifyHandler
  <2>1. watch' = watch \/ \E p, v : OnDelete(p, v)
    BY <2>0 DEF OnCreate, OnModify
  <2>2. watch' = watch \/ \E h, v : DeleteFile(h, v)
    BY <2>1 DEF OnDelete
  <2> QED BY <2>2 DEF DeleteFile, WatchRemoved
<1>3. CASE watch' = watch
  BY <1>1, <1>3
<1>4. CASE \E K : watch' = Erase(watch, K)
  <2>1. PICK K : watch' = Erase(watch, K)
    BY <1>4
  <2>2. /\ DOMAIN watch' = DOMAIN watch \ K
        /\ \A w \in DOMAIN watch \ K : watch'[w] = watch[w]
    BY <2>1, ErasedKeeps
  <2> QED BY <1>1, <2>2
<1> QED BY <1>2, <1>3, <1>4

LEMMA AddEntryTold ==
  ASSUME KernelTyped, InosTyped, KernelTold, NEW t \in Threads, AddEntryStep(t)
  PROVE  KernelTold' /\ InosTyped'
<1>1. UNCHANGED kernelVars \/ \E p : AddWatch(p)
  BY DEF AddEntryStep, ReadCounter, StoreCounter, WatchDirectory,
         InsertDirectory, ListDirectory, StatFile, InsertFile, WatchRefused,
         ListingRefused
<1>2. CASE UNCHANGED kernelVars
  BY <1>2 DEF kernelVars, KernelTold, InosTyped, InosApart, WatchesApart,
              QueueBelow, EventsOrdered, Recreated, WatchersOf
<1>3. CASE \E p : AddWatch(p)
  BY <1>3, AddWatchTold
<1> QED BY <1>1, <1>2, <1>3

\* What a program did to the tree.
TreeStep ==
  \/ \E p \in Paths : /\ p \notin DOMAIN fs /\ p # <<>>
                     /\ IsDirectory(Front(p)) /\ \E k : FsCreate(p, k)
  \/ \E p \in DOMAIN fs : IsFile(p) /\ \E z : FsResize(p, z)
  \/ \E p \in DOMAIN fs : Listing(p) = {} /\ Len(p) > 1 /\ FsRemove(p)

LEMMA LocalTreeStep ==
  ASSUME KernelTyped, LocalStep(Roots)
  PROVE  TreeStep
<1>1. \A r : Below(r) \subseteq DOMAIN fs
  BY DEF Below
<1>2. ASSUME NEW d \in DOMAIN fs, NEW n \in Names, NEW k \in LocalKinds,
             LocalCreate(Append(d, n), k)
      PROVE  TreeStep
  <2>1. PICK p : p = Append(d, n)
    OBVIOUS
  <2>2. p \in Paths /\ p # <<>>
    BY <2>1, AppendParts DEF PathNames, KernelTyped, TreeTyped
  <2> QED BY <1>2, <2>1, <2>2 DEF LocalCreate, CanCreate, TreeStep
<1>3. ASSUME NEW p \in DOMAIN fs, NEW z \in Sizes, LocalWrite(p, z)
      PROVE  TreeStep
  BY <1>3 DEF LocalWrite, TreeStep
<1>4. ASSUME NEW p \in DOMAIN fs, LocalRemove(p)
      PROVE  TreeStep
  BY <1>4 DEF LocalRemove, CanRemove, TreeStep
<1> QED BY <1>1, <1>2, <1>3, <1>4 DEF LocalStep

LEMMA KernelToldStep ==
  ASSUME LocalOnly, OneScan, KernelTyped, InosTyped, KernelTold, DatabaseNext
  PROVE  KernelTold' /\ InosTyped'
<1>1. ASSUME NEW t \in Scanners, AddEntryStep(t)
      PROVE  KernelTold' /\ InosTyped'
  BY <1>1, AddEntryTold DEF Scanners, Threads
<1>2. CASE InotifyHandler
  BY <1>2, InotifyWatches, ReadTold
<1>3. CASE LocalStep(Roots)
  <2>1. TreeStep
    BY <1>3, LocalTreeStep
  <2>2. \A p \in DOMAIN fs : p \in Paths
    BY DEF KernelTyped, TreeTyped
  <2> QED BY <2>1, <2>2, CreateTold, ResizeTold, RemoveTold DEF TreeStep
<1> QED BY <1>1, <1>2, <1>3, LocalOnlyStep

-----------------------------------------------------------------------------
(* The agreement with the tree, step by step.                              *)

\* While t scans, nobody else has an object on the way.
LEMMA NoticedWhere ==
  ASSUME OneScan, NEW t \in Scanners, ~Idle(t), NEW p, NEW d, Noticed(p, d)
  PROVE  \/ Known(p) \/ Told(p, d) \/ OnTheWay(t, p)
         \/ task[t].pc = "list" /\ task[t].handle = d
<1>1. \A u \in Scanners \ {t} : task[u].pc = "idle"
  BY Alone DEF Scanners, Threads, Idle
<1> QED BY <1>1 DEF Noticed, Idle

LEMMA CallsSoundOf ==
  ASSUME OneScan, NEW t \in Scanners, ~Idle(t), OthersStay(t), CurSound(t)'
  PROVE  CallsSound'
<1>1. \A u \in Scanners \ {t} : task'[u].pc = "idle"
  <2>1. \A u \in Scanners \ {t} : task[u].pc = "idle" /\ u \in Threads \ {t}
    BY Alone DEF Scanners, Threads, Idle
  <2> QED BY <2>1 DEF OthersStay
<1>2. \A u \in Scanners \ {t} : CurSound(u)'
  BY <1>1 DEF CurSound
<1> QED BY <1>2 DEF CallsSound

\* A step that touches neither the map nor the tree.
LEMMA SyncUnmoved ==
  ASSUME OneScan, NEW t \in Scanners, ~Idle(t), OthersStay(t),
         UNCHANGED <<db, kernelVars>>, SyncNow, CurSound(t)',
         Skipped \subseteq Skipped',
         \A p \in DOMAIN fs : \A d \in DOMAIN db :
           /\ InDir(p, d) /\ p \notin Skipped'
           /\ OnTheWay(t, p) \/ (task[t].pc = "list" /\ task[t].handle = d)
           => Noticed(p, d)'
  PROVE  SyncNow'
<1>1. UNCHANGED <<db, fs, watch, queue, nextIno, nextWd>>
  BY DEF kernelVars
<1>2. WatchesTrue'
  BY <1>1 DEF SyncNow, WatchesTrue, WatchOf
<1>3. EntriesSound'
  BY <1>1 DEF SyncNow, EntriesSound, Sound, Excused, Watching, Pends, TrueDir,
              TrueFile, IsDirectory, IsFile
<1>4. AllNoticed'
  <2> SUFFICES ASSUME NEW p \in DOMAIN fs, NEW d \in DOMAIN db, InDir(p, d),
                      p \notin Skipped'
               PROVE  Noticed(p, d)'
    BY <1>1 DEF AllNoticed, InDir, Watching
  <2>1. Noticed(p, d)
    BY DEF SyncNow, AllNoticed
  <2>2. CASE Known(p) \/ Told(p, d)
    BY <1>1, <2>2 DEF Noticed, Known, Told
  <2>3. CASE OnTheWay(t, p) \/ (task[t].pc = "list" /\ task[t].handle = d)
    BY <2>3
  <2> QED BY <2>1, <2>2, <2>3, NoticedWhere
<1> QED BY <1>2, <1>3, <1>4, CallsSoundOf DEF SyncNow

LEMMA ReadCounterSync ==
  ASSUME TypeInv, OneScan, NEW t \in Scanners, t \in Threads, ~Idle(t),
         OthersStay(t), SyncNow, ReadCounter(t),
         Skipped \subseteq Skipped'
  PROVE  SyncNow'
<1>1. /\ UNCHANGED <<db, kernelVars>>
      /\ task[t].pc = "entry" /\ task'[t].pc = "alloc"
      /\ task'[t].cur = task[t].todo[1]
      /\ Len(task[t].todo) \in Nat /\ DOMAIN task[t].todo = 1 .. Len(task[t].todo)
      /\ DOMAIN task'[t].todo = 1 .. Len(task[t].todo) - 1
      /\ \A i \in DOMAIN task'[t].todo : task'[t].todo[i] = task[t].todo[i + 1]
  BY ReadCounterDoes, TaskTyped
<1>2. CurSound(t)'
  BY <1>1 DEF CurSound
<1>3. ASSUME NEW p, OnTheWay(t, p)
      PROVE  OnTheWay(t, p)' /\ ~Idle(t)'
  <2>1. PICK i \in DOMAIN task[t].todo : task[t].todo[i].path = p
    BY <1>1, <1>3 DEF OnTheWay, Pending
  <2>2. CASE i = 1
    BY <1>1, <2>1, <2>2 DEF OnTheWay, Pending, Idle
  <2>3. CASE i # 1
    <3>1. i - 1 \in DOMAIN task'[t].todo /\ i - 1 + 1 = i
      BY <1>1, <2>3
    <3>2. task'[t].todo[i - 1].path = p
      BY <1>1, <2>1, <3>1
    <3> QED BY <1>1, <3>1, <3>2 DEF OnTheWay, Idle
  <2> QED BY <2>2, <2>3
<1>4. \A p \in DOMAIN fs : \A d \in DOMAIN db :
        /\ InDir(p, d)
        /\ OnTheWay(t, p) \/ (task[t].pc = "list" /\ task[t].handle = d)
        => Noticed(p, d)'
  BY <1>1, <1>3 DEF Noticed
<1> QED BY <1>1, <1>2, <1>4, SyncUnmoved

LEMMA StoreCounterSync ==
  ASSUME TypeInv, OneScan, NEW t \in Scanners, t \in Threads, ~Idle(t),
         OthersStay(t), SyncNow, InOrder(t), StoreCounter(t),
         Skipped \subseteq Skipped'
  PROVE  SyncNow'
<1>1. New(db, task[t].cur)
  BY DEF InOrder, CurNew, Pending, StoreCounter
<1>2. /\ UNCHANGED <<db, kernelVars>> /\ task[t].pc = "alloc"
      /\ task'[t].todo = task[t].todo /\ task'[t].cur = task[t].cur
      /\ \/ IsDirectory(task[t].cur.path) /\ task'[t].pc = "watch"
         \/ ~IsDirectory(task[t].cur.path) /\ task'[t].pc = "stat"
         \/ task[t].cur.path = Home /\ task'[t].pc = Return(t)
  BY <1>1, StoreCounterDoes
<1>3. CurSound(t)'
  BY <1>2 DEF CurSound, IsDirectory, kernelVars, Return
<1>4. ASSUME NEW p \in DOMAIN fs, NEW d \in DOMAIN db, InDir(p, d),
             OnTheWay(t, p)
      PROVE  OnTheWay(t, p)' /\ ~Idle(t)'
  <2>1. CASE \E i \in DOMAIN task[t].todo : task[t].todo[i].path = p
    <3>1. task[t].todo # <<>>
      BY <2>1
    <3>2. task'[t].pc # "idle"
      BY <1>2, <3>1 DEF Return
    <3> QED BY <1>2, <2>1, <3>2 DEF OnTheWay, Idle
  <2>2. CASE task[t].cur.path = p
    <3>0. Len(p) > 1
      BY <1>4 DEF InDir
    <3>1. p # Home
      BY <3>0, HomeIsShort
    <3> QED BY <1>2, <2>2, <3>1 DEF OnTheWay, Pending, Idle
  <2> QED BY <1>4, <2>1, <2>2 DEF OnTheWay
<1>5. \A p \in DOMAIN fs : \A d \in DOMAIN db :
        /\ InDir(p, d)
        /\ OnTheWay(t, p) \/ (task[t].pc = "list" /\ task[t].handle = d)
        => Noticed(p, d)'
  BY <1>2, <1>4 DEF Noticed
<1> QED BY <1>2, <1>3, <1>5, SyncUnmoved

\* The directory of an object, watched or not, is the one its call names.
LEMMA DirOfCall ==
  ASSUME EntriesOK, NEW c, Placed(db, c), c.path # Home, NEW d \in DOMAIN db,
         db[d].path = Front(c.path)
  PROVE  d = c.parent
BY DEF EntriesOK, Placed

LEMMA StatFileSync ==
  ASSUME TypeInv, OneScan, EntriesOK, NEW t \in Scanners, t \in Threads,
         ~Idle(t), OthersStay(t), SyncNow, InOrder(t), StatFile(t),
         Skipped \subseteq Skipped'
  PROVE  SyncNow'
<1>1. PICK c : c = task[t].cur
  OBVIOUS
<1>2. /\ UNCHANGED <<db, kernelVars>> /\ task[t].pc = "stat"
      /\ task'[t].todo = task[t].todo
      /\ \/ /\ IsFile(c.path) /\ task'[t].pc = "insert_file"
            /\ task'[t].cur = [c EXCEPT !.size = fs[c.path].size]
         \/ ~IsFile(c.path) /\ task'[t].pc = Return(t)
  BY <1>1, StatFileDoes
<1>3. c \in Calls
  BY <1>1, TaskTyped
<1>4. CurSound(t)'
  <2>1. CASE task'[t].pc = Return(t)
    BY <2>1 DEF CurSound, Return
  <2>2. CASE task'[t].pc # Return(t)
    <3>1. PICK d : d = [c EXCEPT !.size = fs[c.path].size]
      OBVIOUS
    <3>2. d.path = c.path /\ d.size = fs[c.path].size
      BY <1>3, <3>1 DEF Calls
    <3>3. task'[t].pc = "insert_file" /\ task'[t].cur = d /\ IsFile(c.path)
      BY <1>2, <2>2, <3>1
    <3>4. fs' = fs
      BY <1>2 DEF kernelVars
    <3> QED BY <3>2, <3>3, <3>4 DEF CurSound, TrueFile, IsFile
  <2> QED BY <2>1, <2>2
<1>5. /\ Placed(db, c) /\ c.path # Home
      /\ IsDirectory(c.path) => ~Watching(c.parent) \/ Pends("IN_CREATE", c)
  BY <1>1, <1>2 DEF InOrder, CurNew, Pending, New, CallOK, SyncNow, CallsSound,
                    CurSound
<1>6. ASSUME NEW p \in DOMAIN fs, NEW d \in DOMAIN db, InDir(p, d),
             OnTheWay(t, p)
      PROVE  Noticed(p, d)'
  <2>1. CASE \E i \in DOMAIN task[t].todo : task[t].todo[i].path = p
    <3>1. task[t].todo # <<>>
      BY <2>1
    <3>2. task'[t].pc # "idle"
      BY <1>2, <3>1 DEF Return
    <3> QED BY <1>2, <2>1, <3>2 DEF OnTheWay, Idle, Noticed
  <2>2. CASE c.path = p /\ IsFile(p)
    <3>1. /\ task'[t].pc = "insert_file"
          /\ task'[t].cur = [c EXCEPT !.size = fs[c.path].size]
      BY <1>2, <2>2
    <3>2. task'[t].cur.path = p
      BY <1>3, <2>2, <3>1 DEF Calls
    <3> QED BY <3>1, <3>2 DEF Noticed, OnTheWay, Pending, Idle
  <2>3. CASE c.path = p /\ ~IsFile(p)
    <3>1. IsDirectory(p)
      BY <2>3 DEF IsDirectory, IsFile, TypeInv, KernelTyped, TreeTyped, Nodes,
                  Kinds
    <3>2. d = c.parent /\ Watching(d)
      BY <1>5, <1>6, <2>3, DirOfCall DEF InDir
    <3>3. Pends("IN_CREATE", c)
      BY <1>5, <2>3, <3>1, <3>2
    <3>4. Told(p, d)
      BY <2>3, <3>2, <3>3 DEF Pends, Told
    <3> QED BY <1>2, <3>4 DEF Noticed, Told, kernelVars
  <2> QED BY <1>1, <1>6, <2>1, <2>2, <2>3 DEF OnTheWay
<1>7. \A p \in DOMAIN fs : \A d \in DOMAIN db :
        /\ InDir(p, d)
        /\ OnTheWay(t, p) \/ (task[t].pc = "list" /\ task[t].handle = d)
        => Noticed(p, d)'
  BY <1>2, <1>6
<1> QED BY <1>2, <1>4, <1>7, SyncUnmoved

LEMMA ListDirectorySync ==
  ASSUME TypeInv, OneScan, EntriesOK, NEW t \in Scanners, t \in Threads,
         ~Idle(t), OthersStay(t), SyncNow, InOrder(t), ListDirectory(t),
         Skipped \subseteq Skipped'
  PROVE  SyncNow'
<1>1. PICK c, k, s : c = task[t].cur /\ k = task[t].handle /\ s = task[t].todo
  OBVIOUS
<1>2. /\ task[t].pc = "list" /\ CallOK(db, c) /\ k \in DOMAIN db
      /\ db[k].path = c.path
  BY <1>1 DEF InOrder, Listed, ListDirectory
<1>3. /\ c \in Calls /\ s \in Seq(Calls) /\ k \in Int
      /\ Len(s) \in Nat /\ DOMAIN s = 1 .. Len(s)
  BY <1>1, <1>2, TaskTyped DEF TypeInv, HandlesPositive, Positive
<1>4. /\ UNCHANGED <<db, kernelVars>> /\ task'[t].pc \in {"idle", "entry"}
      /\ task'[t].pc = "idle" => task'[t].todo = <<>>
      /\ \E v \in SetToSeqs(Listing(c.path)) :
           task'[t].todo = ListedCalls(c, k, v, s)
  BY <1>1, <1>2, ListDirectoryDoes
<1>5. PICK v \in SetToSeqs(Listing(c.path)) :
        task'[t].todo = ListedCalls(c, k, v, s)
  BY <1>4
<1>6. IsFiniteSet(Listing(c.path)) /\ Listing(c.path) \subseteq Paths
  BY ListingIs DEF TypeInv
<1>7. /\ v \in Seq(Listing(c.path)) /\ DOMAIN v = 1 .. Len(v)
      /\ \A x \in Listing(c.path) : \E i \in DOMAIN v : v[i] = x
  BY <1>6, SeqsOfSetOnce
<1>8. v \in Seq(Paths)
  BY <1>6, <1>7, SeqMonotonic
<1>9. LET r == ListedCalls(c, k, v, s) IN
      /\ Len(v) \in Nat /\ DOMAIN r = 1 .. Len(v) + Len(s)
      /\ \A i \in 1 .. Len(v) :
           r[i] = Call("entry", v[i], k, c.storage, UNDEFINED, 0)
      /\ \A i \in 1 .. Len(s) : r[Len(v) + i] = s[i]
  BY <1>3, <1>8, ListedCallsAre
<1>10. PICK r : r = ListedCalls(c, k, v, s) /\ r = task'[t].todo
  BY <1>5
<1>11. ASSUME NEW p, \E i \in DOMAIN r : r[i].path = p
       PROVE  ~Idle(t)' /\ OnTheWay(t, p)'
  <2>1. task'[t].todo # <<>>
    BY <1>10, <1>11
  <2> QED BY <1>4, <1>10, <1>11, <2>1 DEF Idle, OnTheWay
<1>12. ASSUME NEW p \in DOMAIN fs, NEW d \in DOMAIN db, InDir(p, d),
              OnTheWay(t, p) \/ (task[t].pc = "list" /\ task[t].handle = d)
       PROVE  Noticed(p, d)'
  <2>1. CASE OnTheWay(t, p)
    <3>1. PICK i \in 1 .. Len(s) : s[i].path = p
      BY <1>1, <1>2, <1>3, <2>1 DEF OnTheWay, Pending
    <3>2. Len(v) + i \in DOMAIN r /\ r[Len(v) + i] = s[i]
      BY <1>3, <1>9, <1>10
    <3> QED BY <1>11, <3>1, <3>2 DEF Noticed
  <2>2. CASE task[t].handle = d
    <3>1. p \in Paths /\ p # <<>> /\ Front(p) = c.path
      BY <1>1, <1>2, <1>12, <2>2, EmptySeq
         DEF InDir, TypeInv, KernelTyped, TreeTyped
    <3>2. Len(p) = Len(c.path) + 1
      BY <3>1, FrontShorter
    <3>3. p \in Listing(c.path)
      BY <3>1, <3>2 DEF Listing
    <3>4. PICK i \in 1 .. Len(v) : v[i] = p
      BY <1>7, <3>3
    <3>5. i \in DOMAIN r /\ r[i].path = p
      <4>1. r[i] = Call("entry", v[i], k, c.storage, UNDEFINED, 0)
        BY <1>9, <1>10
      <4>2. r[i].path = v[i]
        BY <4>1 DEF Call
      <4>3. i \in DOMAIN r
        BY <1>3, <1>9, <1>10
      <4> QED BY <3>4, <4>2, <4>3
    <3> QED BY <1>11, <3>5 DEF Noticed
  <2> QED BY <1>12, <2>1, <2>2
<1>13. CurSound(t)'
  BY <1>4 DEF CurSound
<1> QED BY <1>4, <1>12, <1>13, SyncUnmoved

\* The entry of a directory, and whether it is watched, by its fields.
LEMMA EntryFields ==
  ASSUME TypeInv, EntriesOK, NEW h \in DOMAIN db
  PROVE  /\ db[h] \in DbEntry /\ db[h].path \in Paths /\ db[h].path # <<>>
         /\ db[h].watch_fd \in Int /\ db[h].object_size \in Int /\ h \in Positive
         /\ db[h].path # Home =>
              /\ db[h].parent \in DOMAIN db /\ db[db[h].parent].watched
              /\ db[db[h].parent].path = Front(db[h].path)
BY DEF TypeInv, EntriesTyped, HandlesPositive, DbEntry, Paths, EntriesOK,
       EntryOK, Placed

\* A new watch is on a directory no entry has watched so far.
LEMMA WatchesGrow ==
  ASSUME TypeInv, WatchesTrue, nextWd <= nextWd', nextWd' \in Int,
         DOMAIN watch' \subseteq DOMAIN watch \cup {nextWd},
         DOMAIN watch \subseteq DOMAIN watch',
         \A w \in DOMAIN watch : watch'[w] = watch[w], UNCHANGED <<db, fs>>
  PROVE  /\ \A d \in DOMAIN db : db[d].watched => Watching(d)' = Watching(d)
         /\ WatchesTrue'
<1>1. /\ nextWd \in Int
      /\ \A d \in DOMAIN db : db[d].watch_fd \in Int
  BY DEF TypeInv, KernelTyped, WatchesTyped, EntriesTyped, DbEntry
<1>2. ASSUME NEW d \in DOMAIN db, db[d].watched
      PROVE  db[d].watch_fd < nextWd /\ db[d].watch_fd # nextWd
             /\ db[d].watch_fd < nextWd'
  <2>1. db[d].watch_fd < nextWd
    BY <1>2 DEF WatchesTrue, WatchOf
  <2> QED BY <1>1, <2>1
<1>3. ASSUME NEW d \in DOMAIN db, db[d].watched
      PROVE  Watching(d)' = Watching(d)
  BY <1>2, <1>3 DEF Watching
<1>4. WatchesTrue'
  <2> SUFFICES ASSUME NEW d \in DOMAIN db, db[d].watched
               PROVE  WatchOf(db[d].path, db[d].watch_fd)'
    BY DEF WatchesTrue
  <2>1. WatchOf(db[d].path, db[d].watch_fd)
    BY DEF WatchesTrue
  <2>2. /\ db[d].watch_fd < nextWd'
        /\ db[d].watch_fd \in DOMAIN watch' => db[d].watch_fd \in DOMAIN watch
    BY <1>2
  <2> QED BY <2>1, <2>2 DEF WatchOf
<1> QED BY <1>3, <1>4

LEMMA WatchDirectorySync ==
  ASSUME TypeInv, InosTyped, KernelTold, OneScan, EntriesOK,
         NEW t \in Scanners, t \in Threads, ~Idle(t), OthersStay(t), SyncNow,
         InOrder(t), WatchDirectory(t),
         Skipped \subseteq Skipped'
  PROVE  SyncNow'
<1>1. PICK c : c = task[t].cur
  OBVIOUS
<1>2. PICK w : w = WatchDescriptor(c.path)
  OBVIOUS
<1>3. /\ task[t].pc = "watch" /\ AddWatch(c.path) /\ UNCHANGED db
      /\ task' = [task EXCEPT ![t].pc = "insert_dir", ![t].tmp = w]
  BY <1>1, <1>2 DEF WatchDirectory
<1>4. /\ task'[t].todo = task[t].todo /\ task'[t].cur = c
      /\ task'[t].pc = "insert_dir" /\ task'[t].tmp = w
  BY <1>1, <1>3, TaskTyped DEF Tasks
<1>5. /\ UNCHANGED <<fs, queue>>
      /\ DOMAIN watch' \subseteq DOMAIN watch \cup {nextWd}
      /\ DOMAIN watch \subseteq DOMAIN watch'
      /\ \A v \in DOMAIN watch : watch'[v] = watch[v]
      /\ nextWd <= nextWd' /\ w < nextWd'
      /\ w \in DOMAIN watch' => c.path \in DOMAIN fs /\ watch'[w] = fs[c.path].ino
      /\ c.path \in DOMAIN fs => w \in DOMAIN watch'
  BY <1>2, <1>3, AddWatchTold DEF TypeInv, AddWatch
<1>6. nextWd' \in Int
  BY <1>3, AddWatchTyped DEF TypeInv, KernelTyped, WatchesTyped
<1>7. /\ \A d \in DOMAIN db : db[d].watched => Watching(d)' = Watching(d)
      /\ WatchesTrue'
  BY <1>3, <1>5, <1>6, WatchesGrow DEF SyncNow
<1>8. ASSUME NEW x, Placed(db, x), Excused(x)
      PROVE  Excused(x)'
  BY <1>3, <1>5, <1>7, <1>8 DEF Excused, Placed, Pends
<1>9. EntriesSound'
  <2> SUFFICES ASSUME NEW h \in DOMAIN db PROVE Sound(h)'
    BY <1>3 DEF EntriesSound
  <2>1. Sound(h) /\ Placed(db, db[h])
    BY DEF SyncNow, EntriesSound, EntriesOK, EntryOK
  <2>2. CASE Excused(db[h])
    BY <1>3, <1>8, <2>1, <2>2 DEF Sound
  <2>3. CASE db[h].watched /\ TrueDir(db[h].path, db[h].watch_fd)
    BY <1>3, <1>5, <2>3 DEF Sound, TrueDir, IsDirectory
  <2>4. CASE ~db[h].watched /\ TrueFile(db[h], db[h].object_size)
    BY <1>3, <1>5, <2>4 DEF Sound, TrueFile, IsFile, Pends
  <2> QED BY <2>1, <2>2, <2>3, <2>4 DEF Sound
<1>10. AllNoticed'
  <2> SUFFICES ASSUME NEW p \in DOMAIN fs, NEW d \in DOMAIN db, InDir(p, d)'
               PROVE  Noticed(p, d)'
    BY <1>3, <1>5 DEF AllNoticed
  <2>1. InDir(p, d)
    BY <1>3, <1>7 DEF InDir
  <2>2. Noticed(p, d)
    BY <2>1 DEF SyncNow, AllNoticed
  <2>3. CASE Known(p) \/ Told(p, d)
    BY <1>3, <1>5, <2>3 DEF Noticed, Known, Told
  <2>4. CASE OnTheWay(t, p)
    BY <1>1, <1>3, <1>4, <2>4 DEF Noticed, OnTheWay, Pending, Idle
  <2> QED BY <1>3, <2>2, <2>3, <2>4, NoticedWhere
<1>11. CurSound(t)'
  <2>1. Placed(db, c) /\ (Excused(c) \/ IsDirectory(c.path))
    BY <1>1, <1>3 DEF InOrder, CurNew, Pending, New, CallOK, SyncNow,
                      CallsSound, CurSound
  <2>2. WatchOf(c.path, w)'
    BY <1>5 DEF WatchOf
  <2>3. Excused(c)' \/ TrueDir(c.path, w)'
    BY <1>5, <1>8, <2>1 DEF TrueDir, IsDirectory
  <2> QED BY <1>4, <2>2, <2>3 DEF CurSound
<1> QED BY <1>7, <1>9, <1>10, <1>11, CallsSoundOf DEF SyncNow

\* The watch is refused: what happens in the directory is not reported.
LEMMA WatchRefusedSync ==
  ASSUME TypeInv, KernelTold, OneScan,
         NEW t \in Scanners, t \in Threads, ~Idle(t), OthersStay(t), SyncNow,
         InOrder(t), WatchRefused(t), Skipped \subseteq Skipped'
  PROVE  SyncNow'
<1>1. PICK c : c = task[t].cur
  OBVIOUS
<1>2. /\ UNCHANGED <<db, kernelVars>> /\ task[t].pc = "watch"
      /\ task'[t].todo = task[t].todo /\ task'[t].cur = c
      /\ task'[t].pc = "insert_dir" /\ task'[t].tmp = -1
  BY <1>1, WatchRefusedDoes
<1>3. WatchOf(c.path, -1)'
  <2>1. 0 < nextWd /\ nextWd \in Int /\ \A w \in DOMAIN watch : 0 < w
    BY DEF KernelTold, WatchesApart, TypeInv, KernelTyped, WatchesTyped
  <2>2. -1 < nextWd /\ -1 \notin DOMAIN watch
    BY <2>1
  <2> QED BY <1>2, <2>2 DEF WatchOf, kernelVars
<1>4. Excused(c) \/ IsDirectory(c.path)
  BY <1>1, <1>2 DEF SyncNow, CallsSound, CurSound
<1>5. Excused(c)' \/ TrueDir(c.path, -1)'
  BY <1>2, <1>4 DEF Excused, Watching, Pends, TrueDir, IsDirectory, kernelVars
<1>6. CurSound(t)'
  BY <1>2, <1>3, <1>5 DEF CurSound
<1>7. \A p \in DOMAIN fs : \A d \in DOMAIN db :
        /\ InDir(p, d) /\ p \notin Skipped'
        /\ OnTheWay(t, p) \/ (task[t].pc = "list" /\ task[t].handle = d)
        => Noticed(p, d)'
  BY <1>1, <1>2 DEF Noticed, OnTheWay, Pending, Idle
<1> QED BY <1>2, <1>6, <1>7, SyncUnmoved

\* A scan is given up: what it had before it is skipped from now on.
LEMMA GaveUpSync ==
  ASSUME TypeInv, OneScan, NEW t \in Scanners, t \in Threads, ~Idle(t),
         OthersStay(t), SyncNow, UNCHANGED <<db, kernelVars>>,
         Skipped \subseteq Skipped', NEW left, GiveUp(t, left),
         \A p \in DOMAIN fs : \A d \in DOMAIN db :
           /\ InDir(p, d)
           /\ OnTheWay(t, p) \/ (task[t].pc = "list" /\ task[t].handle = d)
           => p \in left
  PROVE  SyncNow'
<1>1. DOMAIN task = Threads /\ DOMAIN task[t] = TaskFields
  BY DEF TypeInv, HandlesPositive
<1>2. task'[t].pc = "idle" /\ left \subseteq task'[t].skipped
  BY <1>1, GaveUp
<1>3. left \subseteq Skipped'
  BY <1>2 DEF Skipped
<1>4. CurSound(t)'
  BY <1>2 DEF CurSound
<1>5. \A p \in DOMAIN fs : \A d \in DOMAIN db :
        /\ InDir(p, d) /\ p \notin Skipped'
        /\ OnTheWay(t, p) \/ (task[t].pc = "list" /\ task[t].handle = d)
        => Noticed(p, d)'
  BY <1>3
<1> QED BY <1>4, <1>5, SyncUnmoved

LEMMA ListingRefusedSync ==
  ASSUME TypeInv, OneScan, NEW t \in Scanners, t \in Threads, ~Idle(t),
         OthersStay(t), SyncNow, InOrder(t), ListingRefused(t),
         Skipped \subseteq Skipped'
  PROVE  SyncNow'
<1>1. PICK c, k : c = task[t].cur /\ k = task[t].handle
  OBVIOUS
<1>2. /\ UNCHANGED <<db, kernelVars>> /\ task[t].pc = "list"
      /\ GiveUp(t, Left(t) \cup Listing(c.path))
  BY <1>1 DEF ListingRefused
<1>3. db[k].path = c.path
  BY <1>1, <1>2 DEF InOrder, Listed
<1>4. c \in Calls
  BY <1>1, TaskTyped
<1>5. ASSUME NEW p \in DOMAIN fs, NEW d \in DOMAIN db, InDir(p, d),
             OnTheWay(t, p) \/ (task[t].pc = "list" /\ task[t].handle = d)
      PROVE  p \in Left(t) \cup Listing(c.path)
  <2>1. CASE OnTheWay(t, p)
    BY <1>2, <2>1 DEF OnTheWay, Pending, Left
  <2>2. CASE k = d
    <3>1. p \in Paths /\ p # <<>> /\ Front(p) = c.path
      BY <1>3, <1>5, <2>2, EmptySeq DEF InDir, TypeInv, KernelTyped, TreeTyped
    <3>2. Len(p) = Len(c.path) + 1
      BY <3>1, FrontShorter
    <3> QED BY <3>1, <3>2 DEF Listing
  <2> QED BY <1>1, <1>5, <2>1, <2>2
<1> QED BY <1>2, <1>5, GaveUpSync

\* Below a directory that is watched all the way up, so is every directory.
LEMMA FollowedUp ==
  ASSUME TypeInv, EntriesOK, NEW p \in Paths, p # <<>>, Followed(p),
         NEW d \in DOMAIN db, db[d].watched, db[d].path = Front(p)
  PROVE  db[d].watch_fd # -1 /\ Followed(db[d].path)
<1>1. /\ IsStrictPrefix(Front(p), p)
      /\ \A q \in Paths : IsStrictPrefix(q, Front(p)) => IsStrictPrefix(q, p)
  BY AboveFront
<1>2. \A g \in DOMAIN db : db[g].path \in Paths
  BY EntryFields
<1> QED BY <1>1, <1>2 DEF Followed

\* With no event unread, every directory that is reported to the last is
\* watched: the removal of the uppermost one that has lost its watch would still
\* have to be read.
Reported(d) ==
  db[d].watched /\ db[d].watch_fd # -1 /\ Followed(db[d].path)

LEMMA AllWatching ==
  ASSUME TypeInv, EntriesOK, EntriesSound, queue = <<>>
  PROVE  \A d \in DOMAIN db : Reported(d) => Watching(d)
<1> SUFFICES ASSUME NEW d0 \in DOMAIN db, Reported(d0), ~Watching(d0)
             PROVE  FALSE
  OBVIOUS
<1>1. PICK S : S = {n \in Nat : \E d \in DOMAIN db :
                      Reported(d) /\ ~Watching(d) /\ Len(db[d].path) = n}
  OBVIOUS
<1>2. \A d \in DOMAIN db : Len(db[d].path) \in Nat
  BY EntryFields, FrontShorter
<1>3. S \in SUBSET Nat /\ S # {}
  BY <1>1, <1>2
<1>4. PICK n \in S : \A y \in S : n <= y
  BY <1>3, MinIsLeast
<1>5. PICK d \in DOMAIN db :
        Reported(d) /\ ~Watching(d) /\ Len(db[d].path) = n
  BY <1>1, <1>4
<1>6. Excused(db[d])
  BY <1>5 DEF EntriesSound, Sound, TrueDir, Watching, Reported
<1>7. db[d].path # Home /\ ~Watching(db[d].parent)
  BY <1>6 DEF Excused, Pends
<1>8. PICK q : q = db[d].parent
  OBVIOUS
<1>9. /\ q \in DOMAIN db /\ db[q].watched /\ db[q].path = Front(db[d].path)
      /\ db[d].path \in Paths /\ db[d].path # <<>>
  BY <1>7, <1>8, EntryFields
<1>10. Len(db[q].path) = n - 1 /\ n - 1 \in Nat
  BY <1>2, <1>5, <1>9, EntryFields, FrontShorter
<1>11. Reported(q)
  <2>1. Followed(db[d].path)
    BY <1>5 DEF Reported
  <2> QED BY <1>9, <2>1, FollowedUp DEF Reported
<1>12. n - 1 \in S
  BY <1>1, <1>7, <1>8, <1>9, <1>10, <1>11
<1> QED BY <1>3, <1>4, <1>10, <1>12

\* Then nothing that is reported is on its way to be removed.
LEMMA NothingExcused ==
  ASSUME TypeInv, EntriesOK, EntriesSound, queue = <<>>,
         NEW c, Placed(db, c), c.path \in Paths, Followed(c.path)
  PROVE  ~Excused(c)
<1>1. CASE c.path # Home
  <2>1. PICK q : q = c.parent
    OBVIOUS
  <2>2. /\ q \in DOMAIN db /\ db[q].watched /\ db[q].path = Front(c.path)
        /\ c.path # <<>>
    BY <1>1, <2>1 DEF Placed
  <2>3. Reported(q)
    BY <2>2, FollowedUp DEF Reported
  <2>4. Watching(c.parent)
    BY <2>1, <2>2, <2>3, AllWatching
  <2> QED BY <2>4 DEF Excused, Pends
<1> QED BY <1>1 DEF Excused

\* An entry that agrees with the tree, or need not, joins the others.
LEMMA EntryJoins ==
  ASSUME TypeInv, EntriesOK, SyncNow, UNCHANGED kernelVars,
         NEW c, New(db, c), NEW k, k \notin DOMAIN db, NEW e,
         e.path = c.path, e.parent = c.parent, c.path = Home => e.watched,
         DOMAIN db' = DOMAIN db \cup {k}, db'[k] = e,
         \A h \in DOMAIN db : db'[h] = db[h],
         e.watched => WatchOf(e.path, e.watch_fd),
         \/ Excused(c)
         \/ e.watched /\ TrueDir(e.path, e.watch_fd)
         \/ ~e.watched /\ TrueFile(c, e.object_size),
         e.watched => \A p \in DOMAIN fs : Noticed(p, k)',
         \A p \in DOMAIN fs : \A d \in DOMAIN db : InDir(p, d) => Noticed(p, d)',
         Skipped \subseteq Skipped'
  PROVE  WatchesTrue' /\ EntriesSound' /\ AllNoticed'
<1>1. UNCHANGED <<fs, watch, queue, nextWd>>
  BY DEF kernelVars
<1>2. WatchesTrue'
  BY <1>1 DEF SyncNow, WatchesTrue, WatchOf
<1>3. ASSUME NEW x, Placed(db, x), Excused(x)
      PROVE  Excused(x)'
  BY <1>1, <1>3 DEF Excused, Placed, Watching, Pends
<1>4. ASSUME NEW x, x.path # Home => x.parent \in DOMAIN db, x.path # Home,
             NEW z, TrueFile(x, z)
      PROVE  TrueFile(x, z)'
  BY <1>1, <1>4 DEF TrueFile, IsFile, Pends
<1>5. ASSUME NEW h \in DOMAIN db
      PROVE  Sound(h)'
  <2>1. Sound(h) /\ Placed(db, db[h]) /\ db'[h] = db[h]
    BY <1>5 DEF SyncNow, EntriesSound, EntriesOK, EntryOK
  <2>2. CASE Excused(db[h])
    BY <1>3, <2>1, <2>2 DEF Sound
  <2>3. CASE db[h].watched /\ TrueDir(db[h].path, db[h].watch_fd)
    BY <1>1, <2>1, <2>3 DEF Sound, TrueDir, IsDirectory
  <2>4. CASE ~db[h].watched /\ TrueFile(db[h], db[h].object_size)
    <3>1. db[h].path # Home
      BY <1>5, <2>4 DEF EntriesOK, EntryOK
    <3>2. TrueFile(db[h], db[h].object_size)'
      BY <1>4, <2>1, <2>4, <3>1 DEF Placed
    <3> QED BY <2>1, <2>4, <3>2 DEF Sound
  <2> QED BY <2>1, <2>2, <2>3, <2>4 DEF Sound
<1>6. Sound(k)'
  <2>1. Placed(db, c)
    BY DEF New, CallOK
  <2>2. CASE Excused(c)
    <3>1. Excused(c)'
      BY <1>3, <2>1, <2>2
    <3>2. Excused(e)'
      BY <3>1 DEF Excused, Pends
    <3> QED BY <3>2 DEF Sound
  <2>3. CASE e.watched /\ TrueDir(e.path, e.watch_fd)
    BY <1>1, <2>3 DEF Sound, TrueDir, IsDirectory
  <2>4. CASE ~e.watched /\ TrueFile(c, e.object_size) /\ ~Excused(c)
    <3>1. c.path # Home => c.parent \in DOMAIN db /\ db'[c.parent] = db[c.parent]
      BY <2>1 DEF Placed
    <3>2. CASE fs[c.path].size = e.object_size
      BY <1>1, <2>4, <3>2 DEF Sound, TrueFile, IsFile
    <3>3. CASE Pends("IN_MODIFY", c) /\ c.path # Home
      <4>1. Pends("IN_MODIFY", c)'
        BY <1>1, <3>1, <3>3 DEF Pends
      <4>2. Pends("IN_MODIFY", e)'
        BY <4>1 DEF Pends
      <4> QED BY <1>1, <2>4, <4>2 DEF Sound, TrueFile, IsFile
    <3> QED BY <2>4, <3>2, <3>3 DEF TrueFile
  <2> QED BY <2>2, <2>3, <2>4
<1>7. EntriesSound'
  BY <1>5, <1>6 DEF EntriesSound
<1>8. AllNoticed'
  BY <1>1 DEF AllNoticed, InDir, Watching
<1> QED BY <1>2, <1>7, <1>8

\* What was noticed before an insertion stays noticed after it.
LEMMA NoticedAfter ==
  ASSUME OneScan, NEW t \in Scanners, ~Idle(t), UNCHANGED kernelVars,
         Pending(t), DOMAIN db \subseteq DOMAIN db',
         \A h \in DOMAIN db : db'[h] = db[h],
         NEW k \in DOMAIN db', db'[k].path = task[t].cur.path,
         task'[t].todo = task[t].todo, task[t].todo # <<>> => ~Idle(t)',
         NEW p, NEW d \in DOMAIN db, Noticed(p, d)
  PROVE  Noticed(p, d)'
<1>1. UNCHANGED queue
  BY DEF kernelVars
<1>2. CASE Known(p) \/ Told(p, d)
  BY <1>1, <1>2 DEF Noticed, Known, Told
<1>3. CASE task[t].cur.path = p
  BY <1>3 DEF Noticed, Known
<1>4. CASE \E i \in DOMAIN task[t].todo : task[t].todo[i].path = p
  <2>1. task[t].todo # <<>>
    BY <1>4
  <2> QED BY <1>4, <2>1 DEF Noticed, OnTheWay
<1> QED BY <1>2, <1>3, <1>4, NoticedWhere DEF OnTheWay, Pending

LEMMA InsertDirectorySync ==
  ASSUME TypeInv, HandlesFreshInv, EntriesIssued, ub = {}, OneScan, EntriesOK,
         NEW t \in Scanners, t \in Threads, ~Idle(t), OthersStay(t), SyncNow,
         InOrder(t), InsertDirectory(t),
         Skipped \subseteq Skipped'
  PROVE  SyncNow'
<1>1. PICK c, k, w : c = task[t].cur /\ k = task[t].handle /\ w = task[t].tmp
  OBVIOUS
<1>2. /\ UNCHANGED kernelVars /\ task[t].pc = "insert_dir" /\ k \notin DOMAIN db
      /\ \/ /\ c.path \in DOMAIN fs
            /\ db' = Insert(db, k, Entry(c, ASSOCIATION, 0, w, TRUE))
            /\ task'[t].pc = "list" /\ task'[t].todo = task[t].todo
            /\ task'[t].handle = k
         \/ c.path \notin DOMAIN fs /\ UNCHANGED db /\ GiveUp(t, Left(t))
  BY <1>1, InsertDirectoryDoes
<1>3. /\ New(db, c) /\ Placed(db, c) /\ WatchOf(c.path, w)
      /\ Excused(c) \/ TrueDir(c.path, w)
  BY <1>1, <1>2 DEF InOrder, CurNew, Pending, New, CallOK, SyncNow, CallsSound,
                    CurSound
<1>4. CASE c.path \notin DOMAIN fs
  <2>1. ASSUME NEW p \in DOMAIN fs, OnTheWay(t, p) PROVE p \in Left(t)
    BY <1>1, <1>4, <2>1 DEF OnTheWay, Left
  <2>2. \A p \in DOMAIN fs : \A d \in DOMAIN db :
          /\ InDir(p, d)
          /\ OnTheWay(t, p) \/ (task[t].pc = "list" /\ task[t].handle = d)
          => p \in Left(t)
    BY <1>2, <2>1
  <2> QED BY <1>2, <1>4, <2>2, GaveUpSync
<1>5. CASE c.path \in DOMAIN fs
  <2>1. PICK e : e = Entry(c, ASSOCIATION, 0, w, TRUE)
    OBVIOUS
  <2>2. /\ e.path = c.path /\ e.parent = c.parent /\ e.storage_id = c.storage
        /\ e.watched = (e.object_format = ASSOCIATION) /\ e.watched
        /\ e.watch_fd = w
    BY <2>1 DEF Entry
  <2>3. /\ db' = Insert(db, k, e)
        /\ task'[t].pc = "list" /\ task'[t].todo = task[t].todo
        /\ task'[t].handle = k
    BY <1>2, <1>5, <2>1
  <2>4. /\ DOMAIN db' = DOMAIN db \cup {k} /\ db'[k] = e
        /\ \A h \in DOMAIN db : db'[h] = db[h]
    <3>1. New(db, c) /\ k \notin DOMAIN db /\ db' = Insert(db, k, e)
      BY <1>2, <1>3, <2>3
    <3>2. e.path = c.path /\ e.parent = c.parent /\ e.storage_id = c.storage
      BY <2>2
    <3>3. e.watched = (e.object_format = ASSOCIATION)
      BY <2>2
    <3>4. c.path = Home => e.watched
      BY <2>2
    <3> QED BY <3>1, <3>2, <3>3, <3>4, EntryAdded
  <2>5. \A p \in DOMAIN fs : Noticed(p, k)'
    BY <2>3 DEF Noticed
  <2>6. \A p \in DOMAIN fs : \A d \in DOMAIN db : InDir(p, d) => Noticed(p, d)'
    <3>1. Pending(t) /\ ~Idle(t)'
      BY <1>2, <2>3 DEF Pending, Idle
    <3>2. DOMAIN db \subseteq DOMAIN db' /\ k \in DOMAIN db'
          /\ db'[k].path = task[t].cur.path
      BY <1>1, <2>2, <2>4
    <3>3. \A p \in DOMAIN fs : \A d \in DOMAIN db : InDir(p, d) => Noticed(p, d)
      BY DEF SyncNow, AllNoticed
    <3> QED BY <1>2, <2>3, <2>4, <3>1, <3>2, <3>3, NoticedAfter
  <2>7. WatchesTrue' /\ EntriesSound' /\ AllNoticed'
    <3>1. UNCHANGED kernelVars /\ New(db, c) /\ k \notin DOMAIN db
      BY <1>2, <1>3
    <3>2. e.path = c.path /\ e.parent = c.parent
      BY <2>2
    <3>3. c.path = Home => e.watched
      BY <2>2
    <3>4. e.watched => WatchOf(e.path, e.watch_fd)
      BY <1>3, <2>2
    <3>5. \/ Excused(c)
          \/ e.watched /\ TrueDir(e.path, e.watch_fd)
          \/ ~e.watched /\ TrueFile(c, e.object_size)
      BY <1>3, <2>2
    <3>6. e.watched => \A p \in DOMAIN fs : Noticed(p, k)'
      BY <2>5
    <3> QED BY <2>4, <2>6, <3>1, <3>2, <3>3, <3>4, <3>5, <3>6, EntryJoins
  <2>8. CurSound(t)'
    BY <2>3 DEF CurSound
  <2> QED BY <2>7, <2>8, CallsSoundOf DEF SyncNow
<1> QED BY <1>4, <1>5

LEMMA InsertFileSync ==
  ASSUME TypeInv, HandlesFreshInv, EntriesIssued, ub = {}, OneScan, EntriesOK,
         NEW t \in Scanners, t \in Threads, ~Idle(t), OthersStay(t), SyncNow,
         InOrder(t), InsertFile(t),
         Skipped \subseteq Skipped'
  PROVE  SyncNow'
<1>1. PICK c, k : c = task[t].cur /\ k = task[t].handle
  OBVIOUS
<1>2. /\ UNCHANGED kernelVars /\ task[t].pc = "insert_file"
      /\ k \notin DOMAIN db
      /\ task'[t].pc = Return(t) /\ task'[t].todo = task[t].todo
      /\ \E wd : db' = Insert(db, k, Entry(c, UNDEFINED, c.size, wd, FALSE))
  BY <1>1, InsertFileDoes
<1>3. /\ New(db, c) /\ Placed(db, c) /\ c.path # Home
      /\ Excused(c) \/ TrueFile(c, c.size)
  BY <1>1, <1>2 DEF InOrder, CurNew, Pending, New, CallOK, SyncNow, CallsSound,
                    CurSound
<1>4. PICK wd : db' = Insert(db, k, Entry(c, UNDEFINED, c.size, wd, FALSE))
  BY <1>2
<1>5. PICK e : e = Entry(c, UNDEFINED, c.size, wd, FALSE)
  OBVIOUS
<1>6. /\ e.path = c.path /\ e.parent = c.parent /\ e.storage_id = c.storage
      /\ e.object_format = UNDEFINED /\ ~e.watched /\ e.object_size = c.size
      /\ e.watched = FALSE
  BY <1>5 DEF Entry
<1>7. db' = Insert(db, k, e)
  BY <1>4, <1>5
<1>8. /\ DOMAIN db' = DOMAIN db \cup {k} /\ db'[k] = e
      /\ \A h \in DOMAIN db : db'[h] = db[h]
  <2>1. k \notin DOMAIN db
    BY <1>2
  <2> QED BY <1>7, <2>1 DEF Insert
<1>9. \A p \in DOMAIN fs : \A d \in DOMAIN db : InDir(p, d) => Noticed(p, d)'
  <2>1. Pending(t) /\ (task[t].todo # <<>> => ~Idle(t)')
    BY <1>2 DEF Pending, Idle, Return
  <2>2. DOMAIN db \subseteq DOMAIN db' /\ k \in DOMAIN db'
        /\ db'[k].path = task[t].cur.path
    BY <1>1, <1>6, <1>8
  <2>3. \A p \in DOMAIN fs : \A d \in DOMAIN db : InDir(p, d) => Noticed(p, d)
    BY DEF SyncNow, AllNoticed
  <2> QED BY <1>2, <1>8, <2>1, <2>2, <2>3, NoticedAfter
<1>10. WatchesTrue' /\ EntriesSound' /\ AllNoticed'
  <2>1. e.watched => WatchOf(e.path, e.watch_fd)
    BY <1>6
  <2>2. e.watched => \A p \in DOMAIN fs : Noticed(p, k)'
    BY <1>6
  <2>3. \/ Excused(c)
        \/ e.watched /\ TrueDir(e.path, e.watch_fd)
        \/ ~e.watched /\ TrueFile(c, e.object_size)
    BY <1>3, <1>6 DEF TrueFile
  <2>4. UNCHANGED kernelVars /\ New(db, c) /\ k \notin DOMAIN db
    BY <1>2, <1>3
  <2>5. e.path = c.path /\ e.parent = c.parent
    BY <1>6
  <2>6. c.path = Home => e.watched
    BY <1>3
  <2> QED BY <1>8, <1>9, <2>1, <2>2, <2>3, <2>4, <2>5, <2>6, EntryJoins
<1>11. CurSound(t)'
  BY <1>2 DEF CurSound, Return
<1> QED BY <1>10, <1>11, CallsSoundOf DEF SyncNow

-----------------------------------------------------------------------------
(* Reading an event.                                                       *)

\* A descriptor that is still watched is that of one entry only.
LEMMA OwnerOnly ==
  ASSUME KernelTold, EntriesOK, WatchesTrue, NEW d \in DOMAIN db,
         NEW g \in DOMAIN db, db[d].watched, db[g].watched, Watching(d),
         db[g].watch_fd = db[d].watch_fd
  PROVE  g = d
<1>1. WatchOf(db[d].path, db[d].watch_fd) /\ WatchOf(db[g].path, db[g].watch_fd)
  BY DEF WatchesTrue
<1>2. /\ db[d].path \in DOMAIN fs /\ db[g].path \in DOMAIN fs
      /\ fs[db[d].path].ino = fs[db[g].path].ino
  BY <1>1 DEF WatchOf, Watching
<1>3. db[d].path = db[g].path
  BY <1>2 DEF KernelTold, InosApart
<1> QED BY <1>3 DEF EntriesOK

\* An event for an object of a directory that is watched is read as that.
LEMMA HeadIs ==
  ASSUME TypeInv, KernelTold, EntriesOK, WatchesTrue, NEW m, EventOwner(m),
         NEW d \in DOMAIN db, db[d].watched, Watching(d), NEW q \in Paths,
         q # <<>>, Front(q) = db[d].path, NEW mask,
         queue[1] = EventOf(db[d].watch_fd, mask, q)
  PROVE  /\ m = d /\ queue[1].mask = mask
         /\ q = Append(db[m].path, queue[1].name)
<1>1. /\ queue[1].wd = db[d].watch_fd /\ queue[1].mask = mask
      /\ queue[1].name = Last(q)
  BY DEF EventOf
<1>2. m = d
  BY <1>1, OwnerOnly DEF EventOwner
<1>3. PICK r : r = Append(db[m].path, queue[1].name)
  OBVIOUS
<1>4. db[m].path \in Paths /\ queue[1].name \in PathNames
  BY EntryFields DEF EventOwner
<1>5. /\ r \in Paths /\ r # <<>> /\ Front(r) = db[m].path
      /\ Last(r) = queue[1].name
  BY <1>3, <1>4, AppendParts
<1>6. Front(r) = Front(q) /\ Last(r) = Last(q)
  BY <1>1, <1>2, <1>5
<1>7. r = q
  BY <1>5, <1>6, PathParts
<1> QED BY <1>1, <1>2, <1>3, <1>7

\* The event that was read, and those that were not.
LEMMA EventsRead ==
  ASSUME TypeInv, InosTyped, KernelTold, InotifyHandler
  PROVE  /\ \A i \in DOMAIN queue :
              i # 1 => i - 1 \in DOMAIN queue' /\ queue'[i - 1] = queue[i]
         /\ 1 \in DOMAIN queue /\ DOMAIN queue \subseteq Nat
<1>1. /\ Len(queue) \in Nat /\ Len(queue) > 0
      /\ DOMAIN queue = 1 .. Len(queue)
      /\ DOMAIN queue' = 1 .. Len(queue) - 1
      /\ \A i \in 1 .. Len(queue) - 1 : queue'[i] = queue[i + 1]
  BY InotifyWatches, ReadTold DEF TypeInv
<1>2. ASSUME NEW i \in DOMAIN queue, i # 1
      PROVE  i - 1 \in DOMAIN queue' /\ queue'[i - 1] = queue[i]
  <2>1. i - 1 \in 1 .. Len(queue) - 1 /\ i - 1 + 1 = i
    BY <1>1, <1>2
  <2> QED BY <1>1, <2>1
<1> QED BY <1>1, <1>2

\* What is in the queue for an object stays there, or was just read.
LEMMA PendsRead ==
  ASSUME TypeInv, InosTyped, KernelTold, EntriesOK, WatchesTrue,
         InotifyHandler, NEW m, EventOwner(m), NEW x, x.path \in Paths,
         x.path # Home, Placed(db, x), Watching(x.parent),
         x.parent \in DOMAIN db', db'[x.parent].watch_fd = db[x.parent].watch_fd,
         NEW mask, Pends(mask, x)
  PROVE  \/ Pends(mask, x)'
         \/ /\ queue[1].mask = mask
            /\ x.path = Append(db[m].path, queue[1].name)
<1>1. PICK i \in DOMAIN queue :
        queue[i] = EventOf(db[x.parent].watch_fd, mask, x.path)
  BY DEF Pends
<1>2. CASE i # 1
  <2>1. i - 1 \in DOMAIN queue' /\ queue'[i - 1] = queue[i]
    BY <1>2, EventsRead
  <2>2. queue'[i - 1] = EventOf(db'[x.parent].watch_fd, mask, x.path)
    BY <1>1, <2>1
  <2> QED BY <2>1, <2>2 DEF Pends
<1>3. CASE i = 1
  <2>1. /\ x.path # <<>> /\ x.parent \in DOMAIN db /\ db[x.parent].watched
        /\ Front(x.path) = db[x.parent].path
    BY DEF Placed
  <2> QED BY <1>1, <1>3, <2>1, HeadIs
<1> QED BY <1>2, <1>3

LEMMA ToldRead ==
  ASSUME TypeInv, InosTyped, KernelTold, EntriesOK, WatchesTrue,
         InotifyHandler, NEW m, EventOwner(m), NEW p \in Paths,
         NEW d \in DOMAIN db, InDir(p, d), d \in DOMAIN db',
         db'[d].watch_fd = db[d].watch_fd, Told(p, d)
  PROVE  \/ Told(p, d)'
         \/ /\ queue[1].mask = "IN_CREATE" /\ m = d
            /\ p = Append(db[m].path, queue[1].name)
<1>1. PICK i \in DOMAIN queue :
        queue[i] = EventOf(db[d].watch_fd, "IN_CREATE", p)
  BY DEF Told
<1>2. CASE i # 1
  <2>1. i - 1 \in DOMAIN queue' /\ queue'[i - 1] = queue[i]
    BY <1>2, EventsRead
  <2>2. queue'[i - 1] = EventOf(db'[d].watch_fd, "IN_CREATE", p)
    BY <1>1, <2>1
  <2> QED BY <2>1, <2>2 DEF Told
<1>3. CASE i = 1
  <2>1. db[d].watched /\ Watching(d) /\ Front(p) = db[d].path /\ p # <<>>
    BY EmptySeq DEF InDir
  <2> QED BY <1>1, <1>3, <2>1, HeadIs
<1> QED BY <1>2, <1>3

\* When everybody is idle, an object is noticed in the map or in the queue.
LEMMA NoticedIdle ==
  ASSUME \A u \in Threads : Idle(u), NEW p, NEW d, Noticed(p, d)
  PROVE  Known(p) \/ Told(p, d)
BY DEF Noticed, Idle, Scanners, Threads

\* An entry agrees with the tree after an event as it did before, unless the
\* event said that it was removed, or changed and was not looked at.
LEMMA SoundRead ==
  ASSUME TypeInv, InosTyped, KernelTold, EntriesOK, WatchesTrue,
         InotifyHandler, NEW m, EventOwner(m),
         NEW p, p = Append(db[m].path, queue[1].name),
         NEW g \in DOMAIN db, g \in DOMAIN db', Sound(g),
         db'[g].path = db[g].path, db'[g].parent = db[g].parent,
         db'[g].watched = db[g].watched, db'[g].watch_fd = db[g].watch_fd,
         db[g].path # Home =>
           /\ db[g].parent \in DOMAIN db'
           /\ db'[db[g].parent].watch_fd = db[db[g].parent].watch_fd
           /\ Watching(db[g].parent)' = Watching(db[g].parent),
         db[g].watched => Watching(g)' = Watching(g),
         queue[1].mask = "IN_DELETE" => db[g].path # p,
         \/ db'[g].object_size = fs[db[g].path].size
         \/ /\ db'[g].object_size = db[g].object_size
            /\ queue[1].mask = "IN_MODIFY" /\ IsFile(db[g].path)
               => db[g].path # p
  PROVE  Sound(g)'
<1>1. PICK x : x = db[g]
  OBVIOUS
<1>2. PICK y : y = db'[g]
  OBVIOUS
<1>3. x.path \in Paths /\ Placed(db, x) /\ (~x.watched => x.path # Home)
  BY <1>1, EntryFields DEF EntriesOK, EntryOK
<1>4. /\ UNCHANGED fs
      /\ y.path = x.path /\ y.parent = x.parent /\ y.watched = x.watched
      /\ y.watch_fd = x.watch_fd
  BY <1>1, <1>2, InotifyWatches
<1>5. ASSUME x.path # Home, NEW mask, Watching(x.parent), Pends(mask, x),
             queue[1].mask = mask => x.path # p
      PROVE  Pends(mask, y)'
  <2>1. Pends(mask, x)'
    BY <1>1, <1>3, <1>5, PendsRead
  <2> QED BY <1>4, <2>1 DEF Pends
<1>6. CASE Excused(x)
  <2>1. x.path # Home /\ (~Watching(x.parent) \/ Pends("IN_DELETE", x))
    BY <1>6 DEF Excused
  <2>2. CASE ~Watching(x.parent)
    <3>1. ~Watching(y.parent)'
      BY <1>1, <1>4, <2>1, <2>2
    <3>2. Excused(y)'
      BY <1>4, <2>1, <3>1 DEF Excused
    <3> QED BY <1>2, <3>2 DEF Sound
  <2>3. CASE Watching(x.parent) /\ Pends("IN_DELETE", x)
    <3>1. Pends("IN_DELETE", y)'
      BY <1>1, <1>5, <2>1, <2>3
    <3>2. Excused(y)'
      BY <1>4, <2>1, <3>1 DEF Excused
    <3> QED BY <1>2, <3>2 DEF Sound
  <2> QED BY <2>1, <2>2, <2>3
<1>7. CASE x.watched /\ TrueDir(x.path, x.watch_fd)
  <2>1. x.watch_fd # -1 => Watching(g)'
    BY <1>1, <1>7 DEF TrueDir, Watching
  <2>2. TrueDir(y.path, y.watch_fd)'
    BY <1>2, <1>4, <1>7, <2>1 DEF TrueDir, IsDirectory, Watching
  <2> QED BY <1>2, <1>4, <1>7, <2>2 DEF Sound
<1>8. CASE ~x.watched /\ TrueFile(x, x.object_size) /\ ~Excused(x)
  <2>1. IsFile(x.path) /\ IsFile(y.path)' /\ UNCHANGED fs
    BY <1>4, <1>8 DEF TrueFile, IsFile
  <2>2. TrueFile(y, y.object_size)'
    <3>1. CASE y.object_size = fs[x.path].size
      BY <1>4, <2>1, <3>1 DEF TrueFile
    <3>2. CASE /\ y.object_size = x.object_size
               /\ queue[1].mask = "IN_MODIFY" => x.path # p
               /\ fs[x.path].size # x.object_size
      <4>1. x.path # Home /\ Watching(x.parent) /\ Pends("IN_MODIFY", x)
        BY <1>3, <1>8, <3>2 DEF TrueFile, Excused
      <4>2. Pends("IN_MODIFY", y)'
        BY <1>5, <3>2, <4>1
      <4> QED BY <2>1, <4>2 DEF TrueFile
    <3> QED BY <1>1, <1>2, <2>1, <3>1, <3>2
  <2> QED BY <1>2, <1>4, <1>8, <2>2 DEF Sound
<1> QED BY <1>1, <1>6, <1>7, <1>8 DEF Sound

\* What is watched after an event has the entry it had.
LEMMA WatchesRead ==
  ASSUME WatchesTrue, InotifyHandler, DOMAIN db' \subseteq DOMAIN db,
         \A g \in DOMAIN db' : /\ db'[g].path = db[g].path
                               /\ db'[g].watched = db[g].watched
                               /\ db'[g].watch_fd = db[g].watch_fd
  PROVE  WatchesTrue'
BY InotifyWatches DEF WatchesTrue, WatchOf

\* The step that reads an event and starts no call, in the map and the watches:
\* the map may lose one entry, and the removal the event tells of is its.
LEMMA NoticedRead ==
  ASSUME TypeInv, InosTyped, KernelTold, EntriesOK, WatchesTrue, AllNoticed,
         InotifyHandler, \A u \in Threads : Idle(u), Skipped' = Skipped,
         NEW m, EventOwner(m),
         DOMAIN db' \subseteq DOMAIN db, queue[1].mask # "IN_CREATE",
         \A g \in DOMAIN db' : /\ db'[g].path = db[g].path
                               /\ db'[g].watched = db[g].watched
                               /\ db'[g].watch_fd = db[g].watch_fd
                               /\ db[g].watched => Watching(g)' = Watching(g),
         \A g \in DOMAIN db \ DOMAIN db' :
           /\ queue[1].mask = "IN_DELETE"
           /\ db[g].path = Append(db[m].path, queue[1].name)
  PROVE  AllNoticed'
<1>1. UNCHANGED fs
  BY InotifyWatches
<1>2. SUFFICES ASSUME NEW p \in DOMAIN fs, NEW d \in DOMAIN db', InDir(p, d)'
               PROVE  Known(p)' \/ Told(p, d)'
  BY <1>1 DEF AllNoticed, Noticed
<1>3. /\ d \in DOMAIN db /\ InDir(p, d) /\ p \in Paths /\ p # <<>>
      /\ db[d].watched /\ Watching(d) /\ Front(p) = db[d].path /\ Len(p) > 1
  <2>1. d \in DOMAIN db /\ InDir(p, d) /\ p \in Paths
    BY <1>2 DEF InDir, TypeInv, KernelTyped, TreeTyped
  <2> QED BY <2>1, EmptySeq DEF InDir
<1>4. Known(p) \/ Told(p, d)
  BY <1>3, NoticedIdle DEF AllNoticed
<1>5. CASE Told(p, d)
  BY <1>3, <1>5, ToldRead
<1>6. CASE \E g \in DOMAIN db' : db[g].path = p
  BY <1>6 DEF Known
<1>7. CASE \E g \in DOMAIN db \ DOMAIN db' : db[g].path = p
  <2>1. /\ queue[1].mask = "IN_DELETE"
        /\ p = Append(db[m].path, queue[1].name)
    BY <1>7
  <2>2. /\ m \in DOMAIN db /\ db[m].watch_fd = queue[1].wd /\ db[m].watched
        /\ queue[1].name \in PathNames /\ db[m].path \in Paths
    BY EntryFields DEF EventOwner
  <2>3. Front(p) = db[m].path /\ Last(p) = queue[1].name
    BY <2>1, <2>2, AppendParts
  <2>4. d = m
    BY <1>3, <2>2, <2>3 DEF EntriesOK
  <2>5. PICK w : w = db[m].watch_fd
    OBVIOUS
  <2>6. w \in WatchersOf(p)
    <3>1. WatchOf(db[m].path, w) /\ w \in DOMAIN watch
      BY <1>3, <2>4, <2>5 DEF WatchesTrue, Watching
    <3> QED BY <1>3, <2>4, <3>1 DEF WatchOf, WatchersOf
  <2>7. queue[1] = EventOf(w, "IN_DELETE", p)
    <3>1. queue[1] \in Events
      BY HeadEvent, InotifyWatches DEF TypeInv
    <3> QED BY <2>1, <2>2, <2>3, <2>5, <3>1 DEF Events, EventOf
  <2>8. 1 \in DOMAIN queue /\ DOMAIN queue \subseteq Nat
    BY EventsRead
  <2>9. PICK j \in DOMAIN queue : 1 < j /\ queue[j] = EventOf(w, "IN_CREATE", p)
    BY <2>6, <2>7, <2>8 DEF KernelTold, EventsOrdered, Recreated
  <2>10. j # 1
    BY <2>8, <2>9
  <2>11. j - 1 \in DOMAIN queue' /\ queue'[j - 1] = queue[j]
    BY <2>10, EventsRead
  <2>12. db'[d].watch_fd = w
    BY <1>2, <2>4, <2>5
  <2>13. Told(p, d)'
    BY <2>9, <2>11, <2>12 DEF Told
  <2> QED BY <2>13
<1> QED BY <1>4, <1>5, <1>6, <1>7 DEF Known

\* A new object is noticed.
LEMMA CreateSync ==
  ASSUME TypeInv, InosTyped, KernelTold, EntriesOK, SyncNow, InotifyHandler,
         \A u \in Threads : Idle(u), Skipped' = Skipped, NEW m, EventOwner(m),
         CreateRead(m, Append(db[m].path, queue[1].name))
  PROVE  WatchesTrue' /\ EntriesSound' /\ AllNoticed'
<1>1. PICK p : p = Append(db[m].path, queue[1].name)
  OBVIOUS
<1>2. /\ CreateRead(m, p) /\ queue[1].mask = "IN_CREATE"
      /\ UNCHANGED <<db, watch, fs>>
  BY <1>1, InotifyWatches DEF CreateRead
<1>3. WatchesTrue'
  BY <1>2, WatchesRead DEF SyncNow
<1>4. EntriesSound'
  <2> SUFFICES ASSUME NEW g \in DOMAIN db PROVE Sound(g)'
    BY <1>2 DEF EntriesSound
  <2>1. Sound(g) /\ Placed(db, db[g])
    BY DEF SyncNow, EntriesSound, EntriesOK, EntryOK
  <2>2. \A h : Watching(h)' = Watching(h)
    BY <1>2 DEF Watching
  <2>3. db[g].path # Home => db[g].parent \in DOMAIN db
    BY <2>1 DEF Placed
  <2> QED BY <1>1, <1>2, <2>1, <2>2, <2>3, SoundRead DEF SyncNow
<1>5. AllNoticed'
  <2> SUFFICES ASSUME NEW q \in DOMAIN fs, NEW d \in DOMAIN db, InDir(q, d)
               PROVE  Noticed(q, d)'
    BY <1>2 DEF AllNoticed, InDir, Watching
  <2>1. Known(q) \/ Told(q, d)
    BY NoticedIdle DEF SyncNow, AllNoticed
  <2>2. CASE Known(q)
    BY <1>2, <2>2 DEF Known, Noticed
  <2>3. CASE Told(q, d)
    <3>1. q \in Paths
      BY DEF TypeInv, KernelTyped, TreeTyped
    <3>2. Told(q, d)' \/ q = p
      BY <1>1, <1>2, <2>3, <3>1, ToldRead DEF SyncNow
    <3>3. CASE HandlesAt(p) # {} /\ q = p
      BY <1>2, <3>3 DEF HandlesAt, Known, Noticed
    <3>4. CASE HandlesAt(p) = {} /\ q = p
      <4>1. PICK c : c = Call("entry", p,
                              IF db[m].parent = MTP_PARENT_ROOT THEN 0 ELSE m,
                              db[m].storage_id, UNDEFINED, 0)
        OBVIOUS
      <4>2. task'["notifier"].pc = "entry" /\ task'["notifier"].todo = <<c>>
        BY <1>2, <3>4, <4>1 DEF CreateRead
      <4>3. DOMAIN <<c>> = {1} /\ <<c>>[1] = c /\ c.path = p
        BY <4>1 DEF Call
      <4>4. OnTheWay("notifier", p)'
        <5>1. 1 \in DOMAIN task'["notifier"].todo
              /\ task'["notifier"].todo[1].path = p
          BY <4>2, <4>3
        <5> QED BY <5>1 DEF OnTheWay
      <4>5. ~Idle("notifier")' /\ "notifier" \in Scanners
        BY <4>2 DEF Idle, Scanners
      <4> QED BY <3>4, <4>4, <4>5 DEF Noticed
    <3> QED BY <3>2, <3>3, <3>4 DEF Noticed
  <2> QED BY <2>1, <2>2, <2>3
<1> QED BY <1>3, <1>4, <1>5

\* A changed file is looked at.
LEMMA ModifySync ==
  ASSUME TypeInv, InosTyped, KernelTold, EntriesOK, SyncNow, InotifyHandler,
         \A u \in Threads : Idle(u), Skipped' = Skipped, NEW m, EventOwner(m),
         ModifyRead(Append(db[m].path, queue[1].name))
  PROVE  WatchesTrue' /\ EntriesSound' /\ AllNoticed'
<1>1. PICK p : p = Append(db[m].path, queue[1].name)
  OBVIOUS
<1>2. /\ queue[1].mask = "IN_MODIFY" /\ UNCHANGED <<watch, fs>>
      /\ db' = [h \in DOMAIN db |->
                  IF db[h].path = p /\ IsFile(p)
                  THEN [db[h] EXCEPT !.object_size = fs[p].size] ELSE db[h]]
  BY <1>1, InotifyWatches DEF ModifyRead
<1>3. /\ DOMAIN db' = DOMAIN db
      /\ \A h \in DOMAIN db :
           /\ db'[h].path = db[h].path /\ db'[h].parent = db[h].parent
           /\ db'[h].watched = db[h].watched
           /\ db'[h].watch_fd = db[h].watch_fd
           /\ db[h].path = p /\ IsFile(p) => db'[h].object_size = fs[p].size
           /\ db[h].path # p => db'[h].object_size = db[h].object_size
           /\ ~IsFile(p) => db'[h].object_size = db[h].object_size
  <2>1. \A h \in DOMAIN db : db[h] \in DbEntry
    BY DEF TypeInv, EntriesTyped
  <2> QED BY <1>2, <2>1 DEF DbEntry
<1>4. \A h \in DOMAIN db : Watching(h)' = Watching(h)
  BY <1>2, <1>3 DEF Watching
<1>5. WatchesTrue'
  BY <1>3, WatchesRead DEF SyncNow
<1>6. EntriesSound'
  <2> SUFFICES ASSUME NEW g \in DOMAIN db PROVE Sound(g)'
    BY <1>3 DEF EntriesSound
  <2>1. Sound(g) /\ Placed(db, db[g])
    BY DEF SyncNow, EntriesSound, EntriesOK, EntryOK
  <2>2. db[g].path # Home => db[g].parent \in DOMAIN db
    BY <2>1 DEF Placed
  <2>3. /\ db'[g].path = db[g].path /\ db'[g].parent = db[g].parent
        /\ db'[g].watched = db[g].watched /\ db'[g].watch_fd = db[g].watch_fd
        /\ g \in DOMAIN db' /\ (db[g].watched => Watching(g)' = Watching(g))
    BY <1>3, <1>4
  <2>4. db[g].path # Home =>
           /\ db[g].parent \in DOMAIN db'
           /\ db'[db[g].parent].watch_fd = db[db[g].parent].watch_fd
           /\ Watching(db[g].parent)' = Watching(db[g].parent)
    BY <1>3, <1>4, <2>2
  <2>5. \/ db'[g].object_size = fs[db[g].path].size
        \/ /\ db'[g].object_size = db[g].object_size
           /\ queue[1].mask = "IN_MODIFY" /\ IsFile(db[g].path)
              => db[g].path # p
    <3>1. CASE db[g].path = p /\ IsFile(p)
      BY <1>3, <3>1
    <3>2. CASE db[g].path = p /\ ~IsFile(p)
      BY <1>3, <3>2
    <3>3. CASE db[g].path # p
      BY <1>3, <3>3
    <3> QED BY <3>1, <3>2, <3>3
  <2>6. queue[1].mask = "IN_DELETE" => db[g].path # p
    BY <1>2
  <2> QED BY <1>1, <2>1, <2>3, <2>4, <2>5, <2>6, SoundRead DEF SyncNow
<1>7. AllNoticed'
  <2>1. DOMAIN db' \subseteq DOMAIN db /\ DOMAIN db \ DOMAIN db' = {}
    BY <1>3
  <2>2. \A g \in DOMAIN db' : /\ db'[g].path = db[g].path
                              /\ db'[g].watched = db[g].watched
                              /\ db'[g].watch_fd = db[g].watch_fd
                              /\ db[g].watched => Watching(g)' = Watching(g)
    BY <1>3, <1>4
  <2>3. queue[1].mask # "IN_CREATE"
    BY <1>2
  <2> QED BY <2>1, <2>2, <2>3, NoticedRead DEF SyncNow
<1> QED BY <1>5, <1>6, <1>7

\* The entry of a removed object goes, and its watch with it.
LEMMA DeleteSync ==
  ASSUME TypeInv, InosTyped, KernelTold, EntriesOK, SyncNow, InotifyHandler,
         \A u \in Threads : Idle(u), Skipped' = Skipped, NEW m, EventOwner(m),
         NEW h \in DOMAIN db,
         DeleteRead(h, Append(db[m].path, queue[1].name))
  PROVE  WatchesTrue' /\ EntriesSound' /\ AllNoticed'
<1>1. PICK p : p = Append(db[m].path, queue[1].name)
  OBVIOUS
<1>2. /\ queue[1].mask = "IN_DELETE" /\ db[h].path = p
      /\ \A g \in DOMAIN db : db[g].parent = h => g = h
      /\ DOMAIN db' = DOMAIN db \ {h} /\ \A g \in DOMAIN db' : db'[g] = db[g]
      /\ watch' = IF db[h].object_format = ASSOCIATION
                  THEN WatchRemoved(db[h].watch_fd) ELSE watch
  BY <1>1 DEF DeleteRead
<1>3. ASSUME NEW g \in DOMAIN db', db[g].watched
      PROVE  Watching(g)' = Watching(g)
  <2>1. g \in DOMAIN db /\ g # h /\ db'[g] = db[g]
    BY <1>2, <1>3
  <2>2. CASE watch' = watch
    BY <2>1, <2>2 DEF Watching
  <2>3. CASE watch' # watch
    <3>1. PICK w : w = db[h].watch_fd
      OBVIOUS
    <3>2. db[h].object_format = ASSOCIATION /\ watch' = Erase(watch, {w})
      BY <1>2, <2>3, <3>1 DEF WatchRemoved
    <3>3. DOMAIN watch' = DOMAIN watch \ {w} /\ db[h].watched
      <4>1. DOMAIN watch' = DOMAIN watch \ {w}
        BY <3>2, EraseDomain
      <4>2. EntryOK(h)
        BY DEF EntriesOK
      <4> QED BY <3>2, <4>1, <4>2 DEF EntryOK
    <3>4. Watching(g) => db[g].watch_fd # w
      BY <1>3, <2>1, <3>1, <3>3, OwnerOnly DEF SyncNow
    <3> QED BY <2>1, <3>3, <3>4 DEF Watching
  <2> QED BY <2>2, <2>3
<1>4. WatchesTrue'
  BY <1>2, WatchesRead DEF SyncNow
<1>5. EntriesSound'
  <2> SUFFICES ASSUME NEW g \in DOMAIN db' PROVE Sound(g)'
    BY DEF EntriesSound
  <2>1. g \in DOMAIN db /\ g # h /\ db'[g] = db[g] /\ UNCHANGED fs
    BY <1>2, InotifyWatches
  <2>2. Sound(g) /\ Placed(db, db[g])
    BY <2>1 DEF SyncNow, EntriesSound, EntriesOK, EntryOK
  <2>3. db[g].path # Home =>
           /\ db[g].parent \in DOMAIN db'
           /\ db'[db[g].parent].watch_fd = db[db[g].parent].watch_fd
           /\ Watching(db[g].parent)' = Watching(db[g].parent)
    <3>1. SUFFICES ASSUME db[g].path # Home
                   PROVE  /\ db[g].parent \in DOMAIN db'
                          /\ db'[db[g].parent] = db[db[g].parent]
                          /\ Watching(db[g].parent)' = Watching(db[g].parent)
      OBVIOUS
    <3>2. db[g].parent \in DOMAIN db /\ db[db[g].parent].watched
      BY <2>2, <3>1 DEF Placed
    <3>3. db[g].parent \in DOMAIN db'
      BY <1>2, <2>1, <3>2
    <3> QED BY <1>2, <1>3, <3>2, <3>3
  <2>4. db[g].path # p
    BY <1>2, <2>1 DEF EntriesOK
  <2>5. /\ db'[g].path = db[g].path /\ db'[g].parent = db[g].parent
        /\ db'[g].watched = db[g].watched /\ db'[g].watch_fd = db[g].watch_fd
        /\ db'[g].object_size = db[g].object_size
        /\ (db[g].watched => Watching(g)' = Watching(g))
    BY <1>3, <2>1
  <2> QED BY <1>1, <2>1, <2>2, <2>3, <2>4, <2>5, SoundRead DEF SyncNow
<1>6. AllNoticed'
  <2>1. DOMAIN db' \subseteq DOMAIN db /\ queue[1].mask # "IN_CREATE"
    BY <1>2
  <2>2. \A g \in DOMAIN db' : /\ db'[g].path = db[g].path
                              /\ db'[g].watched = db[g].watched
                              /\ db'[g].watch_fd = db[g].watch_fd
                              /\ db[g].watched => Watching(g)' = Watching(g)
    BY <1>2, <1>3
  <2>3. \A g \in DOMAIN db \ DOMAIN db' :
           /\ queue[1].mask = "IN_DELETE"
           /\ db[g].path = Append(db[m].path, queue[1].name)
    BY <1>1, <1>2
  <2> QED BY <2>1, <2>2, <2>3, NoticedRead DEF SyncNow
<1> QED BY <1>4, <1>5, <1>6

\* The removal of an object nobody knew changes nothing.
LEMMA ForeignSync ==
  ASSUME TypeInv, InosTyped, KernelTold, EntriesOK, SyncNow, InotifyHandler,
         \A u \in Threads : Idle(u), Skipped' = Skipped, NEW m, EventOwner(m),
         ForeignDelete(Append(db[m].path, queue[1].name))
  PROVE  WatchesTrue' /\ EntriesSound' /\ AllNoticed'
<1>1. PICK p : p = Append(db[m].path, queue[1].name)
  OBVIOUS
<1>2. /\ queue[1].mask = "IN_DELETE" /\ UNCHANGED <<db, watch, fs>>
      /\ \A h \in DOMAIN db : db[h].path # p
  BY <1>1, InotifyWatches DEF ForeignDelete, HandlesAt
<1>3. \A h : Watching(h)' = Watching(h)
  BY <1>2 DEF Watching
<1>4. WatchesTrue'
  BY <1>2, WatchesRead DEF SyncNow
<1>5. EntriesSound'
  <2> SUFFICES ASSUME NEW g \in DOMAIN db PROVE Sound(g)'
    BY <1>2 DEF EntriesSound
  <2>1. Sound(g) /\ Placed(db, db[g])
    BY DEF SyncNow, EntriesSound, EntriesOK, EntryOK
  <2>2. db[g].path # Home => db[g].parent \in DOMAIN db
    BY <2>1 DEF Placed
  <2> QED BY <1>1, <1>2, <1>3, <2>1, <2>2, SoundRead DEF SyncNow
<1>6. AllNoticed'
  BY <1>2, <1>3, NoticedRead DEF SyncNow
<1> QED BY <1>4, <1>5, <1>6

LEMMA InotifySync ==
  ASSUME TypeInv, InosTyped, KernelTold, OneScan, EntriesOK, SyncNow,
         InotifyHandler, ub' = {}
  PROVE  SyncNow'
<1>1. PICK m : /\ EventOwner(m)
               /\ LET p == Append(db[m].path, queue[1].name) IN
                  \/ CreateRead(m, p) \/ ModifyRead(p) \/ ForeignDelete(p)
                  \/ \E h \in DOMAIN db : DeleteRead(h, p)
  BY InotifyDoes
<1>2. /\ \A u \in Threads : Idle(u)
      /\ OthersStay("notifier") /\ Skipped' = Skipped
  BY InotifyFrame
<1>3. WatchesTrue' /\ EntriesSound' /\ AllNoticed'
  BY <1>1, <1>2, CreateSync, ModifySync, ForeignSync, DeleteSync
<1>4. CallsSound'
  <2>1. task'["notifier"].pc \in {"idle", "entry"}
    BY <1>1, <1>2 DEF CreateRead, ModifyRead, ForeignDelete, DeleteRead, Idle,
                      Threads
  <2>2. task'["daemon"].pc = "idle"
    BY <1>2 DEF OthersStay, Idle, Threads
  <2> QED BY <2>1, <2>2 DEF CallsSound, CurSound, Scanners
<1> QED BY <1>3, <1>4 DEF SyncNow

-----------------------------------------------------------------------------
(* Programs change the tree.                                               *)

\* The kernel says more than before, and watches no more than before.
MoreTold ==
  /\ UNCHANGED <<db, task, nextWd>>
  /\ DOMAIN watch' \subseteq DOMAIN watch
  /\ \A w \in DOMAIN watch' : watch'[w] = watch[w]
  /\ \A i \in DOMAIN queue : i \in DOMAIN queue' /\ queue'[i] = queue[i]

LEMMA MoreToldKeeps ==
  ASSUME MoreTold
  PROVE  /\ \A d : Watching(d)' => Watching(d)
         /\ \A mask, x : Pends(mask, x) => Pends(mask, x)'
         /\ \A x : Excused(x) => Excused(x)'
         /\ \A p, d : InDir(p, d)' => InDir(p, d)
         /\ \A p, d : Noticed(p, d) => Noticed(p, d)'
<1>1. /\ UNCHANGED <<db, task>> /\ DOMAIN watch' \subseteq DOMAIN watch
      /\ \A i \in DOMAIN queue : i \in DOMAIN queue' /\ queue'[i] = queue[i]
  BY DEF MoreTold
<1>2. \A d : Watching(d)' => Watching(d)
  BY <1>1 DEF Watching
<1>3. ASSUME NEW mask, NEW x, Pends(mask, x)
      PROVE  Pends(mask, x)'
  BY <1>1, <1>3 DEF Pends
<1>4. ASSUME NEW x, Excused(x)
      PROVE  Excused(x)'
  BY <1>1, <1>2, <1>3, <1>4 DEF Excused
<1>5. \A p, d : InDir(p, d)' => InDir(p, d)
  <2>1. Skipped' = Skipped
    BY <1>1 DEF Skipped
  <2> QED BY <1>1, <1>2, <2>1 DEF InDir
<1>6. ASSUME NEW p, NEW d, Noticed(p, d)
      PROVE  Noticed(p, d)'
  <2>1. CASE Known(p) \/ Told(p, d)
    BY <1>1, <2>1 DEF Noticed, Known, Told
  <2>2. CASE ~Known(p) /\ ~Told(p, d)
    <3>1. \/ \E t \in Scanners : ~Idle(t) /\ OnTheWay(t, p)
          \/ \E t \in Scanners : task[t].pc = "list" /\ task[t].handle = d
      BY <1>6, <2>2 DEF Noticed
    <3> QED BY <1>1, <3>1 DEF Noticed, OnTheWay, Pending, Idle
  <2> QED BY <2>1, <2>2
<1> QED BY <1>2, <1>3, <1>4, <1>5, <1>6

\* What a change of the tree has to say, so that the database still agrees.
LEMMA SyncTold ==
  ASSUME MoreTold, EntriesOK, CallsNew, SyncNow,
         \A q, w : WatchOf(q, w) => WatchOf(q, w)',
         \A x : Placed(db, x) /\ IsDirectory(x.path)
                => Excused(x)' \/ IsDirectory(x.path)',
         \A x, w : Placed(db, x) /\ WatchOf(x.path, w) /\ TrueDir(x.path, w)
                   => Excused(x)' \/ TrueDir(x.path, w)',
         \A x, z : Placed(db, x) /\ x.path # Home /\ TrueFile(x, z)
                   => Excused(x)' \/ TrueFile(x, z)',
         \A p \in DOMAIN fs' \ DOMAIN fs : \A d \in DOMAIN db :
           InDir(p, d) => Told(p, d)',
         \A x : Placed(db, x) /\ x.path # Home /\ IsDirectory(x.path)'
                => \/ IsDirectory(x.path)
                   \/ ~Watching(x.parent)' \/ Pends("IN_CREATE", x)'
  PROVE  SyncNow'
<1>1. UNCHANGED <<db, task>>
  BY DEF MoreTold
<1>2. WatchesTrue'
  BY <1>1 DEF SyncNow, WatchesTrue
<1>3. EntriesSound'
  <2> SUFFICES ASSUME NEW h \in DOMAIN db PROVE Sound(h)'
    BY <1>1 DEF EntriesSound
  <2>1. PICK x : x = db[h] /\ x = db'[h]
    BY <1>1
  <2>2. /\ Placed(db, x) /\ (~x.watched => x.path # Home)
        /\ (x.watched => WatchOf(x.path, x.watch_fd))
    BY <2>1 DEF EntriesOK, EntryOK, SyncNow, WatchesTrue
  <2>3. \/ Excused(x)
        \/ x.watched /\ TrueDir(x.path, x.watch_fd)
        \/ ~x.watched /\ TrueFile(x, x.object_size)
    BY <2>1 DEF SyncNow, EntriesSound, Sound
  <2>4. \/ Excused(x)'
        \/ x.watched /\ TrueDir(x.path, x.watch_fd)'
        \/ ~x.watched /\ TrueFile(x, x.object_size)'
    BY <2>2, <2>3, MoreToldKeeps
  <2> QED BY <2>1, <2>4 DEF Sound
<1>4. AllNoticed'
  BY <1>1, MoreToldKeeps DEF SyncNow, AllNoticed, Noticed
<1>5. ASSUME NEW t \in Scanners
      PROVE  CurSound(t)'
  <2>1. PICK c : c = task[t].cur /\ c = task'[t].cur
    BY <1>1
  <2>2. CurSound(t) /\ task'[t].pc = task[t].pc /\ task'[t].tmp = task[t].tmp
    BY <1>1 DEF SyncNow, CallsSound
  <2>3. Pending(t) => Placed(db, c)
    BY <2>1 DEF CallsNew, CurNew, New, CallOK, Pending, Idle
  <2>4. CASE task[t].pc = "watch"
    <3>1. Placed(db, c) /\ (Excused(c) \/ IsDirectory(c.path))
      BY <2>1, <2>2, <2>3, <2>4 DEF CurSound, Pending
    <3>2. Excused(c)' \/ IsDirectory(c.path)'
      BY <3>1, MoreToldKeeps
    <3> QED BY <2>1, <2>2, <2>4, <3>2 DEF CurSound
  <2>5. CASE task[t].pc = "insert_dir"
    <3>1. PICK w : w = task[t].tmp
      OBVIOUS
    <3>2. /\ Placed(db, c) /\ WatchOf(c.path, w)
          /\ Excused(c) \/ TrueDir(c.path, w)
      BY <2>1, <2>2, <2>3, <2>5, <3>1 DEF CurSound, Pending
    <3>3. WatchOf(c.path, w)' /\ (Excused(c)' \/ TrueDir(c.path, w)')
      BY <3>2, MoreToldKeeps
    <3> QED BY <2>1, <2>2, <2>5, <3>1, <3>3 DEF CurSound
  <2>6. CASE task[t].pc = "stat"
    <3>1. /\ Placed(db, c) /\ c.path # Home
          /\ IsDirectory(c.path) => ~Watching(c.parent) \/ Pends("IN_CREATE", c)
      BY <2>1, <2>2, <2>3, <2>6 DEF CurSound, Pending, CallsNew, CurNew, Idle
    <3>2. IsDirectory(c.path)' => ~Watching(c.parent)' \/ Pends("IN_CREATE", c)'
      BY <3>1, MoreToldKeeps
    <3> QED BY <2>1, <2>2, <2>6, <3>2 DEF CurSound
  <2>7. CASE task[t].pc = "insert_file"
    <3>1. PICK z : z = c.size
      OBVIOUS
    <3>2. Placed(db, c) /\ c.path # Home /\ (Excused(c) \/ TrueFile(c, z))
      BY <2>1, <2>2, <2>3, <2>7, <3>1 DEF CurSound, Pending, CallsNew, CurNew, Idle
    <3>3. Excused(c)' \/ TrueFile(c, z)'
      BY <3>2, MoreToldKeeps
    <3> QED BY <2>1, <2>2, <2>7, <3>1, <3>3 DEF CurSound
  <2>8. CASE task[t].pc \notin {"watch", "insert_dir", "stat", "insert_file"}
    BY <2>2, <2>8 DEF CurSound
  <2> QED BY <2>4, <2>5, <2>6, <2>7, <2>8
<1> QED BY <1>2, <1>3, <1>4, <1>5 DEF SyncNow, CallsSound

\* What happens in a directory that is watched is said to its entry.
LEMMA SaidTo ==
  ASSUME TypeInv, KernelTold, WatchesTrue, NEW p \in Paths, Len(p) > 1, NEW mask,
         queue' = Notified(mask, p), NEW d \in DOMAIN db, db[d].watched,
         Watching(d), db[d].path = Front(p)
  PROVE  \E i \in DOMAIN queue' :
           queue'[i] = EventOf(db[d].watch_fd, mask, p)
<1>1. PICK w : w = db[d].watch_fd
  OBVIOUS
<1>2. WatchOf(Front(p), w) /\ w \in DOMAIN watch
  BY <1>1 DEF WatchesTrue, Watching
<1>3. w \in WatchersOf(p)
  BY <1>2 DEF WatchOf, WatchersOf
<1>4. \A v \in WatchersOf(p) :
        \E i \in DOMAIN queue' : queue'[i] = EventOf(v, mask, p)
  BY NotifiedSays DEF TypeInv, KernelTold
<1> QED BY <1>1, <1>3, <1>4

\* An operation that only adds to the queue, or drops watches too.
LEMMA ToldMore ==
  ASSUME TypeInv, KernelTold, NEW p \in Paths, NEW mask,
         queue' = Notified(mask, p), UNCHANGED <<db, task, nextWd>>,
         DOMAIN watch' \subseteq DOMAIN watch,
         \A w \in DOMAIN watch' : watch'[w] = watch[w]
  PROVE  MoreTold
<1>1. \A i \in DOMAIN queue : i \in DOMAIN queue' /\ queue'[i] = queue[i]
  BY NotifiedSays DEF TypeInv, KernelTold
<1> QED BY <1>1 DEF MoreTold

LEMMA TreeCreateSync ==
  ASSUME TypeInv, KernelTold, EntriesOK, CallsNew, SyncNow,
         UNCHANGED <<db, task>>, NEW p \in Paths, p \notin DOMAIN fs, p # <<>>,
         IsDirectory(Front(p)), NEW k, FsCreate(p, k)
  PROVE  SyncNow'
<1>1. UNCHANGED <<watch, nextWd>> /\ queue' = Notified("IN_CREATE", p)
  BY DEF FsCreate
<1>2. /\ DOMAIN fs' = DOMAIN fs \cup {p}
      /\ \A q \in DOMAIN fs : fs'[q] = fs[q]
  BY DEF FsCreate, Put
<1>3. MoreTold
  BY <1>1, ToldMore
<1>4. Len(p) \in Nat /\ Len(p) > 0
  BY FrontShorter
<1>5. ASSUME NEW d \in DOMAIN db, db[d].watched, Watching(d),
             db[d].path = Front(p)
      PROVE  \E i \in DOMAIN queue' :
               queue'[i] = EventOf(db[d].watch_fd, "IN_CREATE", p)
  <2>1. Len(p) > 1
    <3>1. /\ Len(Front(p)) = Len(p) - 1
          /\ Front(p) \in Paths /\ Front(p) # <<>>
      BY <1>5, FrontShorter, EntryFields, FrontPath
    <3>2. Len(Front(p)) > 0
      BY <3>1, FrontShorter
    <3> QED BY <1>4, <3>1, <3>2
  <2> QED BY <1>1, <1>5, <2>1, SaidTo DEF SyncNow
<1>6. \A q, w : WatchOf(q, w) => WatchOf(q, w)'
  BY <1>1, <1>2 DEF WatchOf
<1>7. \A q : IsDirectory(q) => IsDirectory(q)'
  BY <1>2 DEF IsDirectory
<1>8. \A x, w : TrueDir(x.path, w) => TrueDir(x.path, w)'
  BY <1>1, <1>7 DEF TrueDir
<1>9. ASSUME NEW x, NEW z, TrueFile(x, z)
      PROVE  TrueFile(x, z)'
  <2>1. Pends("IN_MODIFY", x) => Pends("IN_MODIFY", x)'
    BY <1>3, MoreToldKeeps
  <2> QED BY <1>2, <1>9, <2>1 DEF TrueFile, IsFile
<1>10. ASSUME NEW q \in DOMAIN fs' \ DOMAIN fs, NEW d \in DOMAIN db, InDir(q, d)
       PROVE  Told(q, d)'
  BY <1>2, <1>5, <1>10 DEF InDir, Told
<1>11. ASSUME NEW x, Placed(db, x), x.path # Home, IsDirectory(x.path)',
              ~IsDirectory(x.path), Watching(x.parent)'
       PROVE  Pends("IN_CREATE", x)'
  <2>1. x.path = p
    BY <1>2, <1>11 DEF IsDirectory
  <2>2. /\ x.parent \in DOMAIN db /\ db[x.parent].watched
        /\ db[x.parent].path = Front(p) /\ Watching(x.parent)
    BY <1>1, <1>11, <2>1 DEF Placed, Watching
  <2> QED BY <1>5, <2>1, <2>2 DEF Pends
<1> QED BY <1>3, <1>6, <1>7, <1>8, <1>9, <1>10, <1>11, SyncTold

LEMMA TreeResizeSync ==
  ASSUME TypeInv, KernelTold, EntriesOK, CallsNew, SyncNow,
         UNCHANGED <<db, task>>, NEW p \in DOMAIN fs, NEW z0, FsResize(p, z0)
  PROVE  SyncNow'
<1>1. /\ UNCHANGED <<watch, nextWd>> /\ queue' = Notified("IN_MODIFY", p)
      /\ p \in Paths
  BY DEF FsResize, TypeInv, KernelTyped, TreeTyped
<1>2. /\ DOMAIN fs' = DOMAIN fs
      /\ \A q \in DOMAIN fs : fs'[q].ino = fs[q].ino /\ fs'[q].kind = fs[q].kind
      /\ \A q \in DOMAIN fs : q # p => fs'[q] = fs[q]
  BY DEF FsResize, TypeInv, KernelTyped, TreeTyped, Nodes
<1>3. MoreTold
  BY <1>1, ToldMore
<1>4. \A q, w : WatchOf(q, w) => WatchOf(q, w)'
  BY <1>1, <1>2 DEF WatchOf
<1>5. \A q : IsDirectory(q)' <=> IsDirectory(q)
  BY <1>2 DEF IsDirectory
<1>6. \A x, w : TrueDir(x.path, w) => TrueDir(x.path, w)'
  BY <1>1, <1>5 DEF TrueDir
<1>7. ASSUME NEW x, NEW z, Placed(db, x), x.path # Home, TrueFile(x, z)
      PROVE  Excused(x)' \/ TrueFile(x, z)'
  <2>1. Pends("IN_MODIFY", x) => Pends("IN_MODIFY", x)'
    BY <1>3, MoreToldKeeps
  <2>2. CASE x.path # p \/ Pends("IN_MODIFY", x)
    BY <1>2, <1>7, <2>1, <2>2 DEF TrueFile, IsFile
  <2>3. CASE x.path = p /\ Watching(x.parent)
    <3>1. /\ x.parent \in DOMAIN db /\ db[x.parent].watched
          /\ db[x.parent].path = Front(p) /\ p # <<>>
      BY <1>7, <2>3 DEF Placed
    <3>2. Len(p) > 1
      <4>1. /\ Len(Front(p)) = Len(p) - 1 /\ Len(p) \in Nat
            /\ Front(p) \in Paths /\ Front(p) # <<>>
        BY <1>1, <3>1, FrontShorter, EntryFields, FrontPath
      <4>2. Len(Front(p)) > 0
        BY <4>1, FrontShorter
      <4> QED BY <4>1, <4>2
    <3>3. Pends("IN_MODIFY", x)'
      <4>1. \E i \in DOMAIN queue' :
              queue'[i] = EventOf(db[x.parent].watch_fd, "IN_MODIFY", p)
        BY <1>1, <2>3, <3>1, <3>2, SaidTo DEF SyncNow
      <4> QED BY <2>3, <4>1 DEF Pends
    <3> QED BY <1>2, <1>7, <3>3 DEF TrueFile, IsFile
  <2>4. CASE ~Watching(x.parent)
    BY <1>1, <1>7, <2>4 DEF Excused, Watching
  <2> QED BY <2>2, <2>3, <2>4
<1>8. DOMAIN fs' \ DOMAIN fs = {}
  BY <1>2
<1> QED BY <1>3, <1>4, <1>5, <1>6, <1>7, <1>8, SyncTold

LEMMA TreeRemoveSync ==
  ASSUME TypeInv, KernelTold, EntriesOK, CallsNew, SyncNow,
         UNCHANGED <<db, task>>, NEW p \in DOMAIN fs, Len(p) > 1, FsRemove(p)
  PROVE  SyncNow'
<1>1. /\ UNCHANGED nextWd /\ queue' = Notified("IN_DELETE", p) /\ p \in Paths
      /\ fs' = Erase(fs, {p}) /\ watch' = WatchWithout(fs[p].ino)
  BY DEF FsRemove, TypeInv, KernelTyped, TreeTyped
<1>2. /\ DOMAIN fs' = DOMAIN fs \ {p}
      /\ \A q \in DOMAIN fs \ {p} : fs'[q] = fs[q]
  BY <1>1, ErasedKeeps
<1>3. PICK K : K = {w \in DOMAIN watch : watch[w] = fs[p].ino}
  OBVIOUS
<1>4. /\ DOMAIN watch' = DOMAIN watch \ K
      /\ \A w \in DOMAIN watch \ K : watch'[w] = watch[w]
  <2>1. watch' = Erase(watch, K)
    BY <1>1, <1>3 DEF WatchWithout
  <2> QED BY <2>1, ErasedKeeps
<1>5. MoreTold
  BY <1>1, <1>4, ToldMore
<1>6. ASSUME NEW x, Placed(db, x), x.path = p
      PROVE  Excused(x)'
  <2>1. p # Home
    BY HomeIsShort
  <2>2. /\ x.parent \in DOMAIN db /\ db[x.parent].watched
        /\ db[x.parent].path = Front(p)
    BY <1>6, <2>1 DEF Placed
  <2>3. CASE ~Watching(x.parent)
    <3>1. ~Watching(x.parent)'
      BY <1>5, <2>3, MoreToldKeeps
    <3> QED BY <1>6, <2>1, <3>1 DEF Excused
  <2>4. CASE Watching(x.parent)
    <3>1. \E i \in DOMAIN queue' :
            queue'[i] = EventOf(db[x.parent].watch_fd, "IN_DELETE", p)
      BY <1>1, <2>2, <2>4, SaidTo DEF SyncNow
    <3>2. Pends("IN_DELETE", x)'
      BY <1>6, <3>1 DEF Pends
    <3> QED BY <1>6, <2>1, <3>2 DEF Excused
  <2> QED BY <2>3, <2>4
<1>7. ASSUME NEW q, NEW w, WatchOf(q, w)
      PROVE  WatchOf(q, w)'
  <2>1. w \in DOMAIN watch' => q # p
    BY <1>3, <1>4, <1>7 DEF WatchOf
  <2> QED BY <1>1, <1>2, <1>4, <1>7, <2>1 DEF WatchOf
<1>8. ASSUME NEW x, Placed(db, x), IsDirectory(x.path)
      PROVE  Excused(x)' \/ IsDirectory(x.path)'
  BY <1>2, <1>6, <1>8 DEF IsDirectory
<1>9. ASSUME NEW x, NEW w, Placed(db, x), WatchOf(x.path, w),
             TrueDir(x.path, w)
      PROVE  Excused(x)' \/ TrueDir(x.path, w)'
  <2>1. CASE x.path = p
    BY <1>6, <1>9, <2>1
  <2>2. CASE x.path # p
    <3>1. IsDirectory(x.path)'
      BY <1>2, <1>9, <2>2 DEF TrueDir, IsDirectory
    <3>2. ASSUME w \in DOMAIN watch PROVE w \in DOMAIN watch'
      <4>1. x.path \in DOMAIN fs /\ watch[w] = fs[x.path].ino
        BY <1>9, <3>2 DEF WatchOf
      <4>2. fs[x.path].ino # fs[p].ino
        BY <2>2, <4>1 DEF KernelTold, InosApart
      <4> QED BY <1>3, <1>4, <3>2, <4>1, <4>2
    <3> QED BY <1>9, <3>1, <3>2 DEF TrueDir
  <2> QED BY <2>1, <2>2
<1>10. ASSUME NEW x, NEW z, Placed(db, x), TrueFile(x, z)
       PROVE  Excused(x)' \/ TrueFile(x, z)'
  <2>1. CASE x.path = p
    BY <1>6, <1>10, <2>1
  <2>2. CASE x.path # p
    <3>1. Pends("IN_MODIFY", x) => Pends("IN_MODIFY", x)'
      BY <1>5, MoreToldKeeps
    <3> QED BY <1>2, <1>10, <2>2, <3>1 DEF TrueFile, IsFile
  <2> QED BY <2>1, <2>2
<1>11. \A q : IsDirectory(q)' => IsDirectory(q)
  BY <1>2 DEF IsDirectory
<1>12. DOMAIN fs' \ DOMAIN fs = {}
  BY <1>2
<1> QED BY <1>5, <1>7, <1>8, <1>9, <1>10, <1>11, <1>12, SyncTold

LEMMA TreeSync ==
  ASSUME TypeInv, KernelTold, EntriesOK, CallsNew, SyncNow,
         UNCHANGED <<db, task>>, TreeStep
  PROVE  SyncNow'
<1>1. ASSUME NEW p \in Paths, NEW k, p \notin DOMAIN fs, p # <<>>,
             IsDirectory(Front(p)), FsCreate(p, k)
      PROVE  SyncNow'
  BY <1>1, TreeCreateSync
<1>2. ASSUME NEW p \in DOMAIN fs, NEW z, FsResize(p, z)
      PROVE  SyncNow'
  BY <1>2, TreeResizeSync
<1>3. ASSUME NEW p \in DOMAIN fs, Len(p) > 1, FsRemove(p)
      PROVE  SyncNow'
  BY <1>3, TreeRemoveSync
<1> QED BY <1>1, <1>2, <1>3 DEF TreeStep

\* Every step keeps the agreement.
LEMMA SyncStep ==
  ASSUME LocalOnly, TypeInv, HandlesFreshInv, EntriesIssued, InosTyped,
         KernelTold, OneScan, PathsInv, SyncInv, DatabaseNext
  PROVE  SyncInv'
<1> SUFFICES ASSUME ub' = {}, alive'
             PROVE  SyncNow'
  BY DEF SyncInv
<1>1. alive
  BY LocalOnlyStep
<1>2. ASSUME NEW t \in Scanners, AddEntryStep(t)
      PROVE  SyncNow'
  <2>1. t \in Threads /\ ub \subseteq ub' /\ ~Idle(t) /\ OthersStay(t)
    BY <1>2, AddEntryFrame DEF Scanners, Threads
  <2>2. ub = {}
    BY <2>1
  <2>3. EntriesOK /\ InOrder(t) /\ SyncNow
    BY <1>1, <2>1, <2>2 DEF PathsInv, CallsNew, InOrder, SyncInv
  <2>4. Skipped \subseteq Skipped'
    BY <1>2, <2>1, SkippedGrows
  <2>5. CASE WatchDirectory(t) \/ WatchRefused(t) \/ InsertDirectory(t)
    BY <2>1, <2>2, <2>3, <2>4, <2>5, WatchDirectorySync, WatchRefusedSync,
       InsertDirectorySync
  <2>6. CASE ListDirectory(t) \/ ListingRefused(t)
    BY <2>1, <2>2, <2>3, <2>4, <2>6, ListDirectorySync, ListingRefusedSync
  <2> QED BY <1>2, <2>1, <2>2, <2>3, <2>4, <2>5, <2>6, ReadCounterSync,
             StoreCounterSync, StatFileSync, InsertFileSync DEF AddEntryStep
<1>3. CASE InotifyHandler
  <2>1. ub = {}
    BY <1>3, InotifyFrame
  <2>2. EntriesOK /\ SyncNow
    BY <1>1, <2>1 DEF PathsInv, SyncInv
  <2> QED BY <1>3, <2>2, InotifySync
<1>4. CASE LocalStep(Roots) /\ UNCHANGED dbVars
  <2>1. UNCHANGED <<db, task, ub, alive>>
    BY <1>4 DEF dbVars
  <2>2. EntriesOK /\ CallsNew /\ SyncNow
    BY <1>1, <2>1 DEF PathsInv, SyncInv
  <2>3. TreeStep
    BY <1>4, LocalTreeStep DEF TypeInv
  <2> QED BY <2>1, <2>2, <2>3, TreeSync
<1> QED BY <1>2, <1>3, <1>4, LocalOnlyStep

-----------------------------------------------------------------------------
(* The start, and what the agreement says when everything is quiet.        *)

LEMMA KernelToldInit == DatabaseInit => KernelTold /\ InosTyped
<1> SUFFICES ASSUME DatabaseInit PROVE KernelTold /\ InosTyped
  OBVIOUS
<1>1. /\ fs = InitialFs /\ watch = EmptyMap /\ queue = <<>>
      /\ nextIno = Len(InitialTree) + 1 /\ nextWd = 1
  BY DEF DatabaseInit, FsInit
<1>2. DOMAIN watch = {} /\ DOMAIN queue = {}
  BY <1>1 DEF EmptyMap
<1>3. /\ Len(InitialTree) \in Nat
      /\ DOMAIN InitialTree = 1 .. Len(InitialTree)
  BY DatabaseAssumption, LenProperties
<1>4. ASSUME NEW p \in DOMAIN fs
      PROVE  /\ fs[p].ino \in DOMAIN InitialTree
             /\ InitialTree[fs[p].ino][1] = p
  <2>1. PICK j \in DOMAIN InitialTree : InitialTree[j][1] = p
    BY <1>1, <1>4 DEF InitialFs
  <2>2. PICK i : i = CHOOSE k \in DOMAIN InitialTree : InitialTree[k][1] = p
    OBVIOUS
  <2>3. i \in DOMAIN InitialTree /\ InitialTree[i][1] = p
    BY <2>1, <2>2
  <2>4. fs[p].ino = i
    BY <1>1, <1>4, <2>2 DEF InitialFs
  <2> QED BY <2>3, <2>4
<1>5. InosApart
  <2>1. \A p, q \in DOMAIN fs : fs[p].ino = fs[q].ino => p = q
    BY <1>4
  <2>2. \A p \in DOMAIN fs : fs[p].ino < nextIno
    BY <1>1, <1>3, <1>4
  <2> QED BY <2>1, <2>2 DEF InosApart
<1>6. WatchesApart /\ QueueBelow /\ EventsOrdered /\ InosTyped
  BY <1>1, <1>2 DEF WatchesApart, QueueBelow, EventsOrdered, WatchersOf,
                    InosTyped
<1> QED BY <1>5, <1>6 DEF KernelTold

LEMMA ScanInit ==
  DatabaseInit => EntriesIssued /\ OneScan /\ PathsInv /\ SyncInv
<1> SUFFICES ASSUME DatabaseInit
             PROVE  EntriesIssued /\ OneScan /\ PathsInv /\ SyncInv
  OBVIOUS
<1>1. PICK c : c = Call("root", Home, 0, MTP_STORAGE_FIXED_RAM, UNDEFINED, 0)
  OBVIOUS
<1>2. /\ db = EmptyMap /\ queue = <<>>
      /\ task = [t \in Threads |->
                   IF t # "daemon" THEN IdleTask
                   ELSE [IdleTask EXCEPT !.pc = "entry", !.todo = <<c>>]]
  BY <1>1 DEF DatabaseInit, FsInit, DbInit
<1>3. DOMAIN db = {}
  BY <1>2 DEF EmptyMap
<1>4. /\ task["notifier"].pc = "idle" /\ task["server"].pc = "idle"
      /\ task["daemon"].pc = "entry" /\ task["daemon"].todo = <<c>>
  BY <1>2 DEF IdleTask, Threads
<1>5. EntriesIssued /\ OneScan
  BY <1>2, <1>3, <1>4 DEF EntriesIssued, OneScan, Idle
<1>6. New(db, c)
  <2>1. /\ c.path = Home /\ c.parent = 0 /\ c.kind = "root"
        /\ c.storage = MTP_STORAGE_FIXED_RAM
    BY <1>1 DEF Call
  <2>2. 0 # MTP_PARENT_ROOT
    BY DEF MTP_PARENT_ROOT
  <2> QED BY <1>3, <2>1, <2>2, HomeIs DEF New, CallOK, Placed
<1>7. PathsInv
  <2>1. EntriesOK
    BY <1>3 DEF EntriesOK
  <2>2. DOMAIN <<c>> = {1} /\ <<c>>[1] = c
    OBVIOUS
  <2>3. TodoNew("daemon")
    <3>1. \A i \in DOMAIN task["daemon"].todo :
            i = 1 /\ New(db, task["daemon"].todo[i])
      BY <1>4, <1>6, <2>2
    <3> QED BY <3>1 DEF TodoNew
  <2>4. CurNew("daemon") /\ Listed("daemon")
    BY <1>4 DEF CurNew, Listed, Pending
  <2> QED BY <1>4, <2>1, <2>3, <2>4 DEF PathsInv, CallsNew, Scanners, Idle
<1>8. SyncInv
  <2>1. WatchesTrue /\ AllNoticed /\ EntriesSound
    BY <1>3 DEF WatchesTrue, AllNoticed, EntriesSound
  <2>2. CallsSound
    BY <1>4 DEF CallsSound, CurSound, Scanners
  <2> QED BY <2>1, <2>2 DEF SyncInv, SyncNow
<1> QED BY <1>5, <1>7, <1>8

LEMMA LocalInit == DatabaseInit => LocalInv
BY TypeInit, FreshInit, KernelToldInit, ScanInit DEF LocalInv

\* A step that touches neither the map, the tree nor the threads.
LEMMA LocalInvSame ==
  ASSUME LocalInv, TypeInv', HandlesFreshInv', alive' => alive,
         UNCHANGED <<fs, watch, queue, nextIno, nextWd>>,
         UNCHANGED <<db, task, issued, ub>>
  PROVE  LocalInv'
<1>1. KernelTold' /\ InosTyped' /\ EntriesIssued' /\ OneScan'
  BY DEF LocalInv, KernelTold, InosTyped, InosApart, WatchesApart,
         QueueBelow, EventsOrdered, Recreated, WatchersOf, EntriesIssued,
         OneScan, Idle
<1>2. PathsInv'
  BY DEF LocalInv, PathsInv, EntriesOK, EntryOK, CallsNew, TodoNew, CurNew,
         Listed, Pending, Idle
<1>3. SyncInv'
  <2> SUFFICES ASSUME ub = {}, alive PROVE SyncNow'
    BY DEF SyncInv
  <2>1. SyncNow
    BY DEF LocalInv, SyncInv
  <2>2. WatchesTrue' /\ EntriesSound'
    BY <2>1 DEF SyncNow, WatchesTrue, WatchOf, EntriesSound, Sound, Excused,
                Watching, Pends, TrueDir, TrueFile, IsDirectory, IsFile
  <2>3. CallsSound'
    <3> SUFFICES ASSUME NEW t \in Scanners PROVE CurSound(t)'
      BY DEF CallsSound
    <3>1. CurSound(t)
      BY <2>1 DEF SyncNow, CallsSound
    <3> QED BY <3>1 DEF CurSound, WatchOf, Excused, Watching, Pends, TrueDir,
                        TrueFile, IsDirectory, IsFile
  <2>4. AllNoticed'
    BY <2>1 DEF SyncNow, AllNoticed, InDir, Watching, Noticed, Known, Told,
                OnTheWay, Pending, Idle, Skipped
  <2> QED BY <2>2, <2>3, <2>4 DEF SyncNow
<1> QED BY <1>1, <1>2, <1>3 DEF LocalInv

LEMMA LocalInvKept ==
  ASSUME LocalInv, UNCHANGED databaseVars
  PROVE  LocalInv'
<1>1. /\ UNCHANGED <<fs, watch, queue, nextIno, nextWd>>
      /\ UNCHANGED <<db, task, issued, ub, alive>>
  BY DEF databaseVars, fsVars, dbVars
<1>2. TypeInv' /\ HandlesFreshInv'
  BY TypeStep, FreshStep DEF LocalInv
<1> QED BY <1>1, <1>2, LocalInvSame

LEMMA LocalInvStep ==
  ASSUME LocalOnly, LocalInv, [DatabaseNext]_databaseVars
  PROVE  LocalInv'
<1>1. CASE DatabaseNext
  <2>1. TypeInv' /\ HandlesFreshInv'
    BY TypeStep, FreshStep DEF LocalInv
  <2>2. EntriesIssued' /\ OneScan' /\ PathsInv'
    BY <1>1, EntriesIssuedLocally, OneScanStep, PathsStep DEF LocalInv
  <2>3. KernelTold' /\ InosTyped'
    BY <1>1, KernelToldStep DEF LocalInv, TypeInv
  <2>4. SyncInv'
    BY <1>1, SyncStep DEF LocalInv
  <2> QED BY <2>1, <2>2, <2>3, <2>4 DEF LocalInv
<1>2. CASE UNCHANGED databaseVars
  BY <1>2, LocalInvKept
<1> QED BY <1>1, <1>2

\* Nothing is left to do, and nothing undefined happened: every directory that
\* is reported is watched, and every entry in one is what the tree holds.
LEMMA QuietTruth ==
  ASSUME LocalInv, Quiescent, ub = {}
  PROVE  /\ EntriesOK /\ AllNoticed
         /\ \A d \in DOMAIN db : Reported(d) => Watching(d)
         /\ \A h \in DOMAIN db : Followed(db[h].path) =>
              \/ db[h].watched /\ IsDirectory(db[h].path)
              \/ /\ ~db[h].watched /\ IsFile(db[h].path)
                 /\ fs[db[h].path].size = db[h].object_size
<1>1. alive /\ queue = <<>> /\ TypeInv
  BY DEF Quiescent, LocalInv
<1>2. EntriesOK /\ SyncNow
  BY <1>1 DEF LocalInv, PathsInv, SyncInv
<1>3. \A d \in DOMAIN db : Reported(d) => Watching(d)
  BY <1>1, <1>2, AllWatching DEF SyncNow
<1>4. ASSUME NEW h \in DOMAIN db, Followed(db[h].path)
      PROVE  \/ db[h].watched /\ IsDirectory(db[h].path)
             \/ /\ ~db[h].watched /\ IsFile(db[h].path)
                /\ fs[db[h].path].size = db[h].object_size
  <2>1. Sound(h) /\ Placed(db, db[h]) /\ db[h].path \in Paths
    BY <1>1, <1>2, EntryFields DEF SyncNow, EntriesSound, EntriesOK, EntryOK
  <2>2. ~Excused(db[h])
    BY <1>1, <1>2, <1>4, <2>1, NothingExcused DEF SyncNow
  <2>3. \A mask, x : ~Pends(mask, x)
    BY <1>1 DEF Pends
  <2> QED BY <2>1, <2>2, <2>3 DEF Sound, TrueDir, TrueFile
<1> QED BY <1>2, <1>3, <1>4 DEF SyncNow

LEMMA EntriesTrueOf == LocalInv => EntriesTrue
<1> SUFFICES ASSUME LocalInv, Quiescent, ub = {}
             PROVE  EntriesTrue
  BY DEF EntriesTrue, FilesListed, EntriesBacked
<1>1. /\ EntriesOK /\ AllNoticed /\ TypeInv
      /\ \A d \in DOMAIN db : Reported(d) => Watching(d)
  BY QuietTruth DEF LocalInv
<1>2. ASSUME NEW h \in DOMAIN db, Followed(db[h].path)
      PROVE  /\ db[h].path \in DOMAIN fs
             /\ (db[h].object_format = ASSOCIATION)
                  = (fs[db[h].path].kind = "dir")
  <2>1. EntryOK(h)
    BY <1>1 DEF EntriesOK
  <2>2. CASE db[h].watched /\ IsDirectory(db[h].path)
    BY <2>1, <2>2 DEF EntryOK, IsDirectory
  <2>3. CASE ~db[h].watched /\ IsFile(db[h].path)
    BY <2>1, <2>3 DEF EntryOK, IsFile
  <2> QED BY <1>2, <2>2, <2>3, QuietTruth
<1>3. EntriesBacked
  BY <1>2 DEF EntriesBacked
<1>4. ASSUME NEW p \in DOMAIN fs, p \notin Skipped, Followed(p),
             NEW d \in DOMAIN db, Len(p) > 1,
             db[d].path = Front(p), db[d].watched
      PROVE  \E h \in ObjectList(db[d].storage_id, "ANY", ParentHandle(d)) :
               /\ db[h].path = p
               /\ (db[h].object_format = ASSOCIATION) = (fs[p].kind = "dir")
  <2>0. Watching(d)
    <3>1. p \in Paths /\ p # <<>>
      BY <1>1, <1>4, EmptySeq DEF TypeInv, KernelTyped, TreeTyped
    <3>2. Reported(d)
      BY <1>1, <1>4, <3>1, FollowedUp DEF Reported
    <3> QED BY <1>1, <3>2
  <2>1. Noticed(p, d)
    BY <1>1, <1>4, <2>0 DEF AllNoticed, InDir
  <2>2. Known(p) \/ Told(p, d)
    BY <2>1, NoticedIdle DEF Quiescent
  <2>3. PICK h \in DOMAIN db : db[h].path = p
    BY <2>2 DEF Known, Told, Quiescent
  <2>4. EntryOK(h) /\ EntryOK(d)
    BY <1>1 DEF EntriesOK
  <2>5. p # Home
    BY <1>4, HomeIsShort
  <2>6. db[h].parent = d
    BY <1>1, <1>4, <2>3, <2>4, <2>5 DEF EntryOK, Placed, EntriesOK
  <2>7. d # MTP_PARENT_ROOT /\ ParentHandle(d) = d
    <3>1. d # MTP_PARENT_ROOT
      BY DEF LocalInv, TypeInv, HandlesPositive, Positive, MTP_PARENT_ROOT
    <3> QED BY <2>4, <3>1 DEF EntryOK, ParentHandle
  <2>8. db[h].storage_id = db[d].storage_id
    BY <2>4 DEF EntryOK
  <2>9. h \in ObjectList(db[d].storage_id, "ANY", ParentHandle(d))
    BY <2>3, <2>6, <2>7, <2>8 DEF ObjectList
  <2> QED BY <1>2, <1>4, <2>3, <2>9
<1>5. FilesListed
  BY <1>4 DEF FilesListed, IsListed
<1> QED BY <1>3, <1>5 DEF EntriesTrue

LEMMA SizesFreshOf == LocalInv => SizesFresh
<1> SUFFICES ASSUME LocalInv, Quiescent, ub = {}, NEW h \in DOMAIN db,
                    IsFile(db[h].path), Followed(db[h].path)
             PROVE  db[h].object_size = fs[db[h].path].size
  BY DEF SizesFresh
<1> QED BY QuietTruth DEF IsFile, IsDirectory

\* A path is listed under one handle only ("ignore files we already have"),
\* for any tree and any number of files that local programs create, write and
\* remove: addStoragePath and inotify_handler never add a path twice, as long
\* as no other thread calls the database and the tree keeps still while the
\* root is scanned.
THEOREM OneHandlePerPathHolds ==
  ASSUME LocalOnly
  PROVE  DatabaseSpec => []OneHandlePerPath
<1>1. DatabaseInit => LocalInv
  BY LocalInit
<1>2. LocalInv /\ [DatabaseNext]_databaseVars => LocalInv'
  BY LocalInvStep
<1>3. LocalInv => OneHandlePerPath
  BY DEF LocalInv, PathsInv, EntriesOK, OneHandlePerPath
<1> QED BY <1>1, <1>2, <1>3, PTL DEF DatabaseSpec

\* The database agrees with the tree, in both directions, whenever the
\* notifier has caught up: no creation is lost between the watch, the listing
\* and the events, and no removal leaves an entry behind.
THEOREM EntriesTrueHolds ==
  ASSUME LocalOnly
  PROVE  DatabaseSpec => []EntriesTrue
<1>1. DatabaseInit => LocalInv
  BY LocalInit
<1>2. LocalInv /\ [DatabaseNext]_databaseVars => LocalInv'
  BY LocalInvStep
<1>3. LocalInv => EntriesTrue
  BY EntriesTrueOf
<1> QED BY <1>1, <1>2, <1>3, PTL DEF DatabaseSpec

\* The size the host is told is the file's, whenever the notifier has caught
\* up, however the writes and the size queries interleave.
THEOREM SizesFreshHolds ==
  ASSUME LocalOnly
  PROVE  DatabaseSpec => []SizesFresh
<1>1. DatabaseInit => LocalInv
  BY LocalInit
<1>2. LocalInv /\ [DatabaseNext]_databaseVars => LocalInv'
  BY LocalInvStep
<1>3. LocalInv => SizesFresh
  BY SizesFreshOf
<1> QED BY <1>1, <1>2, <1>3, PTL DEF DatabaseSpec

=============================================================================
