----------------------------- MODULE MtpDaemon ------------------------------
(***************************************************************************)
(* The daemon (server/server.cpp): the main thread that builds the storage *)
(* list and enters MtpServer::run, the asio thread that follows cards as   *)
(* they are mounted below /media/<user>, and the D-Bus thread that may     *)
(* stop the server.  The server is reduced to its list of storages and     *)
(* mRunning, the database to the storages it holds entries of.             *)
(***************************************************************************)
EXTENDS MtpTypes, FiniteSets

CONSTANTS
  Cards,        \* names of the mount points, in the order std::map keeps them
  MaxMounts,    \* bound: how often cards are mounted, in all
  MediaFdGarbage  \* what the uninitialised media_fd may hold

ASSUME DaemonAssumption ==
  /\ Cards \subseteq Nat \ {0} /\ IsFiniteSet(Cards)
  /\ MaxMounts \in Nat
  /\ MediaFdGarbage \subseteq Nat

VARIABLES
  mediaDir,     \* external: /media/<user> exists
  mounted,      \* external: the cards mounted there
  mounts,       \* external: how often each card was mounted
  queue,        \* inotify events not yet read: [wd, mask, name]
  watch_fd,     \* the watch on /media/<user>, 0 when there is none
  media_fd,     \* what the variable holds
  mediaWatch,   \* the watch on /media, 0 when there is none
  storageID,    \* the static counter of add_removable_storage
  screen_locked,
  removables,   \* name -> [id, added]
  mStorages,    \* the server's storages: [id, name] in order
  scanned,      \* the storages the database has entries of
  thread,       \* "main" and "asio": pc, the card in hand, cards to do
  mRunning,
  stopped,      \* history: stop() was called
  slips         \* history: what was let slip, as <<kind, card or identifier>>:
                \* "IN_CREATE", "IN_DELETE": the card was mounted, or unmounted,
                \*   after the listing and before anything watched;
                \* "overtaken": a storage that was withdrawn before it was
                \*   exposed;
                \* "misfiled": the card was filed as added and was not, the
                \*   screen having been unlocked between the two reads;
                \* "refused": a storage of a card that has one filed already

external == <<mediaDir, mounted, mounts>>
watches == <<watch_fd, media_fd, mediaWatch>>
server == <<mStorages, scanned>>
history == <<stopped, slips>>
daemonVars == <<external, queue, watches, storageID, screen_locked, removables,
                server, thread, mRunning, history>>

HomeName == 0
Workers == {"main", "asio"}

At(t, pc) == thread[t].pc = pc
Goto(t, pc) == thread' = [thread EXCEPT ![t].pc = pc]

Ids(list) == {list[i].id : i \in DOMAIN list}

\* Where a worker goes when add_removable_storage returns.
NextCard(th) ==
  IF th.todo = <<>> THEN [th EXCEPT !.pc = th.after]
  ELSE [th EXCEPT !.pc = "new", !.name = Head(th.todo), !.todo = Tail(@)]

DaemonInit ==
  /\ mediaDir \in BOOLEAN
  /\ mounted \in SUBSET Cards /\ (~mediaDir => mounted = {})
  /\ mounts = [c \in Cards |-> IF c \in mounted THEN 1 ELSE 0]
  /\ queue = <<>>
  /\ watch_fd = 0 /\ media_fd \in MediaFdGarbage /\ mediaWatch = 0
  /\ storageID = MTP_STORAGE_REMOVABLE_RAM
  /\ screen_locked = TRUE
  /\ removables = EmptyMap
  /\ mStorages = <<>> /\ scanned = {}
  /\ thread = [t \in Workers |->
       [pc |-> IF t = "main" THEN "init" ELSE "idle", name |-> HomeName,
        id |-> 0, todo |-> <<>>, after |-> "idle"]]
  /\ mRunning = FALSE /\ stopped = FALSE /\ slips = {}

-----------------------------------------------------------------------------
(* add_removable_storage, on either thread.                                *)

\* Mutation of NewStorage: the card is exposed without having been scanned.
NewStorageUnscanned(t) ==
  /\ At(t, "new")
  /\ thread' = [thread EXCEPT ![t].id = storageID, ![t].pc = "expose"]
  /\ storageID' = storageID + 1
  /\ UNCHANGED <<external, queue, watches, screen_locked, removables, server,
                 mRunning, history>>

\* new MtpStorage(storageID, ...): the static counter is read, and stepped by
\* the next statement, without a lock.
NewStorage(t) ==
  /\ At(t, "new")
  /\ thread' = [thread EXCEPT ![t].id = storageID, ![t].pc = "count"]
  /\ UNCHANGED <<external, queue, watches, storageID, screen_locked,
                 removables, server, mRunning, history>>

\* storageID++; if (!screen_locked) ...
StepCounter(t) ==
  /\ At(t, "count")
  /\ storageID' = storageID + 1
  /\ Goto(t, IF screen_locked THEN "insert" ELSE "scan")
  /\ UNCHANGED <<external, queue, watches, screen_locked, removables, server,
                 mRunning, history>>

AddStoragePath(t) ==
  /\ thread[t].pc \in {"scan", "offer_scan"}
  /\ scanned' = scanned \cup {thread[t].id}
  /\ Goto(t, IF At(t, "scan") THEN "expose" ELSE "offer_expose")
  /\ UNCHANGED <<external, queue, watches, storageID, screen_locked,
                 removables, mStorages, mRunning, history>>

AddStorage(t) ==
  /\ thread[t].pc \in {"expose", "offer_expose"}
  /\ mStorages' = Append(mStorages, [id |-> thread[t].id,
                                     name |-> thread[t].name])
  /\ Goto(t, IF At(t, "expose") THEN "insert" ELSE "offer")
  /\ UNCHANGED <<external, queue, watches, storageID, screen_locked,
                 removables, scanned, mRunning, history>>

\* The card a thread files has a storage filed already; or it is filed as added
\* though the first read of screen_locked kept it from being exposed.
Slipped(t) ==
  IF thread[t].name \in DOMAIN removables THEN {<<"refused", thread[t].id>>}
  ELSE IF ~screen_locked /\ thread[t].id \notin Ids(mStorages)
       THEN {<<"misfiled", thread[t].name>>}
  ELSE {}


\* removables.insert keeps the entry a name already has; screen_locked is read
\* a second time.
InsertRemovable(t) ==
  /\ At(t, "insert")
  /\ removables' = Insert(removables, thread[t].name,
                          [id |-> thread[t].id, added |-> ~screen_locked])
  /\ thread' = [thread EXCEPT ![t] = NextCard(@)]
  /\ slips' = slips \cup Slipped(t)
  /\ UNCHANGED <<external, queue, watches, storageID, screen_locked, server,
                 mRunning, stopped>>

AddRemovableStorage(t) ==
  \/ NewStorage(t) \/ StepCounter(t) \/ AddStoragePath(t) \/ AddStorage(t)
  \/ InsertRemovable(t)

-----------------------------------------------------------------------------
(* The main thread: initStorage and run.                                   *)

\* Mutation of InitStorage: the mount point is watched before it is listed.
InitStorageWatched ==
  /\ At("main", "init") /\ mediaDir
  /\ scanned' = scanned \cup {MTP_STORAGE_FIXED_RAM}
  /\ watch_fd' = 1
  /\ \E v \in SetToSeqs(mounted) :
       thread' = [thread EXCEPT !["main"] =
                    NextCard([@ EXCEPT !.todo = v, !.after = "watch"])]
  /\ UNCHANGED <<external, queue, media_fd, mediaWatch, storageID,
                 screen_locked, removables, mStorages, mRunning, history>>

\* The home directory is scanned; the cards already mounted are listed, or the
\* directory they will be mounted in is waited for.
InitStorage ==
  /\ At("main", "init")
  /\ scanned' = scanned \cup {MTP_STORAGE_FIXED_RAM}
  /\ \/ /\ mediaDir
        /\ \E v \in SetToSeqs(mounted) :
             thread' = [thread EXCEPT !["main"] =
                          NextCard([@ EXCEPT !.todo = v, !.after = "watch"])]
        /\ UNCHANGED watches
     \/ /\ ~mediaDir
        /\ media_fd' = 1 /\ mediaWatch' = 1
        /\ Goto("main", "unlock")
        /\ UNCHANGED watch_fd
  /\ UNCHANGED <<external, queue, storageID, screen_locked, removables,
                 mStorages, mRunning, history>>

\* add_mountpoint_watch: descriptors count up from 1.
AddMountpointWatch == watch_fd' = mediaWatch + 1

WatchMountpoint ==
  /\ At("main", "watch")
  /\ AddMountpointWatch
  /\ Goto("main", "unlock")
  /\ UNCHANGED <<external, queue, media_fd, mediaWatch, storageID,
                 screen_locked, removables, server, mRunning, history>>

Unlock ==
  /\ At("main", "unlock")
  /\ screen_locked' = FALSE
  /\ Goto("main", "home")
  /\ UNCHANGED <<external, queue, watches, storageID, removables, server,
                 mRunning, history>>

ExposeHome ==
  /\ At("main", "home")
  /\ mStorages' = Append(mStorages, [id |-> MTP_STORAGE_FIXED_RAM,
                                     name |-> HomeName])
  /\ thread' = [thread EXCEPT !["main"].pc = "offer", !["main"].name = HomeName]
  /\ UNCHANGED <<external, queue, watches, storageID, screen_locked,
                 removables, scanned, mRunning, history>>

\* BOOST_FOREACH over removables, which the asio thread may extend meanwhile:
\* the next name after the last one; what was not yet added is now.
OfferRemovable ==
  LET later == {n \in DOMAIN removables : n > thread["main"].name}
      n == Min(later)
  IN
  /\ At("main", "offer") /\ later # {}
  /\ thread' = [thread EXCEPT
       !["main"].name = n, !["main"].id = removables[n].id,
       !["main"].pc = IF removables[n].added THEN "offer" ELSE "offer_scan"]
  /\ UNCHANGED <<external, queue, watches, storageID, screen_locked,
                 removables, server, mRunning, history>>

\* mRunning = true at the top of MtpServer::run.
Run ==
  /\ At("main", "offer")
  /\ \A n \in DOMAIN removables : n <= thread["main"].name
  /\ mRunning' = TRUE
  /\ Goto("main", "serving")
  /\ UNCHANGED <<external, queue, watches, storageID, screen_locked,
                 removables, server, history>>

\* The loop ends when mRunning is found FALSE, or when the cable is pulled.
Return ==
  /\ At("main", "serving")
  /\ Goto("main", "ended")
  /\ UNCHANGED <<external, queue, watches, storageID, screen_locked,
                 removables, server, mRunning, history>>

MainStep ==
  \/ AddRemovableStorage("main")
  \/ InitStorage \/ WatchMountpoint \/ Unlock \/ ExposeHome
  \/ OfferRemovable \/ Run

-----------------------------------------------------------------------------
(* The asio thread: inotify_handler, one event at a time.                  *)

ReadEvent ==
  LET e == Head(queue) IN
  /\ At("asio", "idle") /\ queue # <<>>
  /\ queue' = Tail(queue)
  /\ \/ /\ e.mask = "IN_CREATE" /\ e.wd = media_fd
        /\ AddMountpointWatch
        /\ UNCHANGED thread
     \/ /\ e.mask = "IN_CREATE" /\ e.wd # media_fd
        /\ thread' = [thread EXCEPT !["asio"].pc = "new",
                                    !["asio"].name = e.name]
        /\ UNCHANGED watch_fd
     \/ /\ e.mask = "IN_DELETE"
        /\ thread' = IF e.name \in DOMAIN removables
                     THEN [thread EXCEPT !["asio"].pc = "withdraw",
                                         !["asio"].id = removables[e.name].id]
                     ELSE thread
        /\ UNCHANGED watch_fd
  /\ UNCHANGED <<external, media_fd, mediaWatch, storageID, screen_locked,
                 removables, server, mRunning, history>>

\* Mutation of RemoveFromServer: the card stays exposed.
RemoveFromServerKept ==
  /\ At("asio", "withdraw")
  /\ Goto("asio", "forget")
  /\ UNCHANGED <<external, queue, watches, storageID, screen_locked,
                 removables, server, mRunning, history>>

\* server->removeStorage: the storage object is looked up by its address, and
\* the loop stops where it is found.
Without(list, id) ==
  LET at == {i \in DOMAIN list : list[i].id = id}
  IN IF at = {} THEN list ELSE RemoveAt(list, Min(at))

RemoveFromServer ==
  LET id == thread["asio"].id IN
  /\ At("asio", "withdraw")
  /\ mStorages' = Without(mStorages, id)
  /\ Goto("asio", "forget")
  /\ slips' = slips \cup
       IF id \in Ids(mStorages) THEN {} ELSE {<<"overtaken", id>>}
  /\ UNCHANGED <<external, queue, watches, storageID, screen_locked,
                 removables, scanned, mRunning, stopped>>

\* mtp_database->removeStorage; removables keeps the name.
RemoveFromDatabase ==
  /\ At("asio", "forget")
  /\ scanned' = scanned \ {thread["asio"].id}
  /\ Goto("asio", "idle")
  /\ UNCHANGED <<external, queue, watches, storageID, screen_locked,
                 removables, mStorages, mRunning, history>>

AsioStep ==
  \/ AddRemovableStorage("asio")
  \/ ReadEvent \/ RemoveFromServer \/ RemoveFromDatabase

\* drive_bus: an error on the bus stops the server.
Stop ==
  /\ ~stopped
  /\ mRunning' = FALSE /\ stopped' = TRUE
  /\ UNCHANGED <<slips, external, queue, watches, storageID, screen_locked,
                 removables, server, thread>>

-----------------------------------------------------------------------------
(* External: the system mounts and unmounts cards.                         *)

Event(wd, mask, name) ==
  queue' = IF wd = 0 THEN queue
           ELSE Append(queue, [wd |-> wd, mask |-> mask, name |-> name])

\* What happens to a card that was not there to be listed, or was, and that
\* nothing watches, is never heard of.
Unwatched(mask, c) ==
  IF watch_fd = 0 /\ ~At("main", "init") THEN {<<mask, c>>} ELSE {}

CreateMediaDir ==
  /\ ~mediaDir /\ mediaDir' = TRUE
  /\ Event(mediaWatch, "IN_CREATE", HomeName)
  /\ UNCHANGED <<mounted, mounts, slips>>

Mount(c) ==
  /\ mediaDir /\ c \notin mounted
  /\ MapThenSumSet(LAMBDA d : mounts[d], Cards) < MaxMounts
  /\ mounted' = mounted \cup {c}
  /\ mounts' = [mounts EXCEPT ![c] = @ + 1]
  /\ Event(watch_fd, "IN_CREATE", c)
  /\ slips' = slips \cup Unwatched("IN_CREATE", c)
  /\ UNCHANGED mediaDir

Unmount(c) ==
  /\ c \in mounted
  /\ mounted' = mounted \ {c}
  /\ Event(watch_fd, "IN_DELETE", c)
  /\ slips' = slips \cup Unwatched("IN_DELETE", c)
  /\ UNCHANGED <<mediaDir, mounts>>

System ==
  /\ CreateMediaDir \/ \E c \in Cards : Mount(c) \/ Unmount(c)
  /\ UNCHANGED <<watches, storageID, screen_locked, removables, server, thread,
                 mRunning, stopped>>

DaemonNext == MainStep \/ Return \/ AsioStep \/ Stop \/ System

DaemonSpec ==
  /\ DaemonInit /\ [][DaemonNext]_daemonVars
  /\ WF_daemonVars(MainStep) /\ WF_daemonVars(AsioStep)

-----------------------------------------------------------------------------
(* Properties.                                                             *)

Exposed == {mStorages[i].name : i \in DOMAIN mStorages} \ {HomeName}

\* Every event was handled, the main loop runs and nobody adds a storage.
DaemonSettled ==
  queue = <<>> /\ At("asio", "idle") /\ At("main", "serving")

DaemonTypeOK ==
  /\ mounted \subseteq Cards /\ DOMAIN removables \subseteq Cards
  /\ storageID \in Nat /\ scanned \subseteq Nat
  /\ \A t \in Workers : thread[t].name \in Cards \cup {HomeName}
  /\ mRunning \in BOOLEAN /\ screen_locked \in BOOLEAN

\* Two storages never share an identifier, although two threads hand
\* identifiers out from one static counter.
StorageIdsUnique ==
  /\ \A i, j \in DOMAIN mStorages :
       mStorages[i].id = mStorages[j].id => i = j
  /\ \A c, d \in DOMAIN removables :
       removables[c].id = removables[d].id => c = d

\* The daemon's state is well formed and its storages are told apart.
DaemonInv == DaemonTypeOK /\ StorageIdsUnique

\* The host never sees a storage whose content is not in the database,
\* whichever thread adds and withdraws it and whenever: a card is scanned before
\* it is exposed and withdrawn before it is forgotten.  Only the storage that
\* was withdrawn while the main thread had it in hand is not promised this.
ScannedBeforeExposed ==
  \A i \in DOMAIN mStorages :
    \/ mStorages[i].id \in scanned
    \/ <<"overtaken", mStorages[i].id>> \in slips

\* The same of every storage.
ExposedScanned == Ids(mStorages) \subseteq scanned

\* Once the events are handled, no card that was removed is still exposed but
\* for the given slips.
WithdrawnUnless(kinds) ==
  DaemonSettled =>
    \A i \in DOMAIN mStorages :
      \/ mStorages[i].name \in mounted \cup {HomeName}
      \/ \E k \in kinds :
           <<k, IF k = "IN_DELETE" THEN mStorages[i].name
                ELSE mStorages[i].id>> \in slips

\* Cards that are removed while the main thread starts are withdrawn like any
\* other, but for the one it exposes after that, the one nobody was told of and
\* the second storage of one card.
CardsWithdrawn == WithdrawnUnless({"IN_DELETE", "overtaken", "refused"})

\* The same of the cards that left before anything watched them.
LeftWithdrawn == WithdrawnUnless({"overtaken", "refused"})

\* The same of second storages, which removables.insert refuses to file.
RemountedWithdrawn == WithdrawnUnless({"IN_DELETE", "overtaken"})

\* The same of the storages the main thread had in hand.
OvertakenWithdrawn == WithdrawnUnless({"IN_DELETE", "refused"})

\* Once the events are handled, every card that is mounted is exposed.
CardsOffered == DaemonSettled => mounted \subseteq Exposed

\* The same of the cards whose mounting was seen.
SeenCardsOffered ==
  DaemonSettled =>
    \A c \in mounted : c \in Exposed \/ <<"IN_CREATE", c>> \in slips


\* "There was an unexpected error in DBus; terminating.": once stopped, the
\* server does not run.
StopSticks == stopped => ~mRunning
=============================================================================
