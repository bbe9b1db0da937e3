----------------------------- MODULE MtpEvents ------------------------------
(***************************************************************************)
(* The events by which the server tells the host what happens beside its   *)
(* requests: objects that come and go (the database's notifier, without    *)
(* a lock), storages that come and go (the daemon, under mMutex), all put  *)
(* together in one packet, mEvent, field by field.  What they are worth is *)
(* seen from the host: it opens a session, lists a storage and from then   *)
(* on keeps its list by the events.                                        *)
(***************************************************************************)
EXTENDS Naturals, FiniteSets

CONSTANTS
  MaxHandle,   \* bound: the number of handles issued
  MaxCards,    \* bound: how often the card is put in
  MaxSessions, \* bound: how often a session is opened
  AskAll,      \* does the host list all storages at once?
  Lossy        \* may an event be lost?

\* Handles and storages are 32-bit numbers alike; 0xFFFFFFFF is all storages.
Handles == 1 .. MaxHandle
Home == MaxHandle + 1
Card == MaxHandle + 2
All == MaxHandle + 3
Storages == {Home, Card}
Asked == IF AskAll THEN {All} ELSE Storages
NoObject == 0
Threads == {"notifier", "daemon"}

ASSUME EventsAssumption ==
  /\ {MaxHandle, MaxCards, MaxSessions} \subseteq Nat
  /\ {AskAll, Lossy} \subseteq BOOLEAN

VARIABLES
  db,           \* the storage of each object, 0 if there is no such entry
  counter,      \* the next handle
  storageOf,    \* the storage each handle was issued for
  mStorages,    \* the exposed storages
  mSessionOpen,
  local_server, \* does the database know the server?
  mMutex,       \* the thread that holds it, or "free"
  mEvent,       \* the packet: its code and its first parameter
  sender,       \* where each thread is in sending an event
  card,         \* where the daemon is with the card
  cards,        \* how often the card was put in
  sessions,     \* how often a session was opened
  host,         \* the storages the host has listed and the objects it knows
  raced,        \* did two threads use mEvent or change the objects at once?
  lost          \* the storages an event of which was lost since they were listed

database == <<db, counter, storageOf>>
session == <<mSessionOpen, local_server, sessions>>
vars == <<database, mStorages, session, mMutex, mEvent, sender, card, cards,
          host, raced, lost>>

At(pc, code, param) == [pc |-> pc, code |-> code, param |-> param]
Idle == At("idle", "none", NoObject)
Sending == {t \in Threads : sender[t] # Idle}
OfStorage(s) == {h \in Handles : db[h] = s}
Nobody == [listed |-> {}, objects |-> {}]

Goto(t, pc) == sender' = [sender EXCEPT ![t].pc = pc]
Begin(t, pc, code, param) == sender' = [sender EXCEPT ![t] = At(pc, code, param)]

-----------------------------------------------------------------------------
(* sendEvent, in any thread.                                               *)

\* The thread is done; the daemon's storage events end with its lock.
Done(t) ==
  /\ sender' = [sender EXCEPT ![t] = Idle]
  /\ mMutex' = IF mMutex = t THEN "free" ELSE mMutex

\* The notifier and a scan ask whether there is a server to tell.
Notify(t) ==
  /\ sender[t].pc = "notify"
  /\ IF local_server THEN Goto(t, "check") /\ UNCHANGED mMutex ELSE Done(t)
  /\ UNCHANGED <<database, mStorages, session, mEvent, card, cards, host, raced,
                 lost>>

\* Nothing is sent outside a session.
Check(t) ==
  /\ sender[t].pc = "check"
  /\ IF mSessionOpen THEN Goto(t, "code") /\ UNCHANGED mMutex ELSE Done(t)
  /\ UNCHANGED <<database, mStorages, session, mEvent, card, cards, host, raced,
                 lost>>

InPacket == {t \in Threads : sender[t].pc \in {"param", "write"}}

SetEventCode(t) ==
  /\ sender[t].pc = "code"
  /\ mEvent' = [mEvent EXCEPT !.code = sender[t].code]
  /\ raced' = (raced \/ InPacket # {})
  /\ Goto(t, "param")
  /\ UNCHANGED <<database, mStorages, session, mMutex, card, cards, host, lost>>

SetParameter(t) ==
  /\ sender[t].pc = "param"
  /\ mEvent' = [mEvent EXCEPT !.param = sender[t].param]
  /\ Goto(t, "write")
  /\ UNCHANGED <<database, mStorages, session, mMutex, card, cards, host, raced,
                 lost>>

\* What the host makes of an event.
Told(event) ==
  CASE event.code = "OBJECT_ADDED" ->
         [host EXCEPT !.objects = @ \cup {event.param}]
    [] event.code = "OBJECT_REMOVED" ->
         [host EXCEPT !.objects = @ \ {event.param}]
    [] event.code = "STORE_REMOVED" ->
         [listed |-> host.listed \ {event.param},
          objects |-> {h \in host.objects : h \in Handles
                                            => storageOf[h] # event.param}]
    [] OTHER -> host

\* The storage an event is about.
StorageOfEvent(event) ==
  IF event.param \in Handles THEN storageOf[event.param] ELSE event.param

\* The packet as it is now goes to the host, or is lost.
Write(t) ==
  /\ sender[t].pc = "write"
  /\ Done(t)
  /\ \/ host' = (IF mSessionOpen THEN Told(mEvent) ELSE host)
        /\ UNCHANGED lost
     \/ /\ Lossy
        /\ lost' = lost \cup {StorageOfEvent(mEvent)} /\ UNCHANGED host
  /\ UNCHANGED <<database, mStorages, session, mEvent, card, cards, raced>>

SendEvent(t) ==
  Notify(t) \/ Check(t) \/ SetEventCode(t) \/ SetParameter(t) \/ Write(t)

-----------------------------------------------------------------------------
(* The objects: add_file_entry and the IN_DELETE of inotify_handler.       *)

\* The entry is there before the host is told.
AddFileEntry(t, s) ==
  /\ sender[t] = Idle /\ counter \in Handles
  /\ counter' = counter + 1
  /\ db' = [db EXCEPT ![counter] = s]
  /\ storageOf' = [storageOf EXCEPT ![counter] = s]
  /\ Begin(t, "notify", "OBJECT_ADDED", counter)
  /\ raced' = (raced \/ Sending # {})
  /\ UNCHANGED <<mStorages, session, mMutex, mEvent, card, cards, host, lost>>

\* A file was made at home or, while it is mounted, on the card.
Created ==
  \E s \in Storages :
    /\ s = Card => card \in {"expose", "in"}
    /\ AddFileEntry("notifier", s)

\* Mutation of Deleted: told as an addition.
DeletedAdded ==
  \E h \in Handles :
    /\ sender["notifier"] = Idle /\ db[h] # NoObject
    /\ db' = [db EXCEPT ![h] = NoObject]
    /\ Begin("notifier", "notify", "OBJECT_ADDED", h)
    /\ raced' = (raced \/ Sending # {})
    /\ UNCHANGED <<counter, storageOf, mStorages, session, mMutex, mEvent, card,
                   cards, host, lost>>

Deleted ==
  \E h \in Handles :
    /\ sender["notifier"] = Idle /\ db[h] # NoObject
    /\ db' = [db EXCEPT ![h] = NoObject]
    /\ Begin("notifier", "notify", "OBJECT_REMOVED", h)
    /\ raced' = (raced \/ Sending # {})
    /\ UNCHANGED <<counter, storageOf, mStorages, session, mMutex, mEvent, card,
                   cards, host, lost>>

-----------------------------------------------------------------------------
(* The storages: the daemon's inotify_handler.                             *)

CardIn ==
  /\ card = "out" /\ cards < MaxCards
  /\ card' = "scan" /\ cards' = cards + 1
  /\ UNCHANGED <<database, mStorages, session, mMutex, mEvent, sender, host,
                 raced, lost>>

\* addStoragePath enters what it finds.
Scan == card = "scan" /\ AddFileEntry("daemon", Card)

ScanDone ==
  /\ card = "scan" /\ sender["daemon"] = Idle
  /\ card' = "expose"
  /\ UNCHANGED <<database, mStorages, session, mMutex, mEvent, sender, cards,
                 host, raced, lost>>

\* Mutation of AddStorage: the mutex is given back before the event is sent.
AddStorageUnlocked ==
  /\ card = "expose" /\ mMutex = "free"
  /\ mStorages' = mStorages \cup {Card}
  /\ card' = "in"
  /\ Begin("daemon", "check", "STORE_ADDED", Card)
  /\ UNCHANGED <<database, session, mMutex, mEvent, cards, host, raced, lost>>

\* addStorage and removeStorage hold the mutex until their event is sent.
AddStorage ==
  /\ card = "expose" /\ mMutex = "free"
  /\ mMutex' = "daemon"
  /\ mStorages' = mStorages \cup {Card}
  /\ card' = "in"
  /\ Begin("daemon", "check", "STORE_ADDED", Card)
  /\ UNCHANGED <<database, session, mEvent, cards, host, raced, lost>>

RemoveStorage ==
  /\ card = "in" /\ sender["daemon"] = Idle /\ mMutex = "free"
  /\ mMutex' = "daemon"
  /\ mStorages' = mStorages \ {Card}
  /\ card' = "withdrawn"
  /\ Begin("daemon", "check", "STORE_REMOVED", Card)
  /\ raced' = (raced \/ Sending # {})
  /\ UNCHANGED <<database, session, mEvent, cards, host, lost>>

\* The database's removeStorage.
ForgetCard ==
  /\ card = "withdrawn" /\ sender["daemon"] = Idle
  /\ card' = "out"
  /\ db' = [h \in Handles |-> IF db[h] = Card THEN NoObject ELSE db[h]]
  /\ raced' = (raced \/ Sending # {})
  /\ UNCHANGED <<counter, storageOf, mStorages, session, mMutex, mEvent, sender,
                 cards, host, lost>>

-----------------------------------------------------------------------------
(* The requests: handleRequest holds the mutex.                            *)

doOpenSession ==
  /\ mMutex = "free" /\ ~mSessionOpen /\ sessions < MaxSessions
  /\ mSessionOpen' = TRUE /\ local_server' = TRUE /\ sessions' = sessions + 1
  /\ host' = Nobody
  /\ UNCHANGED <<database, mStorages, mMutex, mEvent, sender, card, cards, raced,
                 lost>>

doCloseSession ==
  /\ mMutex = "free" /\ mSessionOpen
  /\ mSessionOpen' = FALSE /\ local_server' = FALSE
  /\ host' = Nobody
  /\ UNCHANGED <<database, sessions, mStorages, mMutex, mEvent, sender, card,
                 cards, raced, lost>>

\* hasStorage, and getObjectList.
hasStorage(s) == IF s = All THEN mStorages # {} ELSE s \in mStorages
getObjectList(s) == OfStorage(s)

\* The host replaces what it knew of the storages it asked for.
doGetObjectHandles ==
  \E s \in Asked :
    LET covered == IF s = All THEN mStorages ELSE {s} IN
    /\ mMutex = "free" /\ mSessionOpen /\ hasStorage(s)
    /\ host' = [listed |-> host.listed \cup covered,
                objects |-> {h \in host.objects : h \in Handles
                                => storageOf[h] \notin covered}
                              \cup getObjectList(s)]
    /\ lost' = lost \ covered
    /\ UNCHANGED <<database, mStorages, session, mMutex, mEvent, sender, card,
                   cards, raced>>

\* An object the host sends has its entry before its file, and no event.
doSendObject ==
  /\ mMutex = "free" /\ mSessionOpen /\ counter \in Handles
  /\ \E s \in mStorages :
       /\ db' = [db EXCEPT ![counter] = s]
       /\ storageOf' = [storageOf EXCEPT ![counter] = s]
  /\ counter' = counter + 1
  /\ host' = [host EXCEPT !.objects = @ \cup {counter}]
  /\ raced' = (raced \/ Sending # {})
  /\ UNCHANGED <<mStorages, session, mMutex, mEvent, sender, card, cards, lost>>

\* Nor has one it deletes.
doDeleteObject ==
  /\ mMutex = "free" /\ mSessionOpen
  /\ \E h \in host.objects \cap Handles :
       /\ db' = [db EXCEPT ![h] = NoObject]
       /\ host' = [host EXCEPT !.objects = @ \ {h}]
  /\ raced' = (raced \/ Sending # {})
  /\ UNCHANGED <<counter, storageOf, mStorages, session, mMutex, mEvent, sender,
                 card, cards, lost>>

-----------------------------------------------------------------------------
Init ==
  /\ db = [h \in Handles |-> NoObject] /\ counter = 1
  /\ storageOf = [h \in Handles |-> NoObject]
  /\ mStorages = {Home} /\ mSessionOpen = FALSE /\ local_server = FALSE
  /\ mMutex = "free" /\ mEvent = [code |-> "none", param |-> NoObject]
  /\ sender = [t \in Threads |-> Idle]
  /\ card = "out" /\ cards = 0 /\ sessions = 0
  /\ host = Nobody /\ raced = FALSE /\ lost = {}

Objects == Created \/ Deleted
Daemon ==
  \/ CardIn \/ Scan \/ ScanDone \/ AddStorage \/ RemoveStorage \/ ForgetCard
Handle ==
  \/ doOpenSession \/ doCloseSession \/ doGetObjectHandles
  \/ doSendObject \/ doDeleteObject

Next == Objects \/ Daemon \/ Handle \/ \E t \in Threads : SendEvent(t)

Spec == Init /\ [][Next]_vars

-----------------------------------------------------------------------------
(* Properties.                                                             *)

Numbers == 0 .. MaxHandle + 3
Codes == {"none", "OBJECT_ADDED", "OBJECT_REMOVED", "STORE_ADDED",
          "STORE_REMOVED"}

\* Handles and storages are never mixed up in an entry, a packet has a code
\* and a number, and the mutex is the daemon's only while it sends.
EventsTypeOK ==
  /\ db \in [Handles -> {NoObject} \cup Storages]
  /\ storageOf \in [Handles -> {NoObject} \cup Storages]
  /\ counter \in 1 .. MaxHandle + 1 /\ mStorages \subseteq Storages
  /\ {mSessionOpen, local_server, raced} \subseteq BOOLEAN /\ lost \subseteq Numbers
  /\ mEvent \in [code : Codes, param : Numbers]
  /\ host \in [listed : SUBSET Storages, objects : SUBSET Numbers]
  /\ mMutex = "free" \/ (mMutex = "daemon" /\ sender["daemon"] # Idle)

\* Nothing is under way.
Quiet == Sending = {} /\ card \in {"out", "in"}

Known(s) == {h \in host.objects : h \in Handles => storageOf[h] = s}

\* A host that listed a storage and follows the events knows its objects,
\* however listing, sessions, sends, deletions and the notifier interleave,
\* as long as no two threads are in the objects or in mEvent at once and no
\* event was lost since it listed (server/UbuntuMtpDatabase.h:138, 325).
HostKnows ==
  Quiet /\ ~raced =>
    \A s \in host.listed \ lost : Known(s) = OfStorage(s)

\* The state is well formed, and the host's picture follows from its events.
EventsInv == EventsTypeOK /\ HostKnows

\* The event of a storage does not leave the session it was checked for: the
\* mutex keeps CloseSession out (src/MtpServer.cpp:126, 293).
StorageEventsInSession ==
  \A t \in Threads :
    sender[t].pc \in {"code", "param", "write"}
        /\ sender[t].code \in {"STORE_ADDED", "STORE_REMOVED"} => mSessionOpen

\* What is written is what the writer put together.
EventsWhole ==
  [][\A t \in Threads :
       Write(t) => /\ mEvent.code = sender[t].code
                   /\ mEvent.param = sender[t].param]_vars

\* "0xFFFFFFFF for all storage" (src/MtpServer.cpp:581): after listing them
\* all the host knows the objects of every storage.
AllListed ==
  Quiet /\ ~raced /\ lost = {} /\ Storages \subseteq host.listed =>
    \A s \in Storages : OfStorage(s) \subseteq host.objects
=============================================================================
