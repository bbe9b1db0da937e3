-------------------------- MODULE MtpEventsProofs ---------------------------
(* Proofs about MtpEvents: for any number of handles, cards and sessions.  *)
EXTENDS MtpEvents, TLAPS

StoreEvents == {"STORE_ADDED", "STORE_REMOVED"}
Places == {"idle", "notify", "check", "code", "param", "write"}
Senders ==
  [Threads -> [pc : Places, code : Codes, param : Numbers]]

(* Only who holds the mutex sends the event of a storage.                  *)
Locked ==
  /\ sender \in Senders
  /\ \A t \in Threads : sender[t].code \in StoreEvents => mMutex = t

(* The invariant of the proof.                                             *)
Inv == Locked /\ StorageEventsInSession

(* What a thread puts into an event.                                       *)
LEMMA Steps ==
  /\ "free" \notin Threads
  /\ Idle \in [pc : Places, code : Codes, param : Numbers]
  /\ Idle.code = "none" /\ Idle.pc = "idle"
  /\ \A h \in Handles : h \in Numbers
  /\ Card \in Numbers
<1>1. MaxHandle \in Nat
  BY EventsAssumption
<1> QED
  BY <1>1 DEF Threads, Idle, At, Places, Codes, Numbers, NoObject, Handles, Card

LEMMA InvInit == Init => Inv
BY Steps DEF Init, Inv, Locked, StorageEventsInSession, Senders, StoreEvents

(* A step inside sendEvent keeps the thread's event or ends it.            *)
LEMMA InvSendEvent ==
  ASSUME Inv, NEW t \in Threads, SendEvent(t)
  PROVE  Inv'
<1> USE DEF Inv, Locked, StorageEventsInSession, Senders, StoreEvents, Places
<1>0. sender[t] \in [pc : Places, code : Codes, param : Numbers]
  OBVIOUS
<1>1. ASSUME Done(t), UNCHANGED mSessionOpen PROVE Inv'
  BY <1>1, Steps DEF Done
<1>2. ASSUME NEW pc \in Places, Goto(t, pc), UNCHANGED <<mMutex, mSessionOpen>>,
             pc \in {"code", "param", "write"} =>
               mSessionOpen \/ sender[t].code \notin StoreEvents
      PROVE  Inv'
  BY <1>0, <1>2 DEF Goto
<1>3. CASE Notify(t)
  BY <1>1, <1>2, <1>3 DEF Notify, session
<1>4. CASE Check(t)
  BY <1>1, <1>2, <1>4 DEF Check, session
<1>5. CASE SetEventCode(t)
  BY <1>2, <1>5 DEF SetEventCode, session
<1>6. CASE SetParameter(t)
  BY <1>2, <1>6 DEF SetParameter, session
<1>7. CASE Write(t)
  BY <1>1, <1>7 DEF Write, session
<1> QED
  BY <1>3, <1>4, <1>5, <1>6, <1>7 DEF SendEvent

(* A thread begins an event of its own, of a storage only with the mutex.  *)
LEMMA InvBegin ==
  ASSUME Inv, NEW t \in Threads, NEW pc \in {"notify", "check"},
         NEW code \in Codes, NEW param \in Numbers, Begin(t, pc, code, param),
         UNCHANGED mSessionOpen, UNCHANGED mMutex \/ mMutex = "free",
         code \in StoreEvents => mMutex' = t
  PROVE  Inv'
<1>1. sender' = [sender EXCEPT ![t] = At(pc, code, param)]
  BY DEF Begin
<1>2. At(pc, code, param) \in [pc : Places, code : Codes, param : Numbers]
  BY DEF At, Places
<1>3. sender' \in Senders
  BY <1>1, <1>2 DEF Inv, Locked, Senders
<1>4. sender'[t].code = code /\ sender'[t].pc = pc
  BY <1>1 DEF Inv, Locked, Senders, At
<1>5. \A u \in Threads : u # t => sender'[u] = sender[u]
  BY <1>1 DEF Inv, Locked, Senders
<1> QED
  BY <1>3, <1>4, <1>5, Steps DEF Inv, Locked, StorageEventsInSession, StoreEvents

(* No step breaks the invariant.                                           *)
LEMMA InvNext == Inv /\ [Next]_vars => Inv'
<1> SUFFICES ASSUME Inv, [Next]_vars PROVE Inv'
  OBVIOUS
<1>1. ASSUME UNCHANGED <<sender, mMutex, mSessionOpen>> PROVE Inv'
  BY <1>1 DEF Inv, Locked, StorageEventsInSession
<1>2. ASSUME NEW t \in Threads, NEW s, AddFileEntry(t, s) PROVE Inv'
  <2>1. /\ Begin(t, "notify", "OBJECT_ADDED", counter) /\ counter \in Handles
        /\ UNCHANGED <<mMutex, mSessionOpen>>
    BY <1>2 DEF AddFileEntry, session
  <2> QED
    BY <2>1, Steps, InvBegin DEF Codes, StoreEvents
<1>3. CASE Created
  BY <1>2, <1>3 DEF Created, Threads
<1>4. CASE Deleted
  <2>1. PICK h \in Handles : /\ Begin("notifier", "notify", "OBJECT_REMOVED", h)
                             /\ UNCHANGED <<mMutex, session>>
    BY <1>4 DEF Deleted
  <2> QED
    BY <2>1, Steps, InvBegin DEF Codes, StoreEvents, session, Threads
<1>5. CASE CardIn \/ ScanDone \/ ForgetCard
  BY <1>1, <1>5 DEF CardIn, ScanDone, ForgetCard, session
<1>6. CASE Scan
  BY <1>2, <1>6 DEF Scan, Threads
<1>7. CASE AddStorage
  BY <1>7, Steps, InvBegin DEF AddStorage, Codes, StoreEvents, session, Threads
<1>8. CASE RemoveStorage
  BY <1>8, Steps, InvBegin DEF RemoveStorage, Codes, StoreEvents, session, Threads
<1>9. ASSUME mMutex = "free", UNCHANGED <<sender, mMutex>> PROVE Inv'
  BY <1>9, Steps DEF Inv, Locked, StorageEventsInSession, StoreEvents
<1>10. CASE Handle
  BY <1>9, <1>10 DEF Handle, doOpenSession, doCloseSession, doGetObjectHandles,
                     doSendObject, doDeleteObject
<1>11. CASE \E t \in Threads : SendEvent(t)
  BY <1>11, InvSendEvent
<1>12. CASE UNCHANGED vars
  BY <1>1, <1>12 DEF vars, session
<1> QED
  BY <1>3, <1>4, <1>5, <1>6, <1>7, <1>8, <1>10, <1>11, <1>12
  DEF Next, Objects, Daemon

(* The event of a storage is sent in the session it was checked for: the   *)
(* daemon holds mMutex from the change of mStorages to the end of the      *)
(* write, and handleRequest holds it while a session is closed             *)
(* (src/MtpServer.cpp:127, 134, 338).                                      *)
THEOREM StorageEventsInSessionHolds == Spec => []StorageEventsInSession
<1>1. Inv => StorageEventsInSession
  BY DEF Inv
<1> QED
  BY <1>1, InvInit, InvNext, PTL DEF Spec

-----------------------------------------------------------------------------
(* Types.                                                                  *)

(* Handles, storages and 0 are different numbers.                          *)
LEMMA NumbersApart ==
  /\ Handles \subseteq Numbers /\ Storages \subseteq Numbers /\ NoObject \in Numbers
  /\ NoObject \notin Handles /\ NoObject \notin Storages
  /\ Home \notin Handles /\ Card \notin Handles /\ Home # Card
  /\ Home \in Storages /\ Card \in Storages /\ Handles \subseteq 1 .. MaxHandle
  /\ MaxHandle \in Nat
<1>1. MaxHandle \in Nat
  BY EventsAssumption
<1> QED
  BY <1>1 DEF Handles, Storages, Numbers, NoObject, Home, Card

LEMMA TypesInit == Init => EventsTypeOK
<1> SUFFICES ASSUME Init PROVE EventsTypeOK
  OBVIOUS
<1> USE DEF Init
<1>1. /\ db \in [Handles -> {NoObject} \cup Storages]
      /\ storageOf \in [Handles -> {NoObject} \cup Storages]
  OBVIOUS
<1>2. counter \in 1 .. MaxHandle + 1 /\ mStorages \subseteq Storages
  BY NumbersApart
<1>3. {mSessionOpen, local_server, raced} \subseteq BOOLEAN /\ lost \subseteq Numbers
  OBVIOUS
<1>4. mEvent \in [code : Codes, param : Numbers]
  BY NumbersApart DEF Codes
<1>5. host \in [listed : SUBSET Storages, objects : SUBSET Numbers]
  BY NumbersApart DEF Nobody
<1> QED
  BY <1>1, <1>2, <1>3, <1>4, <1>5 DEF EventsTypeOK

(* A step inside sendEvent keeps the types.                                *)
LEMMA TypesSendEvent ==
  ASSUME EventsTypeOK, Inv, NEW t \in Threads, SendEvent(t)
  PROVE  EventsTypeOK'
<1> USE DEF EventsTypeOK
<1>0. sender \in Senders /\ sender[t] \in [pc : Places, code : Codes, param : Numbers]
  BY DEF Inv, Locked, Senders
<1>1. ASSUME NEW pc \in Places \ {"idle"}, Goto(t, pc), UNCHANGED mMutex
      PROVE  mMutex' = "free" \/ (mMutex' = "daemon" /\ sender'["daemon"] # Idle)
  BY <1>0, <1>1 DEF Goto, Senders, Threads, Idle, At, Places
<1>2. ASSUME Done(t)
      PROVE  mMutex' = "free" \/ (mMutex' = "daemon" /\ sender'["daemon"] # Idle)
  BY <1>0, <1>2 DEF Done, Senders, Threads
<1>3. CASE Notify(t)
  BY <1>1, <1>2, <1>3 DEF Notify, database, session, Places
<1>4. CASE Check(t)
  BY <1>1, <1>2, <1>4 DEF Check, database, session, Places
<1>5. CASE SetEventCode(t)
  <2>1. mEvent' \in [code : Codes, param : Numbers]
    BY <1>0, <1>5 DEF SetEventCode
  <2>2. raced' \in BOOLEAN
    BY <1>5 DEF SetEventCode
  <2> QED
    BY <1>1, <1>5, <2>1, <2>2 DEF SetEventCode, database, session, Places
<1>6. CASE SetParameter(t)
  <2>1. mEvent' \in [code : Codes, param : Numbers]
    BY <1>0, <1>6 DEF SetParameter
  <2> QED
    BY <1>1, <1>6, <2>1 DEF SetParameter, database, session, Places
<1>7. CASE Write(t)
  <2>1. UNCHANGED <<database, mStorages, session, mEvent, card, cards, raced>>
    BY <1>7 DEF Write
  <2>2. StorageOfEvent(mEvent) \in Numbers
    BY NumbersApart DEF StorageOfEvent
  <2>3. lost' \subseteq Numbers
    BY <1>7, <2>2 DEF Write
  <2>4. Told(mEvent) \in [listed : SUBSET Storages, objects : SUBSET Numbers]
    BY DEF Told
  <2>5. host' \in [listed : SUBSET Storages, objects : SUBSET Numbers]
    BY <1>7, <2>4 DEF Write
  <2>6. Done(t)
    BY <1>7 DEF Write
  <2> QED
    BY <1>2, <2>1, <2>3, <2>5, <2>6 DEF database, session
<1> QED
  BY <1>3, <1>4, <1>5, <1>6, <1>7 DEF SendEvent

(* No step breaks the types.                                               *)
LEMMA TypesNext == EventsTypeOK /\ Inv /\ [Next]_vars => EventsTypeOK'
<1> SUFFICES ASSUME EventsTypeOK, Inv, [Next]_vars PROVE EventsTypeOK'
  OBVIOUS
<1> USE DEF EventsTypeOK, database, session
<1>0. sender \in Senders
  BY DEF Inv, Locked
<1>1. ASSUME NEW t \in Threads, NEW pc \in {"notify", "check"}, NEW code, NEW param,
             Begin(t, pc, code, param)
      PROVE  \/ sender'["daemon"] # Idle
             \/ t # "daemon" /\ sender'["daemon"] = sender["daemon"]
  <2>1. sender'[t].pc = pc
    BY <1>0, <1>1 DEF Begin, Senders, At
  <2>2. \A u \in Threads \ {t} : sender'[u] = sender[u]
    BY <1>0, <1>1 DEF Begin, Senders
  <2>3. Idle.pc = "idle" /\ "daemon" \in Threads
    BY DEF Idle, At, Threads
  <2> QED
    BY <2>1, <2>2, <2>3
<1>2. ASSUME NEW t \in Threads, NEW s \in Storages, AddFileEntry(t, s)
      PROVE  EventsTypeOK'
  <2>1. counter \in Handles /\ counter' = counter + 1 /\ counter' \in 1 .. MaxHandle + 1
    BY <1>2, NumbersApart DEF AddFileEntry, Handles
  <2>2. mMutex' = "free" \/ (mMutex' = "daemon" /\ sender'["daemon"] # Idle)
    BY <1>1, <1>2 DEF AddFileEntry
  <2>3. raced' \in BOOLEAN
    BY <1>2 DEF AddFileEntry
  <2>4. /\ db' \in [Handles -> {NoObject} \cup Storages]
        /\ storageOf' \in [Handles -> {NoObject} \cup Storages]
    BY <1>2, <2>1 DEF AddFileEntry
  <2>5. UNCHANGED <<mStorages, session, mEvent, host, lost>>
    BY <1>2 DEF AddFileEntry
  <2> QED
    BY <2>1, <2>2, <2>3, <2>4, <2>5
<1>3. CASE Created
  BY <1>2, <1>3 DEF Created, Threads
<1>4. CASE Deleted
  <2>1. PICK h \in Handles :
          /\ db' = [db EXCEPT ![h] = NoObject]
          /\ Begin("notifier", "notify", "OBJECT_REMOVED", h)
          /\ raced' = (raced \/ Sending # {})
          /\ UNCHANGED <<counter, storageOf, mStorages, session, mMutex, mEvent,
                         card, cards, host, lost>>
    BY <1>4 DEF Deleted
  <2>2. mMutex' = "free" \/ (mMutex' = "daemon" /\ sender'["daemon"] # Idle)
    BY <1>1, <2>1 DEF Threads
  <2>3. raced' \in BOOLEAN
    BY <2>1
  <2> QED
    BY <2>1, <2>2, <2>3
<1>5. CASE CardIn \/ ScanDone
  BY <1>5 DEF CardIn, ScanDone
<1>6. CASE Scan
  BY <1>2, <1>6, NumbersApart DEF Scan, Threads
<1>7. CASE AddStorage
  BY <1>1, <1>7, NumbersApart DEF AddStorage, Threads
<1>8. CASE RemoveStorage
  <2>1. raced' \in BOOLEAN
    BY <1>8 DEF RemoveStorage
  <2> QED
    BY <1>1, <1>8, <2>1 DEF RemoveStorage, Threads
<1>9. CASE ForgetCard
  <2>1. raced' \in BOOLEAN
    BY <1>9 DEF ForgetCard
  <2>2. db' \in [Handles -> {NoObject} \cup Storages]
    BY <1>9 DEF ForgetCard
  <2>3. UNCHANGED <<counter, storageOf, mStorages, session, mMutex, mEvent,
                    sender, host, lost>>
    BY <1>9 DEF ForgetCard
  <2> QED
    BY <2>1, <2>2, <2>3
<1>10. CASE doOpenSession \/ doCloseSession
  <2>1. {mSessionOpen', local_server'} \subseteq BOOLEAN /\ host' = Nobody
    BY <1>10 DEF doOpenSession, doCloseSession
  <2>2. UNCHANGED <<database, mStorages, mMutex, mEvent, sender, raced, lost>>
    BY <1>10 DEF doOpenSession, doCloseSession
  <2>3. host' \in [listed : SUBSET Storages, objects : SUBSET Numbers]
    BY <2>1 DEF Nobody
  <2> QED
    BY <2>1, <2>2, <2>3
<1>11. CASE doGetObjectHandles
  <2>1. PICK s \in Asked :
          /\ hasStorage(s)
          /\ host' = [listed |-> host.listed
                                   \cup (IF s = All THEN mStorages ELSE {s}),
                      objects |-> {h \in host.objects : h \in Handles
                         => storageOf[h] \notin (IF s = All THEN mStorages ELSE {s})}
                                   \cup OfStorage(s)]
    BY <1>11 DEF doGetObjectHandles, getObjectList
  <2>2. host'.listed \subseteq Storages
    BY <2>1 DEF hasStorage
  <2>3. host'.objects \subseteq Numbers
    BY <2>1, NumbersApart DEF OfStorage
  <2>4. /\ lost' \subseteq Numbers
        /\ UNCHANGED <<database, mStorages, session, mMutex, mEvent, sender, raced>>
    BY <1>11 DEF doGetObjectHandles
  <2>5. host' \in [listed : SUBSET Storages, objects : SUBSET Numbers]
    BY <2>1, <2>2, <2>3
  <2> QED
    BY <2>4, <2>5
<1>12. CASE doSendObject
  <2>1. PICK s \in mStorages : /\ db' = [db EXCEPT ![counter] = s]
                               /\ storageOf' = [storageOf EXCEPT ![counter] = s]
    BY <1>12 DEF doSendObject
  <2>2. /\ counter \in Handles /\ counter' = counter + 1
        /\ host' = [host EXCEPT !.objects = @ \cup {counter}]
        /\ raced' = (raced \/ Sending # {})
        /\ UNCHANGED <<mStorages, session, mMutex, mEvent, sender, lost>>
    BY <1>12 DEF doSendObject
  <2>3. counter' \in 1 .. MaxHandle + 1
    BY <2>2, NumbersApart DEF Handles
  <2>4. host' \in [listed : SUBSET Storages, objects : SUBSET Numbers]
    BY <2>2, NumbersApart
  <2>5. raced' \in BOOLEAN
    BY <2>2
  <2> QED
    BY <2>1, <2>2, <2>3, <2>4, <2>5
<1>13. CASE doDeleteObject
  <2>1. PICK h \in host.objects \cap Handles :
          /\ db' = [db EXCEPT ![h] = NoObject]
          /\ host' = [host EXCEPT !.objects = @ \ {h}]
    BY <1>13 DEF doDeleteObject
  <2>2. /\ raced' = (raced \/ Sending # {})
        /\ UNCHANGED <<counter, storageOf, mStorages, session, mMutex, mEvent,
                       sender, lost>>
    BY <1>13 DEF doDeleteObject
  <2>3. host' \in [listed : SUBSET Storages, objects : SUBSET Numbers]
    BY <2>1
  <2>4. raced' \in BOOLEAN
    BY <2>2
  <2> QED
    BY <2>1, <2>2, <2>3, <2>4
<1>14. CASE \E t \in Threads : SendEvent(t)
  BY <1>14, TypesSendEvent
<1>15. CASE UNCHANGED vars
  BY <1>15 DEF vars
<1> QED
  BY <1>3, <1>4, <1>5, <1>6, <1>7, <1>8, <1>9, <1>10, <1>11, <1>12, <1>13,
     <1>14, <1>15
  DEF Next, Objects, Daemon, Handle

-----------------------------------------------------------------------------
(* What the host knows.                                                    *)

ObjectEvents == {"OBJECT_ADDED", "OBJECT_REMOVED"}

(* What a thread sends is of an object or of the card; a host that listed   *)
(* something is in a session; the daemon's sending has its place in the     *)
(* life of the card; and an object never changes its storage.               *)
Meant ==
  /\ \A t \in Threads :
       /\ sender[t].code = "none" => sender[t] = Idle
       /\ sender[t].code \in ObjectEvents => sender[t].param \in Handles
       /\ sender[t].code \in StoreEvents => sender[t].param = Card
  /\ local_server = mSessionOpen
  /\ host.listed # {} => mSessionOpen
  /\ sender["daemon"] # Idle => card \in {"scan", "in", "withdrawn"}
  /\ Card \in mStorages => card = "in"
  /\ \A h \in Handles : db[h] \in {NoObject, storageOf[h]}

(* An event of the object is on its way.                                   *)
Pending(h) ==
  \E t \in Threads : sender[t].code \in ObjectEvents /\ sender[t].param = h

(* The host knows all of the storages it follows but what is on its way.   *)
ToldButPending ==
  \A s \in host.listed \ lost, h \in Handles :
    storageOf[h] = s => Pending(h) \/ (h \in host.objects <=> db[h] = s)

(* As long as nothing raced, the packet is its writer's, and an event on    *)
(* its way tells what has come to be.                                       *)
Packet ==
  /\ \A t, u \in InPacket : t = u
  /\ \A t \in InPacket :
       /\ mEvent.code = sender[t].code
       /\ sender[t].pc = "write" => mEvent.param = sender[t].param
  /\ \A t \in Threads :
       /\ sender[t].code = "OBJECT_ADDED" =>
            db[sender[t].param] = storageOf[sender[t].param]
       /\ sender[t].code = "OBJECT_REMOVED" => db[sender[t].param] = NoObject

(* The card is followed while it is in, or until its removal is told.      *)
CardFollowed ==
  Card \in host.listed \ lost => card = "in" \/ sender["daemon"].code = "STORE_REMOVED"

Follows ==
  ~raced => host.objects \subseteq Handles /\ Packet /\ CardFollowed /\ ToldButPending

(* The invariant of the proof.                                             *)
KnowingInv == EventsTypeOK /\ Inv /\ Meant /\ Follows

LEMMA FollowsKnows == KnowingInv => HostKnows
<1> SUFFICES ASSUME KnowingInv, Quiet, ~raced, NEW s \in host.listed \ lost
             PROVE  Known(s) = OfStorage(s)
  BY DEF HostKnows
<1>1. \A h : ~Pending(h)
  BY DEF Quiet, Sending, Pending, Idle, At, ObjectEvents
<1>2. s \in Storages /\ s # NoObject
  BY NumbersApart DEF KnowingInv, EventsTypeOK
<1>3. host.objects \subseteq Handles
  BY DEF KnowingInv, Follows
<1>4. \A h \in Handles : storageOf[h] = s => (h \in host.objects <=> db[h] = s)
  BY <1>1 DEF KnowingInv, Follows, ToldButPending
<1>5. \A h \in Handles : db[h] = s => storageOf[h] = s
  BY <1>2 DEF KnowingInv, Meant
<1> QED
  BY <1>3, <1>4, <1>5 DEF Known, OfStorage

LEMMA FollowsInit == Init => Meant /\ Follows
<1> SUFFICES ASSUME Init PROVE Meant /\ Follows
  OBVIOUS
<1>1. \A t \in Threads : sender[t] = Idle /\ sender[t].code = "none"
                         /\ sender[t].pc = "idle"
  BY Steps DEF Init
<1>2. host.listed = {} /\ host.objects = {}
  BY DEF Init, Nobody
<1>3. sender["daemon"] = Idle
  BY <1>1 DEF Threads
<1>4. /\ local_server = mSessionOpen /\ mStorages = {Home}
      /\ \A h \in Handles : db[h] = NoObject
  BY DEF Init
<1>5. Meant
  BY <1>1, <1>2, <1>3, <1>4, NumbersApart DEF Meant, ObjectEvents, StoreEvents
<1>6. InPacket = {}
  BY <1>1 DEF InPacket
<1>7. Follows
  BY <1>1, <1>2, <1>6 DEF Follows, Packet, CardFollowed, ToldButPending
<1> QED
  BY <1>5, <1>7

(* What the steps of a thread do to its place, and to no other's.          *)
LEMMA SenderSteps ==
  ASSUME sender \in Senders, NEW t \in Threads
  PROVE  /\ \A pc, code, param : Begin(t, pc, code, param) =>
              /\ sender'[t].pc = pc /\ sender'[t].code = code
              /\ sender'[t].param = param
              /\ \A u \in Threads \ {t} : sender'[u] = sender[u]
         /\ Done(t) => /\ sender'[t] = Idle
                       /\ \A u \in Threads \ {t} : sender'[u] = sender[u]
         /\ \A pc : Goto(t, pc) =>
              /\ sender'[t].pc = pc /\ sender'[t].code = sender[t].code
              /\ sender'[t].param = sender[t].param
              /\ \A u \in Threads \ {t} : sender'[u] = sender[u]
<1>1. sender[t] \in [pc : Places, code : Codes, param : Numbers]
  BY DEF Senders
<1> QED
  BY <1>1 DEF Senders, Begin, Done, Goto, At

(* What is sent stays what it is until it is done.                         *)
LEMMA MeantSendEvent ==
  ASSUME EventsTypeOK, Inv, Meant, NEW t \in Threads, SendEvent(t)
  PROVE  Meant'
<1>1. sender \in Senders
  BY DEF Inv, Locked
<1>2. /\ UNCHANGED <<db, storageOf, mStorages, mSessionOpen, local_server, card>>
      /\ host'.listed \subseteq host.listed
  <2>1. Told(mEvent).listed \subseteq host.listed
    BY DEF EventsTypeOK, Told
  <2> QED
    BY <2>1 DEF SendEvent, Notify, Check, SetEventCode, SetParameter, Write,
                database, session
<1>3. sender[t] # Idle
  BY Steps DEF SendEvent, Notify, Check, SetEventCode, SetParameter, Write
<1>4. \/ Done(t)
      \/ \E pc \in Places : Goto(t, pc)
  BY DEF SendEvent, Notify, Check, SetEventCode, SetParameter, Write, Places
<1>5. \A u \in Threads \ {t} : sender'[u] = sender[u]
  BY <1>1, <1>4, SenderSteps
<1>6. \/ sender'[t] = Idle
      \/ sender'[t].code = sender[t].code /\ sender'[t].param = sender[t].param
  BY <1>1, <1>4, SenderSteps
<1>7. \A u \in Threads :
         /\ sender'[u].code = "none" => sender'[u] = Idle
         /\ sender'[u].code \in ObjectEvents => sender'[u].param \in Handles
         /\ sender'[u].code \in StoreEvents => sender'[u].param = Card
  BY <1>3, <1>5, <1>6, Steps DEF Meant, ObjectEvents, StoreEvents
<1>8. sender'["daemon"] # Idle => card' \in {"scan", "in", "withdrawn"}
  BY <1>2, <1>3, <1>5 DEF Meant, Threads
<1> QED
  BY <1>2, <1>7, <1>8 DEF Meant

(* A thread that gives up leaves the host as it is, and no host follows    *)
(* anything then.                                                          *)
LEMMA FollowsGivesUp ==
  ASSUME KnowingInv, NEW t \in Threads, Done(t), ~mSessionOpen,
         UNCHANGED <<db, storageOf, mEvent, card, host, raced, lost>>
  PROVE  Follows'
<1> SUFFICES ASSUME ~raced
             PROVE  (host.objects \subseteq Handles /\ Packet /\ CardFollowed /\ ToldButPending)'
  BY DEF Follows
<1>1. /\ sender'[t].pc = "idle" /\ sender'[t].code = "none"
      /\ \A u \in Threads \ {t} : sender'[u] = sender[u]
  BY Steps, SenderSteps DEF KnowingInv, Inv, Locked
<1>2. host'.listed = {} /\ host'.objects \subseteq Handles
  BY DEF KnowingInv, Meant, Follows
<1>3. Packet'
  BY <1>1 DEF KnowingInv, Follows, Packet, InPacket
<1> QED
  BY <1>2, <1>3 DEF CardFollowed, ToldButPending

(* A thread that goes on to check, or to its first field.                  *)
LEMMA FollowsGoesOn ==
  ASSUME KnowingInv, NEW t \in Threads, NEW pc \in {"check", "code"}, Goto(t, pc),
         UNCHANGED <<db, storageOf, mEvent, card, host, raced, lost>>
  PROVE  Follows'
<1> SUFFICES ASSUME ~raced
             PROVE  (host.objects \subseteq Handles /\ Packet /\ CardFollowed /\ ToldButPending)'
  BY DEF Follows
<1>1. /\ sender'[t].pc = pc
      /\ sender'[t].code = sender[t].code /\ sender'[t].param = sender[t].param
      /\ \A u \in Threads \ {t} : sender'[u] = sender[u]
  BY SenderSteps DEF KnowingInv, Inv, Locked
<1>2. \A u \in Threads : /\ sender'[u].code = sender[u].code
                         /\ sender'[u].param = sender[u].param
  BY <1>1
<1>3. Packet'
  <2>1. /\ InPacket' \subseteq InPacket
        /\ \A u \in InPacket' : sender'[u] = sender[u]
    BY <1>1 DEF InPacket
  <2> QED
    BY <1>2, <2>1 DEF KnowingInv, Follows, Packet
<1>4. CardFollowed'
  BY <1>2 DEF KnowingInv, Follows, CardFollowed, Threads
<1>5. ToldButPending'
  BY <1>2 DEF KnowingInv, Follows, ToldButPending, Pending
<1> QED
  BY <1>3, <1>4, <1>5 DEF KnowingInv, Follows

(* A thread that fills in the packet has it to itself.                     *)
LEMMA FollowsFills ==
  ASSUME KnowingInv, NEW t \in Threads, SetEventCode(t) \/ SetParameter(t)
  PROVE  Follows'
<1> SUFFICES ASSUME ~raced'
             PROVE  (host.objects \subseteq Handles /\ Packet /\ CardFollowed /\ ToldButPending)'
  BY DEF Follows
<1>1. /\ sender'[t].pc \in {"param", "write"}
      /\ sender'[t].code = sender[t].code /\ sender'[t].param = sender[t].param
      /\ \A u \in Threads \ {t} : sender'[u] = sender[u]
  BY SenderSteps DEF KnowingInv, Inv, Locked, SetEventCode, SetParameter
<1>2. \A u \in Threads : /\ sender'[u].code = sender[u].code
                         /\ sender'[u].param = sender[u].param
  BY <1>1
<1>3. UNCHANGED <<db, storageOf, card, host, lost>> /\ ~raced
  <2>1. CASE SetEventCode(t)
    BY <2>1 DEF SetEventCode, database
  <2>2. CASE SetParameter(t)
    BY <2>2 DEF SetParameter, database
  <2> QED
    BY <2>1, <2>2
<1>4. \A u \in InPacket : u = t
  <2>1. CASE SetEventCode(t)
    <3>1. InPacket = {}
      BY <2>1 DEF SetEventCode
    <3> QED
      BY <3>1
  <2>2. CASE SetParameter(t)
    <3>1. t \in InPacket
      BY <2>2 DEF SetParameter, InPacket
    <3> QED
      BY <1>3, <3>1 DEF KnowingInv, Follows, Packet
  <2> QED
    BY <2>1, <2>2
<1>5. InPacket' = {t}
  BY <1>1, <1>4 DEF InPacket
<1>6. /\ mEvent'.code = sender'[t].code
      /\ sender'[t].pc = "write" => mEvent'.param = sender'[t].param
  <2>1. mEvent \in [code : Codes, param : Numbers]
    BY DEF KnowingInv, EventsTypeOK
  <2>2. CASE SetEventCode(t)
    <3>1. sender'[t].pc = "param"
      BY <2>2, SenderSteps DEF KnowingInv, Inv, Locked, SetEventCode
    <3> QED
      BY <1>1, <2>1, <2>2, <3>1 DEF SetEventCode
  <2>3. CASE SetParameter(t)
    <3>1. t \in InPacket
      BY <2>3 DEF SetParameter, InPacket
    <3>2. mEvent.code = sender[t].code
      BY <1>3, <3>1 DEF KnowingInv, Follows, Packet
    <3> QED
      BY <1>1, <2>1, <2>3, <3>2 DEF SetParameter
  <2> QED
    BY <2>2, <2>3
<1>7. Packet'
  BY <1>2, <1>3, <1>5, <1>6 DEF KnowingInv, Follows, Packet
<1>8. CardFollowed'
  BY <1>2, <1>3 DEF KnowingInv, Follows, CardFollowed, Threads
<1>9. ToldButPending'
  BY <1>2, <1>3 DEF KnowingInv, Follows, ToldButPending, Pending
<1> QED
  BY <1>3, <1>7, <1>8, <1>9 DEF KnowingInv, Follows

(* What is written is what its writer meant, so the host learns of the      *)
(* object or of the card, or the event is marked as lost.                  *)
LEMMA FollowsWrite ==
  ASSUME KnowingInv, NEW t \in Threads, Write(t)
  PROVE  Follows'
<1> SUFFICES ASSUME ~raced'
             PROVE  (host.objects \subseteq Handles /\ Packet /\ CardFollowed /\ ToldButPending)'
  BY DEF Follows
<1> DEFINE h == sender[t].param
<1>1. /\ sender'[t].pc = "idle" /\ sender'[t].code = "none"
      /\ \A u \in Threads \ {t} : sender'[u] = sender[u]
  BY Steps, SenderSteps DEF KnowingInv, Inv, Locked, Write
<1>2. /\ UNCHANGED <<db, storageOf, mEvent, mSessionOpen, card>> /\ ~raced
      /\ host.objects \subseteq Handles /\ Packet /\ CardFollowed /\ ToldButPending
  BY DEF Write, database, session, KnowingInv, Follows
<1>3. mEvent.code = sender[t].code /\ mEvent.param = h
  BY <1>2 DEF Write, InPacket, Packet
<1>4. /\ sender[t].code \in ObjectEvents \cup StoreEvents
      /\ sender[t].code \in ObjectEvents => h \in Handles
      /\ sender[t].code \in StoreEvents => h = Card
  <2>1. sender[t].code \in Codes /\ sender[t] # Idle
    BY Steps DEF KnowingInv, Inv, Locked, Senders, Write
  <2> QED
    BY <2>1 DEF KnowingInv, Meant, Codes, ObjectEvents, StoreEvents
<1>5. Packet'
  <2>1. /\ InPacket' \subseteq InPacket
        /\ \A u \in InPacket' : sender'[u] = sender[u]
    BY <1>1 DEF InPacket
  <2> QED
    BY <1>1, <1>2, <2>1 DEF Packet
<1>6. ASSUME NEW k, Pending(k), k # h \/ sender[t].code \in StoreEvents
      PROVE  Pending(k)'
  BY <1>1, <1>6 DEF Pending, ObjectEvents, StoreEvents
<1>7. CASE lost' = lost \cup {StorageOfEvent(mEvent)} /\ UNCHANGED host
  <2>1. CardFollowed'
    <3>1. ASSUME sender["daemon"].code = "STORE_REMOVED", t = "daemon"
          PROVE  Card \in lost'
      BY <1>3, <1>4, <1>7, <3>1, NumbersApart DEF StorageOfEvent, StoreEvents
    <3> QED
      BY <1>1, <1>2, <1>7, <3>1 DEF CardFollowed, Threads
  <2>2. ASSUME sender[t].code \in ObjectEvents PROVE storageOf[h] \in lost'
    BY <1>3, <1>4, <1>7, <2>2 DEF StorageOfEvent
  <2>3. ToldButPending'
    <3> SUFFICES ASSUME NEW s \in host'.listed \ lost', NEW k \in Handles,
                        storageOf'[k] = s
                 PROVE  Pending(k)' \/ (k \in host'.objects <=> db'[k] = s)
      BY DEF ToldButPending
    <3>1. Pending(k) \/ (k \in host.objects <=> db[k] = s)
      BY <1>2, <1>7 DEF ToldButPending
    <3>2. k # h \/ sender[t].code \in StoreEvents
      BY <1>2, <1>4, <2>2
    <3> QED
      BY <1>2, <1>6, <1>7, <3>1, <3>2
  <2> QED
    BY <1>2, <1>5, <1>7, <2>1, <2>3
<1>8. CASE UNCHANGED lost /\ ~mSessionOpen /\ UNCHANGED host
  <2>1. host.listed = {}
    BY <1>8 DEF KnowingInv, Meant
  <2> QED
    BY <1>2, <1>5, <1>8, <2>1 DEF CardFollowed, ToldButPending
<1>9. CASE UNCHANGED lost /\ host' = Told(mEvent)
  <2>1. CASE sender[t].code = "OBJECT_ADDED"
    <3>1. host'.listed = host.listed /\ host'.objects = host.objects \cup {h}
      BY <1>3, <1>9, <2>1 DEF Told, KnowingInv, EventsTypeOK
    <3>2. h \in Handles /\ db[h] = storageOf[h]
      BY <1>2, <1>4, <2>1 DEF Packet, ObjectEvents
    <3>3. CardFollowed'
      BY <1>1, <1>2, <1>9, <2>1, <3>1 DEF CardFollowed, Threads
    <3>4. ToldButPending'
      <4> SUFFICES ASSUME NEW s \in host'.listed \ lost', NEW k \in Handles,
                          storageOf'[k] = s
                   PROVE  Pending(k)' \/ (k \in host'.objects <=> db'[k] = s)
        BY DEF ToldButPending
      <4>0. s \in host.listed \ lost /\ storageOf[k] = s /\ db' = db
        BY <1>2, <1>9, <3>1
      <4>1. CASE k = h
        BY <3>1, <3>2, <4>0, <4>1
      <4>2. CASE k # h
        <5>1. Pending(k) \/ (k \in host.objects <=> db[k] = s)
          BY <1>2, <4>0 DEF ToldButPending
        <5> QED
          BY <1>6, <3>1, <4>0, <4>2, <5>1
      <4> QED
        BY <4>1, <4>2
    <3> QED
      BY <1>2, <1>5, <3>1, <3>2, <3>3, <3>4
  <2>2. CASE sender[t].code = "OBJECT_REMOVED"
    <3>1. host'.listed = host.listed /\ host'.objects = host.objects \ {h}
      BY <1>3, <1>9, <2>2 DEF Told, KnowingInv, EventsTypeOK
    <3>2. h \in Handles /\ db[h] = NoObject
      BY <1>2, <1>4, <2>2 DEF Packet, ObjectEvents
    <3>3. CardFollowed'
      BY <1>1, <1>2, <1>9, <2>2, <3>1 DEF CardFollowed, Threads
    <3>4. \A s \in host.listed : s # NoObject
      BY NumbersApart DEF KnowingInv, EventsTypeOK
    <3>5. ToldButPending'
      <4> SUFFICES ASSUME NEW s \in host'.listed \ lost', NEW k \in Handles,
                          storageOf'[k] = s
                   PROVE  Pending(k)' \/ (k \in host'.objects <=> db'[k] = s)
        BY DEF ToldButPending
      <4>0. s \in host.listed \ lost /\ storageOf[k] = s /\ db' = db
        BY <1>2, <1>9, <3>1
      <4>1. CASE k = h
        BY <3>1, <3>2, <3>4, <4>0, <4>1
      <4>2. CASE k # h
        <5>1. Pending(k) \/ (k \in host.objects <=> db[k] = s)
          BY <1>2, <4>0 DEF ToldButPending
        <5> QED
          BY <1>6, <3>1, <4>0, <4>2, <5>1
      <4> QED
        BY <4>1, <4>2
    <3> QED
      BY <1>2, <1>5, <3>1, <3>3, <3>5
  <2>3. CASE sender[t].code = "STORE_ADDED"
    <3>1. UNCHANGED host
      BY <1>3, <1>9, <2>3 DEF Told
    <3>2. CardFollowed'
      BY <1>1, <1>2, <1>9, <2>3, <3>1 DEF CardFollowed, Threads
    <3>3. ToldButPending'
      BY <1>2, <1>6, <1>9, <2>3, <3>1 DEF ToldButPending, StoreEvents
    <3> QED
      BY <1>2, <1>5, <3>1, <3>2, <3>3
  <2>4. CASE sender[t].code = "STORE_REMOVED"
    <3>1. /\ host'.listed = host.listed \ {Card}
          /\ host'.objects = {k \in host.objects : k \in Handles => storageOf[k] # Card}
      BY <1>3, <1>4, <1>9, <2>4 DEF Told, StoreEvents
    <3>2. CardFollowed'
      BY <3>1 DEF CardFollowed
    <3>3. ToldButPending'
      BY <1>2, <1>6, <1>9, <2>4, <3>1 DEF ToldButPending, StoreEvents
    <3> QED
      BY <1>2, <1>5, <3>1, <3>2, <3>3
  <2> QED
    BY <1>4, <2>1, <2>2, <2>3, <2>4 DEF ObjectEvents, StoreEvents
<1> QED
  BY <1>7, <1>8, <1>9 DEF Write

(* A thread that begins an event names an object or the card.              *)
LEMMA MeantBegin ==
  ASSUME EventsTypeOK, Inv, Meant, NEW t \in Threads, NEW pc, NEW code, NEW param,
         Begin(t, pc, code, param),
         \/ code \in ObjectEvents /\ param \in Handles
         \/ code \in StoreEvents /\ param = Card
  PROVE  \A u \in Threads :
           /\ sender'[u].code = "none" => sender'[u] = Idle
           /\ sender'[u].code \in ObjectEvents => sender'[u].param \in Handles
           /\ sender'[u].code \in StoreEvents => sender'[u].param = Card
<1>1. /\ sender'[t].code = code /\ sender'[t].param = param
      /\ \A u \in Threads \ {t} : sender'[u] = sender[u]
  BY SenderSteps DEF Inv, Locked
<1> QED
  BY <1>1 DEF Meant, ObjectEvents, StoreEvents

LEMMA MeantAddFileEntry ==
  ASSUME EventsTypeOK, Inv, Meant, NEW t \in Threads, NEW s \in Storages,
         AddFileEntry(t, s), t = "daemon" => card = "scan"
  PROVE  Meant'
<1>1. /\ counter \in Handles
      /\ db' = [db EXCEPT ![counter] = s]
      /\ storageOf' = [storageOf EXCEPT ![counter] = s]
      /\ Begin(t, "notify", "OBJECT_ADDED", counter)
      /\ UNCHANGED <<mStorages, mSessionOpen, local_server, card, host>>
  BY DEF AddFileEntry, session
<1>2. \A h \in Handles : db'[h] \in {NoObject, storageOf'[h]}
  BY <1>1 DEF EventsTypeOK, Meant
<1>3. sender'["daemon"] # Idle => card' \in {"scan", "in", "withdrawn"}
  BY <1>1, SenderSteps DEF Inv, Locked, Meant, Threads
<1>4. \A u \in Threads :
         /\ sender'[u].code = "none" => sender'[u] = Idle
         /\ sender'[u].code \in ObjectEvents => sender'[u].param \in Handles
         /\ sender'[u].code \in StoreEvents => sender'[u].param = Card
  BY <1>1, MeantBegin DEF ObjectEvents
<1> QED
  BY <1>1, <1>2, <1>3, <1>4 DEF Meant

LEMMA MeantNext == EventsTypeOK /\ Inv /\ Meant /\ [Next]_vars => Meant'
<1> SUFFICES ASSUME EventsTypeOK, Inv, Meant, [Next]_vars PROVE Meant'
  OBVIOUS
<1> DEFINE Named ==
      \A u \in Threads :
         /\ sender'[u].code = "none" => sender'[u] = Idle
         /\ sender'[u].code \in ObjectEvents => sender'[u].param \in Handles
         /\ sender'[u].code \in StoreEvents => sender'[u].param = Card
<1>1. CASE Created
  BY <1>1, MeantAddFileEntry DEF Created, Threads
<1>2. CASE Deleted
  <2>1. PICK h \in Handles :
          /\ db' = [db EXCEPT ![h] = NoObject]
          /\ Begin("notifier", "notify", "OBJECT_REMOVED", h)
          /\ UNCHANGED <<storageOf, mStorages, mSessionOpen, local_server, card, host>>
    BY <1>2 DEF Deleted, session
  <2>2. Named
    BY <2>1, MeantBegin DEF ObjectEvents, Threads
  <2>3. UNCHANGED sender["daemon"]
    BY <2>1, SenderSteps DEF Inv, Locked, Threads
  <2>4. \A k \in Handles : db'[k] \in {NoObject, storageOf'[k]}
    BY <2>1 DEF EventsTypeOK, Meant
  <2> QED
    BY <2>1, <2>2, <2>3, <2>4 DEF Meant
<1>3. CASE CardIn
  BY <1>3, NumbersApart DEF CardIn, Meant, database, session
<1>4. CASE Scan
  BY <1>4, MeantAddFileEntry, NumbersApart DEF Scan, Threads
<1>5. CASE ScanDone
  BY <1>5, NumbersApart DEF ScanDone, Meant, database, session
<1>6. CASE AddStorage \/ RemoveStorage
  <2>1. /\ \E code \in StoreEvents : Begin("daemon", "check", code, Card)
        /\ card' \in {"in", "withdrawn"} /\ (Card \in mStorages' => card' = "in")
        /\ UNCHANGED <<db, storageOf, mSessionOpen, local_server, host>>
    BY <1>6 DEF AddStorage, RemoveStorage, StoreEvents, database, session
  <2>2. Named
    BY <2>1, MeantBegin DEF Threads
  <2> QED
    BY <2>1, <2>2 DEF Meant
<1>7. CASE ForgetCard
  <2>1. /\ sender["daemon"] = Idle
        /\ db' = [h \in Handles |-> IF db[h] = Card THEN NoObject ELSE db[h]]
        /\ card = "withdrawn"
        /\ UNCHANGED <<storageOf, mStorages, mSessionOpen, local_server, sender, host>>
    BY <1>7 DEF ForgetCard, session
  <2>2. \A k \in Handles : db'[k] \in {NoObject, storageOf'[k]}
    BY <2>1 DEF Meant
  <2> QED
    BY <2>1, <2>2 DEF Meant
<1>8. CASE doOpenSession \/ doCloseSession
  <2>1. /\ local_server' = mSessionOpen' /\ host' = Nobody
        /\ UNCHANGED <<db, storageOf, mStorages, sender, card>>
    BY <1>8 DEF doOpenSession, doCloseSession, database
  <2>2. host'.listed = {}
    BY <2>1 DEF Nobody
  <2> QED
    BY <2>1, <2>2 DEF Meant
<1>9. CASE doGetObjectHandles
  BY <1>9 DEF doGetObjectHandles, Meant, database, session
<1>10. CASE doSendObject
  <2>1. PICK s \in mStorages : /\ db' = [db EXCEPT ![counter] = s]
                               /\ storageOf' = [storageOf EXCEPT ![counter] = s]
    BY <1>10 DEF doSendObject
  <2>2. /\ mSessionOpen
        /\ UNCHANGED <<mStorages, mSessionOpen, local_server, sender, card>>
    BY <1>10 DEF doSendObject, session
  <2>3. \A k \in Handles : db'[k] \in {NoObject, storageOf'[k]}
    BY <2>1 DEF EventsTypeOK, Meant
  <2> QED
    BY <2>2, <2>3 DEF Meant
<1>11. CASE doDeleteObject
  <2>1. PICK h \in Handles : db' = [db EXCEPT ![h] = NoObject]
    BY <1>11 DEF doDeleteObject
  <2>2. /\ mSessionOpen
        /\ UNCHANGED <<storageOf, mStorages, mSessionOpen, local_server, sender, card>>
    BY <1>11 DEF doDeleteObject, session
  <2>3. \A k \in Handles : db'[k] \in {NoObject, storageOf'[k]}
    BY <2>1, <2>2 DEF EventsTypeOK, Meant
  <2> QED
    BY <2>2, <2>3 DEF Meant
<1>12. CASE \E t \in Threads : SendEvent(t)
  BY <1>12, MeantSendEvent
<1>13. CASE UNCHANGED vars
  BY <1>13 DEF vars, Meant, database, session
<1> QED
  BY <1>1, <1>2, <1>3, <1>4, <1>5, <1>6, <1>7, <1>8, <1>9, <1>10, <1>11, <1>12,
     <1>13
  DEF Next, Objects, Daemon, Handle

(* Nobody is sending.                                                      *)
LEMMA NobodySends ==
  ASSUME Sending = {}
  PROVE  /\ \A t \in Threads : /\ sender[t] = Idle
                                /\ sender[t].pc = "idle" /\ sender[t].code = "none"
         /\ InPacket = {} /\ \A h : ~Pending(h)
<1>1. \A t \in Threads : sender[t] = Idle
  BY DEF Sending
<1> QED
  BY <1>1, Steps DEF InPacket, Pending, ObjectEvents

(* A thread begins to tell of an object that came or went, while nobody    *)
(* else sends: the rest of what the host follows is as it was.             *)
LEMMA FollowsTells ==
  ASSUME KnowingInv, ~raced, Sending = {}, NEW t \in Threads, NEW h \in Handles,
         NEW code \in ObjectEvents, Begin(t, "notify", code, h),
         code = "OBJECT_ADDED" => db'[h] = storageOf'[h],
         code = "OBJECT_REMOVED" => db'[h] = NoObject,
         \A k \in Handles \ {h} : db'[k] = db[k] /\ storageOf'[k] = storageOf[k],
         UNCHANGED <<card, host, lost>>
  PROVE  Follows'
<1>1. /\ sender'[t].pc = "notify" /\ sender'[t].code = code /\ sender'[t].param = h
      /\ \A u \in Threads \ {t} : sender'[u] = sender[u]
  BY SenderSteps DEF KnowingInv, Inv, Locked
<1>2. \A u \in Threads : sender[u].pc = "idle" /\ sender[u].code = "none"
  BY NobodySends
<1>3. InPacket' = {}
  BY <1>1, <1>2 DEF InPacket
<1>4. Packet'
  BY <1>1, <1>2, <1>3 DEF Packet, ObjectEvents
<1>5. CardFollowed'
  BY <1>2 DEF KnowingInv, Follows, CardFollowed, Threads
<1>6. Pending(h)'
  BY <1>1 DEF Pending
<1>7. ToldButPending'
  BY <1>6, NobodySends DEF KnowingInv, Follows, ToldButPending
<1> QED
  BY <1>4, <1>5, <1>7 DEF KnowingInv, Follows

(* The host lists one storage: it knows that one, and of the others what   *)
(* it knew.                                                                *)
LEMMA FollowsLists ==
  ASSUME KnowingInv, AskAll = FALSE, doGetObjectHandles
  PROVE  Follows'
<1> SUFFICES ASSUME ~raced'
             PROVE  (host.objects \subseteq Handles /\ Packet /\ CardFollowed /\ ToldButPending)'
  BY DEF Follows
<1>1. Asked = Storages /\ All \notin Storages
  BY NumbersApart DEF Asked, All, Storages, Home, Card
<1>2. PICK s \in Storages :
        /\ s \in mStorages
        /\ host' = [listed |-> host.listed \cup {s},
                    objects |-> {h \in host.objects : h \in Handles
                                   => storageOf[h] \notin {s}} \cup OfStorage(s)]
        /\ lost' = lost \ {s}
  BY <1>1 DEF doGetObjectHandles, hasStorage, getObjectList
<1>3. /\ UNCHANGED <<db, storageOf, mEvent, sender, card>> /\ ~raced
      /\ host.objects \subseteq Handles /\ Packet /\ CardFollowed /\ ToldButPending
  BY DEF doGetObjectHandles, database, KnowingInv, Follows
<1>4. host'.objects \subseteq Handles
  BY <1>2, <1>3 DEF OfStorage
<1>5. Packet'
  BY <1>3 DEF Packet, InPacket
<1>6. CardFollowed'
  BY <1>2, <1>3 DEF CardFollowed, KnowingInv, Meant
<1>7. ToldButPending'
  <2> SUFFICES ASSUME NEW z \in host'.listed \ lost', NEW h \in Handles,
                      storageOf'[h] = z, ~Pending(h)'
               PROVE  h \in host'.objects <=> db'[h] = z
    BY DEF ToldButPending
  <2>1. h \in host'.objects <=>
          (h \in host.objects /\ storageOf[h] # s) \/ db[h] = s
    BY <1>2 DEF OfStorage
  <2>2. storageOf[h] = z /\ db' = db
    BY <1>3
  <2>3. CASE z = s
    BY <2>1, <2>2, <2>3
  <2>4. CASE z # s
    <3>1. z \in host.listed \ lost /\ ~Pending(h)
      BY <1>2, <1>3, <2>4 DEF Pending
    <3>2. h \in host.objects <=> db[h] = z
      BY <1>3, <2>2, <3>1 DEF ToldButPending
    <3>3. db[h] # s
      BY <2>2, <2>4, NumbersApart DEF KnowingInv, Meant
    <3> QED
      BY <2>1, <2>2, <2>4, <3>2, <3>3
  <2> QED
    BY <2>3, <2>4
<1> QED
  BY <1>4, <1>5, <1>6, <1>7

(* The host changes an object itself, while nobody sends.                  *)
LEMMA FollowsChanges ==
  ASSUME KnowingInv, doSendObject \/ doDeleteObject
  PROVE  Follows'
<1> SUFFICES ASSUME ~raced'
             PROVE  (host.objects \subseteq Handles /\ Packet /\ CardFollowed /\ ToldButPending)'
  BY DEF Follows
<1>1. Sending = {} /\ ~raced /\ UNCHANGED <<mEvent, sender, card, lost>>
  <2>1. CASE doSendObject
    BY <2>1 DEF doSendObject
  <2>2. CASE doDeleteObject
    BY <2>2 DEF doDeleteObject
  <2> QED
    BY <2>1, <2>2
<1>2. /\ host.objects \subseteq Handles /\ CardFollowed /\ ToldButPending
      /\ InPacket = {}
      /\ \A u \in Threads : sender[u].code = "none"
      /\ \A h : ~Pending(h)
  BY <1>1, NobodySends DEF KnowingInv, Follows
<1>3. Packet'
  <2>1. InPacket' = {}
    BY <1>1, <1>2 DEF InPacket
  <2> QED
    BY <1>1, <1>2, <2>1 DEF Packet
<1>4. \E h \in Handles, z \in {NoObject} \cup Storages :
         /\ db' = [db EXCEPT ![h] = z]
         /\ z # NoObject => /\ storageOf' = [storageOf EXCEPT ![h] = z]
                            /\ host'.objects = host.objects \cup {h}
         /\ z = NoObject => /\ storageOf' = storageOf
                            /\ host'.objects = host.objects \ {h}
         /\ host'.listed = host.listed
  <2>1. CASE doSendObject
    BY <2>1, NumbersApart, ZenonT(40) DEF doSendObject, KnowingInv, EventsTypeOK
  <2>2. CASE doDeleteObject
    BY <2>2, NumbersApart DEF doDeleteObject, KnowingInv, EventsTypeOK
  <2> QED
    BY <2>1, <2>2
<1>5. host'.objects \subseteq Handles /\ host'.listed = host.listed
  BY <1>2, <1>4
<1>6. CardFollowed'
  BY <1>1, <1>2, <1>5 DEF CardFollowed
<1>7. ToldButPending'
  <2> SUFFICES ASSUME NEW s \in host'.listed \ lost', NEW k \in Handles,
                      storageOf'[k] = s
               PROVE  k \in host'.objects <=> db'[k] = s
    BY DEF ToldButPending
  <2>1. PICK h \in Handles, z \in {NoObject} \cup Storages :
         /\ db' = [db EXCEPT ![h] = z]
         /\ z # NoObject => /\ storageOf' = [storageOf EXCEPT ![h] = z]
                            /\ host'.objects = host.objects \cup {h}
         /\ z = NoObject => /\ storageOf' = storageOf
                            /\ host'.objects = host.objects \ {h}
    BY <1>4
  <2>2. /\ db \in [Handles -> {NoObject} \cup Storages]
        /\ storageOf \in [Handles -> {NoObject} \cup Storages]
        /\ s # NoObject
    BY <1>5, NumbersApart DEF KnowingInv, EventsTypeOK
  <2>3. CASE k = h
    BY <2>1, <2>2, <2>3
  <2>4. CASE k # h
    <3>1. storageOf[k] = s /\ db'[k] = db[k]
      BY <2>1, <2>2, <2>4
    <3>2. k \in host.objects <=> db[k] = s
      BY <1>1, <1>2, <1>5, <3>1 DEF ToldButPending
    <3> QED
      BY <2>1, <2>4, <3>1, <3>2
  <2> QED
    BY <2>3, <2>4
<1> QED
  BY <1>3, <1>5, <1>6, <1>7

(* The card: it is followed by nobody when its objects are forgotten.      *)
LEMMA FollowsCard ==
  ASSUME KnowingInv, CardIn \/ ScanDone \/ AddStorage \/ RemoveStorage \/ ForgetCard
  PROVE  Follows'
<1> SUFFICES ASSUME ~raced'
             PROVE  (host.objects \subseteq Handles /\ Packet /\ CardFollowed /\ ToldButPending)'
  BY DEF Follows
<1>1. UNCHANGED <<storageOf, mEvent, host, lost>> /\ ~raced
  <2>1. CASE CardIn \/ ScanDone \/ AddStorage
    BY <2>1 DEF CardIn, ScanDone, AddStorage, database
  <2>2. CASE RemoveStorage
    BY <2>2 DEF RemoveStorage, database
  <2>3. CASE ForgetCard
    BY <2>3 DEF ForgetCard
  <2> QED
    BY <2>1, <2>2, <2>3
<1>2. host.objects \subseteq Handles /\ Packet /\ CardFollowed /\ ToldButPending
  BY <1>1 DEF KnowingInv, Follows
<1>3. CASE CardIn \/ ScanDone
  <2>1. UNCHANGED <<db, sender>>
    BY <1>3 DEF CardIn, ScanDone, database
  <2>2. Card \notin host.listed \ lost
    BY <1>2, <1>3, Steps DEF CardIn, ScanDone, CardFollowed, KnowingInv, Meant
  <2> QED
    BY <1>1, <1>2, <2>1, <2>2
    DEF Packet, InPacket, CardFollowed, ToldButPending, Pending
<1>4. ASSUME NEW code \in StoreEvents, Begin("daemon", "check", code, Card),
             sender["daemon"] = Idle, UNCHANGED db,
             card' = "in" \/ code = "STORE_REMOVED"
      PROVE  (host.objects \subseteq Handles /\ Packet /\ CardFollowed /\ ToldButPending)'
  <2>1. /\ sender'["daemon"].pc = "check" /\ sender'["daemon"].code = code
        /\ \A u \in Threads \ {"daemon"} : sender'[u] = sender[u]
    BY <1>4, SenderSteps DEF KnowingInv, Inv, Locked, Threads
  <2>2. sender["daemon"].code = "none"
    BY <1>4, Steps
  <2>3. /\ InPacket' \subseteq InPacket
        /\ \A u \in InPacket' : sender'[u] = sender[u]
    BY <2>1 DEF InPacket
  <2>4. Packet'
    BY <1>1, <1>2, <1>4, <2>1, <2>3 DEF Packet, StoreEvents
  <2>5. CardFollowed'
    BY <1>4, <2>1 DEF CardFollowed
  <2>6. \A h : Pending(h) => Pending(h)'
    BY <2>1, <2>2 DEF Pending, ObjectEvents
  <2>7. ToldButPending'
    BY <1>1, <1>2, <1>4, <2>6 DEF ToldButPending
  <2> QED
    BY <1>1, <1>2, <2>4, <2>5, <2>7
<1>5. CASE AddStorage
  <2>1. sender["daemon"] = Idle
    BY <1>5 DEF AddStorage, KnowingInv, Meant
  <2> QED
    BY <1>4, <1>5, <2>1 DEF AddStorage, StoreEvents, database
<1>6. CASE RemoveStorage
  BY <1>4, <1>6 DEF RemoveStorage, StoreEvents, database
<1>7. CASE ForgetCard
  <2>1. Sending = {}
    BY <1>7 DEF ForgetCard
  <2>2. /\ UNCHANGED sender /\ card = "withdrawn"
        /\ db' = [h \in Handles |-> IF db[h] = Card THEN NoObject ELSE db[h]]
    BY <1>7 DEF ForgetCard
  <2>3. /\ InPacket = {} /\ \A u \in Threads : sender[u].code = "none"
        /\ \A h : ~Pending(h)
    BY <2>1, NobodySends
  <2>4. Card \notin host.listed \ lost
    BY <1>2, <2>2, <2>3 DEF CardFollowed, Threads
  <2>5. Packet'
    <3>1. InPacket' = {}
      BY <2>2, <2>3 DEF InPacket
    <3> QED
      BY <2>2, <2>3, <3>1 DEF Packet
  <2>6. CardFollowed'
    BY <1>1, <2>4 DEF CardFollowed
  <2>7. ToldButPending'
    <3> SUFFICES ASSUME NEW s \in host'.listed \ lost', NEW k \in Handles,
                        storageOf'[k] = s
                 PROVE  k \in host'.objects <=> db'[k] = s
      BY DEF ToldButPending
    <3>1. s # Card /\ s # NoObject /\ s \in host.listed \ lost
      BY <1>1, <2>4, NumbersApart DEF KnowingInv, EventsTypeOK
    <3>2. k \in host.objects <=> db[k] = s
      BY <1>1, <1>2, <2>3, <3>1 DEF ToldButPending
    <3> QED
      BY <1>1, <2>2, <3>1, <3>2
  <2> QED
    BY <1>1, <1>2, <2>5, <2>6, <2>7
<1> QED
  BY <1>3, <1>5, <1>6, <1>7

(* No step breaks what the host knows.                                     *)
LEMMA FollowsNext ==
  ASSUME KnowingInv, AskAll = FALSE, [Next]_vars
  PROVE  Follows'
<1>1. ASSUME NEW t \in Threads, NEW s \in Storages, AddFileEntry(t, s)
      PROVE  Follows'
  <2> SUFFICES ASSUME ~raced' PROVE Follows'
    BY DEF Follows
  <2>1. /\ ~raced /\ Sending = {} /\ counter \in Handles
        /\ Begin(t, "notify", "OBJECT_ADDED", counter)
        /\ db' = [db EXCEPT ![counter] = s]
        /\ storageOf' = [storageOf EXCEPT ![counter] = s]
    BY <1>1 DEF AddFileEntry
  <2>2. UNCHANGED <<card, host, lost>>
    BY <1>1 DEF AddFileEntry
  <2>3. /\ db'[counter] = storageOf'[counter]
        /\ \A k \in Handles \ {counter} :
             db'[k] = db[k] /\ storageOf'[k] = storageOf[k]
    BY <2>1 DEF KnowingInv, EventsTypeOK
  <2> QED
    BY <2>1, <2>2, <2>3, FollowsTells DEF ObjectEvents
<1>2. CASE Created
  BY <1>1, <1>2 DEF Created, Threads
<1>3. CASE Deleted
  <2> SUFFICES ASSUME ~raced' PROVE Follows'
    BY DEF Follows
  <2>1. PICK h \in Handles :
          /\ db' = [db EXCEPT ![h] = NoObject]
          /\ Begin("notifier", "notify", "OBJECT_REMOVED", h)
          /\ raced' = (raced \/ Sending # {})
          /\ UNCHANGED <<storageOf, card, host, lost>>
    BY <1>3 DEF Deleted
  <2>2. ~raced /\ Sending = {}
    BY <2>1
  <2>3. /\ db'[h] = NoObject
        /\ \A k \in Handles \ {h} : db'[k] = db[k] /\ storageOf'[k] = storageOf[k]
    BY <2>1 DEF KnowingInv, EventsTypeOK
  <2> QED
    BY <2>1, <2>2, <2>3, FollowsTells DEF ObjectEvents, Threads
<1>4. CASE CardIn \/ ScanDone \/ AddStorage \/ RemoveStorage \/ ForgetCard
  BY <1>4, FollowsCard
<1>5. CASE Scan
  BY <1>1, <1>5, NumbersApart DEF Scan, Threads
<1>6. CASE doOpenSession \/ doCloseSession
  <2>1. host' = Nobody /\ UNCHANGED <<db, storageOf, mEvent, sender, card, raced, lost>>
    BY <1>6 DEF doOpenSession, doCloseSession, database
  <2>2. host'.listed = {} /\ host'.objects = {}
    BY <2>1 DEF Nobody
  <2>3. ASSUME ~raced PROVE Packet'
    BY <2>1, <2>3 DEF KnowingInv, Follows, Packet, InPacket
  <2> QED
    BY <2>1, <2>2, <2>3 DEF Follows, CardFollowed, ToldButPending
<1>7. CASE doGetObjectHandles
  BY <1>7, FollowsLists
<1>8. CASE doSendObject \/ doDeleteObject
  BY <1>8, FollowsChanges
<1>9. ASSUME NEW t \in Threads, SendEvent(t) PROVE Follows'
  <2>1. CASE Notify(t)
    <3>1. UNCHANGED <<db, storageOf, mEvent, card, host, raced, lost>>
      BY <2>1 DEF Notify, database
    <3>2. Goto(t, "check") \/ (Done(t) /\ ~mSessionOpen)
      BY <2>1 DEF Notify, KnowingInv, Meant
    <3> QED
      BY <3>1, <3>2, FollowsGivesUp, FollowsGoesOn
  <2>2. CASE Check(t)
    <3>1. UNCHANGED <<db, storageOf, mEvent, card, host, raced, lost>>
      BY <2>2 DEF Check, database
    <3>2. Goto(t, "code") \/ (Done(t) /\ ~mSessionOpen)
      BY <2>2 DEF Check
    <3> QED
      BY <3>1, <3>2, FollowsGivesUp, FollowsGoesOn
  <2>3. CASE SetEventCode(t) \/ SetParameter(t)
    BY <2>3, FollowsFills
  <2>4. CASE Write(t)
    BY <2>4, FollowsWrite
  <2> QED
    BY <1>9, <2>1, <2>2, <2>3, <2>4 DEF SendEvent
<1>10. CASE UNCHANGED vars
  <2>1. UNCHANGED <<db, storageOf, mEvent, sender, card, host, raced, lost>>
    BY <1>10 DEF vars, database
  <2> QED
    BY <2>1 DEF KnowingInv, Follows, Packet, InPacket, CardFollowed,
                ToldButPending, Pending
<1> QED
  BY <1>2, <1>3, <1>4, <1>5, <1>6, <1>7, <1>8, <1>9, <1>10
  DEF Next, Objects, Daemon, Handle

(* A host that lists each storage by itself and follows the events knows   *)
(* the objects of every storage it listed, once nothing is under way, as   *)
(* long as no two threads met in mEvent or in the objects and no event of   *)
(* that storage was lost since (UbuntuMtpDatabase.h:138, 325,              *)
(* MtpServer.cpp:287-302).                                                 *)
THEOREM EventsInvHolds ==
  ASSUME AskAll = FALSE
  PROVE  Spec => []EventsInv
<1>1. Init => KnowingInv
  BY InvInit, TypesInit, FollowsInit DEF KnowingInv
<1>2. KnowingInv /\ [Next]_vars => KnowingInv'
  BY InvNext, TypesNext, MeantNext, FollowsNext DEF KnowingInv
<1>3. KnowingInv => EventsInv
  BY FollowsKnows DEF KnowingInv, EventsInv
<1> QED
  BY <1>1, <1>2, <1>3, PTL DEF Spec
=============================================================================
