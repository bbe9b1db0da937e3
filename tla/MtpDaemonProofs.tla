-------------------------- MODULE MtpDaemonProofs ---------------------------
(* Proofs about MtpDaemon: for any finite set of cards, any number of      *)
(* mounts and whatever media_fd holds at first.                            *)
EXTENDS MtpDaemon, TLAPS, FiniteSetTheorems, SequenceTheorems,
        WellFoundedInduction

(* Where the two threads can be.  The main thread adds storages only while *)
(* the screen is locked, so it never scans or exposes in that loop.        *)
Listing == {"init", "new", "count", "insert", "watch"}
Locked == Listing \cup {"unlock"}
MainAt == Locked \cup {"home", "offer", "offer_scan", "offer_expose",
                       "serving", "ended"}
AsioAt == {"idle", "new", "count", "scan", "expose", "insert", "withdraw",
           "forget"}

CardOrHome == Cards \cup {HomeName}
Storage == [id : Nat, name : CardOrHome]
InotifyEvent == [wd : Nat, mask : {"IN_CREATE", "IN_DELETE"},
                 name : CardOrHome]
Thread == [pc : MainAt \cup AsioAt, name : CardOrHome, id : Nat,
           todo : Seq(Cards), after : {"idle", "watch"}]

(* The type invariant, with what the provers need of the records.          *)
Types ==
  /\ mediaDir \in BOOLEAN /\ mounted \subseteq Cards
  /\ queue \in Seq(InotifyEvent)
  /\ watch_fd \in Nat /\ media_fd \in Nat /\ mediaWatch \in Nat
  /\ storageID \in Nat
  /\ screen_locked \in BOOLEAN /\ mRunning \in BOOLEAN
  /\ removables \in [DOMAIN removables -> [id : Nat, added : BOOLEAN]]
  /\ DOMAIN removables \subseteq Cards
  /\ mStorages \in Seq(Storage) /\ scanned \subseteq Nat
  /\ thread \in [Workers -> Thread]
  /\ thread["main"].pc \in MainAt /\ thread["asio"].pc \in AsioAt
  /\ stopped \in BOOLEAN

(* Which thread is where.  While the main thread lists the cards nothing   *)
(* is watched yet, so the asio thread sleeps: the two never step the       *)
(* counter at the same time.  Only the event that /media/<user> appeared   *)
(* comes without a card's name, and it comes from the watch on /media.     *)
Places ==
  /\ screen_locked <=> thread["main"].pc \in Locked
  /\ thread["main"].pc \in Listing =>
       /\ queue = <<>> /\ thread["asio"].pc = "idle"
       /\ watch_fd = 0 /\ mediaWatch = 0
  /\ thread["main"].pc \in {"new", "count", "insert"} =>
       thread["main"].after = "watch"
  /\ thread["asio"].todo = <<>> /\ thread["asio"].after = "idle"
  /\ \A t \in Workers :
       thread[t].pc \in {"new", "count", "scan", "expose", "insert"} =>
         thread[t].name \in Cards
  /\ mediaWatch # 0 => media_fd = mediaWatch
  /\ \A i \in DOMAIN queue :
       queue[i].mask = "IN_CREATE" /\ queue[i].wd # media_fd =>
         queue[i].name \in Cards

(* No identifier occurs twice.                                             *)
Distinct(list) ==
  \A i, j \in DOMAIN list : list[i].id = list[j].id => i = j
Filed == {removables[n].id : n \in DOMAIN removables}

(* What the main thread still has to offer when the screen is unlocked.    *)
ToOffer(n) ==
  /\ ~removables[n].added
  /\ \/ thread["main"].pc \in Locked \cup {"home"}
     \/ thread["main"].pc = "offer" /\ n > thread["main"].name
     \/ /\ thread["main"].pc \in {"offer_scan", "offer_expose"}
        /\ n >= thread["main"].name

(* Where each identifier is on its way from the counter to the host.       *)
Identifiers ==
  /\ MTP_STORAGE_REMOVABLE_RAM <= storageID
  /\ Ids(mStorages) \subseteq
       {MTP_STORAGE_FIXED_RAM} \cup MTP_STORAGE_REMOVABLE_RAM .. storageID - 1
  /\ Filed \subseteq MTP_STORAGE_REMOVABLE_RAM .. storageID - 1
  /\ \A t \in Workers :
       /\ thread[t].pc = "count" => thread[t].id = storageID
       /\ thread[t].pc \in {"scan", "expose", "insert"} =>
            /\ thread[t].id \in MTP_STORAGE_REMOVABLE_RAM .. storageID - 1
            /\ thread[t].id \notin Filed
       /\ thread[t].pc \in {"scan", "expose"} =>
            thread[t].id \notin Ids(mStorages) /\ ~screen_locked
       /\ thread[t].pc = "insert" /\ screen_locked =>
            thread[t].id \notin Ids(mStorages)
  /\ thread["asio"].pc \in {"withdraw", "forget"} =>
       thread["asio"].id \in Filed
  /\ thread["main"].pc \in {"offer_scan", "offer_expose"} =>
       /\ thread["main"].name \in DOMAIN removables
       /\ thread["main"].id = removables[thread["main"].name].id
       /\ ~removables[thread["main"].name].added
  /\ \A n \in DOMAIN removables :
       ToOffer(n) => removables[n].id \notin Ids(mStorages)
  /\ thread["main"].pc \in Locked \cup {"home"} =>
       MTP_STORAGE_FIXED_RAM \notin Ids(mStorages)

(* The inductive invariant behind DaemonInv.                               *)
DaemonIInv == Types /\ Places /\ Identifiers /\ StorageIdsUnique

(* The storage filed under a card's name before it is withdrawn: exposed,  *)
(* or still to be offered by the main thread.                              *)
Overtaken(x) == <<"overtaken", x>> \in slips
Alive(c) ==
  /\ c \in DOMAIN removables /\ ~Overtaken(removables[c].id)
  /\ removables[c].id \in Ids(mStorages) \/ ToOffer(c)

(* The inductive invariant behind ScannedBeforeExposed: the entries of a   *)
(* storage are there from before it is exposed until it is withdrawn, and  *)
(* what was withdrawn is not exposed again unless it was overtaken.        *)
Scanning ==
  /\ thread["main"].pc # "init" => MTP_STORAGE_FIXED_RAM \in scanned
  /\ thread["asio"].pc = "expose" => thread["asio"].id \in scanned
  /\ thread["main"].pc = "offer_expose" =>
       thread["main"].id \in scanned \/ Overtaken(thread["main"].id)
  /\ thread["asio"].pc = "forget" =>
       \A c \in DOMAIN removables :
         removables[c].id = thread["asio"].id => ~Alive(c)
  /\ \A x \in Ids(mStorages) : x \in scanned \/ Overtaken(x)

-----------------------------------------------------------------------------
(* Lemmas about the operators of the model.                                *)

(* A set of numbers that is not empty has a least one.                     *)
LEMMA MinIsLeast ==
  ASSUME NEW S \in SUBSET Nat, S # {}
  PROVE  Min(S) \in S /\ \A y \in S : Min(S) <= y
<1>1. PICK x \in S : \A y \in S : <<y, x>> \notin OpToRel(<, Nat)
  BY NatLessThanWellFounded, WFMin
<1>2. \A y \in S : x <= y
  <2>1. ASSUME NEW y \in S PROVE x <= y
    <3>1. x \in Nat /\ y \in Nat
      OBVIOUS
    <3>2. ~(y < x)
      BY <1>1, <3>1 DEF OpToRel
    <3> QED
      BY <3>1, <3>2
  <2> QED
    BY <2>1
<1> QED
  BY <1>2 DEF Min

(* A storage added at the end adds its identifier.                         *)
LEMMA IdsAppend ==
  ASSUME NEW list \in Seq(Storage), NEW s \in Storage
  PROVE  /\ Append(list, s) \in Seq(Storage)
         /\ Ids(Append(list, s)) = Ids(list) \cup {s.id}
         /\ Distinct(list) /\ s.id \notin Ids(list) =>
              Distinct(Append(list, s))
<1> DEFINE longer == Append(list, s)
<1>1. /\ longer \in Seq(Storage) /\ Len(longer) = Len(list) + 1
      /\ \A i \in 1 .. Len(list) : longer[i] = list[i]
      /\ longer[Len(list) + 1] = s
  BY AppendProperties
<1>2. DOMAIN longer = 1 .. Len(list) + 1 /\ DOMAIN list = 1 .. Len(list)
  BY <1>1
<1>3. Len(list) \in Nat
  OBVIOUS
<1> HIDE DEF longer
<1>4. Ids(longer) = Ids(list) \cup {s.id}
  <2>1. ASSUME NEW x \in Ids(longer) PROVE x \in Ids(list) \cup {s.id}
    <3>1. PICK i \in DOMAIN longer : x = longer[i].id
      BY <2>1 DEF Ids
    <3> QED
      BY <1>1, <1>2, <1>3, <3>1 DEF Ids
  <2>2. ASSUME NEW x \in Ids(list) PROVE x \in Ids(longer)
    <3>1. PICK i \in DOMAIN list : x = list[i].id
      BY <2>2 DEF Ids
    <3> QED
      BY <1>1, <1>2, <1>3, <3>1 DEF Ids
  <2>3. s.id \in Ids(longer)
    BY <1>1, <1>2, <1>3 DEF Ids
  <2> QED
    BY <2>1, <2>2, <2>3
<1>5. ASSUME Distinct(list), s.id \notin Ids(list) PROVE Distinct(longer)
  <2> SUFFICES ASSUME NEW i \in DOMAIN longer, NEW j \in DOMAIN longer,
                      longer[i].id = longer[j].id
               PROVE  i = j
    BY DEF Distinct
  <2>1. \A k \in 1 .. Len(list) : list[k].id # s.id
    BY <1>2, <1>5 DEF Ids
  <2> QED
    BY <1>1, <1>2, <1>3, <1>5, <2>1 DEF Distinct
<1> QED
  BY <1>1, <1>4, <1>5 DEF longer

(* The storages left when one was taken out, if it was there: the others.  *)
LEMMA IdsWithout ==
  ASSUME NEW list \in Seq(Storage), NEW x, Distinct(list)
  PROVE  /\ Without(list, x) \in Seq(Storage)
         /\ Ids(Without(list, x)) = Ids(list) \ {x}
         /\ Distinct(Without(list, x))
         /\ \A i \in DOMAIN Without(list, x) :
              \E k \in DOMAIN list :
                Without(list, x)[i] = list[k] /\ list[k].id # x
<1> DEFINE at == {i \in DOMAIN list : list[i].id = x}
           left == Without(list, x)
<1>0. DOMAIN list = 1 .. Len(list) /\ Len(list) \in Nat
  OBVIOUS
<1>1. CASE at = {}
  <2>1. left = list
    BY <1>1 DEF Without
  <2>2. x \notin Ids(list) /\ \A i \in DOMAIN list : list[i].id # x
    BY <1>1 DEF Ids
  <2> QED
    BY <2>1, <2>2
<1>2. CASE at # {}
  <2> DEFINE m == Min(at)
  <2>1. m \in 1 .. Len(list) /\ list[m].id = x
    <3>1. at \in SUBSET Nat
      BY <1>0
    <3>2. Min(at) \in at
      BY <1>2, <3>1, MinIsLeast
    <3> QED
      BY <1>0, <3>2
  <2>2. left = SubSeq(list, 1, m - 1) \o SubSeq(list, m + 1, Len(list))
    BY <1>2 DEF Without, RemoveAt
  <2> HIDE DEF m, at, left
  <2>3. /\ left \in Seq(Storage) /\ Len(left) = Len(list) - 1
        /\ \A i \in 1 .. Len(left) :
             left[i] = IF i < m THEN list[i] ELSE list[i + 1]
    <3>1. /\ SubSeq(list, 1, m - 1) \in Seq(Storage)
          /\ Len(SubSeq(list, 1, m - 1)) = m - 1
          /\ \A i \in 1 .. m - 1 : SubSeq(list, 1, m - 1)[i] = list[i]
      <4>1. \A i \in 1 .. m - 1 : list[i] \in Storage
        BY <1>0, <2>1
      <4>2. 1 \in Int /\ m - 1 \in Int
        BY <2>1
      <4> QED
        BY <2>1, <4>1, <4>2, SubSeqProperties
    <3>2. /\ SubSeq(list, m + 1, Len(list)) \in Seq(Storage)
          /\ Len(SubSeq(list, m + 1, Len(list))) = Len(list) - m
          /\ \A i \in 1 .. Len(list) - m :
               SubSeq(list, m + 1, Len(list))[i] = list[m + i]
      <4>1. \A i \in m + 1 .. Len(list) : list[i] \in Storage
        BY <1>0, <2>1
      <4>2. m + 1 \in Int /\ Len(list) \in Int
        BY <1>0, <2>1
      <4> DEFINE back == SubSeq(list, m + 1, Len(list))
      <4>3. /\ back \in Seq(Storage)
            /\ Len(back) = IF m + 1 <= Len(list)
                             THEN Len(list) - (m + 1) + 1 ELSE 0
            /\ \A i \in 1 .. Len(list) - (m + 1) + 1 :
                 back[i] = list[(m + 1) + i - 1]
        BY <4>1, <4>2, SubSeqProperties
      <4> HIDE DEF back
      <4>4. Len(back) = Len(list) - m
        <5> DEFINE n == Len(list)
                   size == Len(back)
        <5>1. size = IF m + 1 <= n THEN n - (m + 1) + 1 ELSE 0
          BY <4>3
        <5>2. n \in Nat /\ m \in Nat /\ m <= n
          BY <1>0, <2>1
        <5> HIDE DEF n, size
        <5>3. size = n - m
          BY <5>1, <5>2
        <5> QED
          BY <5>3 DEF n, size
      <4>5. ASSUME NEW i \in 1 .. Len(list) - m PROVE back[i] = list[m + i]
        <5>1. i \in 1 .. Len(list) - (m + 1) + 1
          BY <1>0, <2>1
        <5>2. (m + 1) + i - 1 = m + i
          BY <1>0, <2>1
        <5>3. back[i] = list[(m + 1) + i - 1]
          BY <4>3, <5>1
        <5> QED
          BY <5>2, <5>3
      <4> QED
        BY <4>3, <4>4, <4>5 DEF back
    <3> DEFINE front == SubSeq(list, 1, m - 1)
               back == SubSeq(list, m + 1, Len(list))
    <3> HIDE DEF front, back
    <3>3. /\ front \in Seq(Storage) /\ Len(front) = m - 1
          /\ \A i \in 1 .. m - 1 : front[i] = list[i]
          /\ back \in Seq(Storage) /\ Len(back) = Len(list) - m
          /\ \A i \in 1 .. Len(list) - m : back[i] = list[m + i]
          /\ left = front \o back
      BY <2>2, <3>1, <3>2 DEF front, back
    <3>4. /\ left \in Seq(Storage) /\ Len(left) = Len(front) + Len(back)
          /\ \A i \in 1 .. Len(front) + Len(back) :
               left[i] = IF i <= Len(front) THEN front[i]
                         ELSE back[i - Len(front)]
      BY <3>3, ConcatProperties
    <3>5. Len(left) = Len(list) - 1
      BY <1>0, <2>1, <3>3, <3>4
    <3>6. ASSUME NEW i \in 1 .. Len(left)
          PROVE  left[i] = IF i < m THEN list[i] ELSE list[i + 1]
      <4>1. CASE i < m
        BY <1>0, <2>1, <3>3, <3>4, <3>5, <4>1
      <4>2. CASE ~(i < m)
        <5>1. /\ i - Len(front) \in 1 .. Len(list) - m
              /\ m + (i - Len(front)) = i + 1 /\ ~(i <= Len(front))
          BY <1>0, <2>1, <3>3, <3>5, <4>2
        <5> QED
          BY <3>3, <3>4, <3>5, <4>2, <5>1
      <4> QED
        BY <4>1, <4>2
    <3> QED
      BY <3>4, <3>5, <3>6
  <2>4. DOMAIN left = 1 .. Len(list) - 1
    BY <2>3
  <2>5. ASSUME NEW k \in DOMAIN list, k # m
        PROVE  \E i \in DOMAIN left : left[i] = list[k]
    <3>1. CASE k < m
      BY <1>0, <2>1, <2>3, <2>4, <3>1
    <3>2. CASE k > m
      <4>1. k - 1 \in DOMAIN left /\ ~(k - 1 < m) /\ (k - 1) + 1 = k
        BY <1>0, <2>1, <2>4, <3>2
      <4> QED
        BY <2>3, <2>4, <4>1
    <3> QED
      BY <1>0, <2>1, <2>5, <3>1, <3>2
  <2>6. ASSUME NEW i \in DOMAIN left
        PROVE  \E k \in DOMAIN list : k # m /\ left[i] = list[k]
    <3>1. CASE i < m
      BY <1>0, <2>1, <2>3, <2>4, <3>1
    <3>2. CASE ~(i < m)
      <4>1. i + 1 \in DOMAIN list /\ i + 1 # m
        BY <1>0, <2>1, <2>4, <3>2
      <4> QED
        BY <2>3, <2>4, <3>2, <4>1
    <3> QED
      BY <3>1, <3>2
  <2>7. Ids(left) = Ids(list) \ {x}
    BY <1>0, <2>1, <2>5, <2>6 DEF Ids, Distinct
  <2>8. Distinct(left)
    <3> SUFFICES ASSUME NEW i \in DOMAIN left, NEW j \in DOMAIN left,
                        left[i].id = left[j].id
                 PROVE  i = j
      BY DEF Distinct
    <3> DEFINE from(k) == IF k < m THEN k ELSE k + 1
    <3>1. /\ from(i) \in DOMAIN list /\ left[i] = list[from(i)]
          /\ from(j) \in DOMAIN list /\ left[j] = list[from(j)]
      BY <1>0, <2>1, <2>3, <2>4
    <3>2. from(i) = from(j)
      BY <3>1 DEF Distinct
    <3> QED
      BY <1>0, <2>1, <2>4, <3>2
  <2>9. \A i \in DOMAIN left :
          \E k \in DOMAIN list : left[i] = list[k] /\ list[k].id # x
    BY <1>0, <2>1, <2>6 DEF Distinct
  <2> QED
    BY <2>3, <2>7, <2>8, <2>9 DEF left
<1> QED
  BY <1>1, <1>2

-----------------------------------------------------------------------------
(* DaemonInv                                                               *)

(* A thread that moves on, and nothing else in it.                         *)
LEMMA ThreadMoves ==
  ASSUME thread \in [Workers -> Thread], NEW t \in Workers,
         NEW p \in MainAt \cup AsioAt,
         thread' = [thread EXCEPT ![t].pc = p]
  PROVE  /\ thread' \in [Workers -> Thread]
         /\ thread'[t].pc = p
         /\ \A u \in Workers :
              /\ u # t => thread'[u].pc = thread[u].pc
              /\ thread'[u].name = thread[u].name
              /\ thread'[u].id = thread[u].id
              /\ thread'[u].todo = thread[u].todo
              /\ thread'[u].after = thread[u].after
BY DEF Thread

LEMMA DaemonIInvInit == DaemonInit => DaemonIInv
<1> SUFFICES ASSUME DaemonInit PROVE DaemonIInv
  OBVIOUS
<1> USE DEF DaemonInit, HomeName
<1>1. /\ thread["main"] = [pc |-> "init", name |-> HomeName, id |-> 0,
                           todo |-> <<>>, after |-> "idle"]
      /\ thread["asio"] = [pc |-> "idle", name |-> HomeName, id |-> 0,
                           todo |-> <<>>, after |-> "idle"]
      /\ thread \in [Workers -> Thread]
  BY DEF Workers, Thread, MainAt, AsioAt, Locked, Listing, CardOrHome
<1>2. DOMAIN removables = {} /\ removables \in [{} -> [id : Nat, added : BOOLEAN]]
  BY DEF EmptyMap
<1>3. mStorages = <<>> /\ mStorages \in Seq(Storage) /\ queue \in Seq(InotifyEvent)
  OBVIOUS
<1>4. Types
  <2>1. media_fd \in Nat
    BY DaemonAssumption
  <2>2. stopped \in BOOLEAN /\ mRunning \in BOOLEAN
        /\ screen_locked \in BOOLEAN
    BY Zenon
  <2> QED
    BY <1>1, <1>2, <1>3, <2>1, <2>2
       DEF Types, MTP_STORAGE_REMOVABLE_RAM, MainAt, AsioAt, Locked, Listing
<1>5. Places
  BY <1>1 DEF Places, Locked, Listing, Workers
<1>6. Identifiers
  BY <1>1, <1>2, <1>3
     DEF Identifiers, Ids, Filed, Workers, MTP_STORAGE_REMOVABLE_RAM,
         MTP_STORAGE_FIXED_RAM
<1>7. StorageIdsUnique
  BY <1>2, <1>3 DEF StorageIdsUnique
<1> QED
  BY <1>4, <1>5, <1>6, <1>7 DEF DaemonIInv

LEMMA NewStorageKeeps ==
  ASSUME DaemonIInv, NEW t \in Workers, NewStorage(t)
  PROVE  DaemonIInv'
<1> DEFINE r == [thread[t] EXCEPT !.id = storageID, !.pc = "count"]
<1>1. /\ thread' = [thread EXCEPT ![t] = r] /\ thread[t].pc = "new"
      /\ UNCHANGED <<external, queue, watches, storageID, screen_locked,
                     removables, server, mRunning, history>>
  BY DEF NewStorage, At, DaemonIInv, Types
<1>2. /\ thread \in [Workers -> Thread] /\ thread[t] \in Thread
      /\ storageID \in Nat
  BY DEF DaemonIInv, Types
<1>3. /\ r \in Thread /\ r.pc = "count" /\ r.id = storageID
      /\ r.name = thread[t].name /\ r.todo = thread[t].todo
      /\ r.after = thread[t].after
  BY <1>2 DEF Thread, MainAt, AsioAt, Locked, Listing
<1> HIDE DEF r
<1>4. /\ thread' \in [Workers -> Thread] /\ thread'[t] = r
      /\ \A u \in Workers : u # t => thread'[u] = thread[u]
  BY <1>1, <1>2, <1>3
<1>5. Types'
  BY <1>1, <1>3, <1>4
     DEF DaemonIInv, Types, external, watches, server, history, Workers,
         MainAt, AsioAt, Locked, Listing
<1>6. Places'
  BY <1>1, <1>3, <1>4
     DEF DaemonIInv, Places, external, watches, server, history, Workers,
         Locked, Listing
<1>7. Identifiers'
  BY <1>1, <1>3, <1>4
     DEF DaemonIInv, Identifiers, Ids, Filed, ToOffer, watches,
         server, Workers, Locked, Listing
<1> QED
  BY <1>1, <1>5, <1>6, <1>7 DEF DaemonIInv, StorageIdsUnique, server

LEMMA StepCounterKeeps ==
  ASSUME DaemonIInv, NEW t \in Workers, StepCounter(t)
  PROVE  DaemonIInv'
<1> DEFINE p == IF screen_locked THEN "insert" ELSE "scan"
<1>1. /\ thread' = [thread EXCEPT ![t].pc = p] /\ thread[t].pc = "count"
      /\ storageID' = storageID + 1
      /\ UNCHANGED <<external, queue, watches, screen_locked, removables,
                     server, mRunning, history>>
  BY DEF StepCounter, At, Goto
<1>2. /\ p \in MainAt \cup AsioAt /\ p \in {"insert", "scan"}
      /\ (t = "main" => p = "insert")
      /\ (screen_locked <=> p = "insert")
  BY <1>1 DEF DaemonIInv, Places, MainAt, AsioAt, Locked, Listing
<1> HIDE DEF p
<1>3. /\ thread' \in [Workers -> Thread] /\ thread'[t].pc = p
      /\ \A u \in Workers :
           /\ u # t => thread'[u].pc = thread[u].pc
           /\ thread'[u].name = thread[u].name
           /\ thread'[u].id = thread[u].id
           /\ thread'[u].todo = thread[u].todo
           /\ thread'[u].after = thread[u].after
  BY <1>1, <1>2, ThreadMoves DEF DaemonIInv, Types
<1>4. Types'
  BY <1>1, <1>2, <1>3
     DEF DaemonIInv, Types, external, watches, server, history, Workers,
         MainAt, AsioAt, Locked, Listing
<1>5. Places'
  BY <1>1, <1>2, <1>3
     DEF DaemonIInv, Places, external, watches, server, history, Workers,
         Locked, Listing
<1>6. \A u \in Workers : u # t => thread[u].pc # "count"
  BY <1>1 DEF DaemonIInv, Places, Workers, Listing
<1>7. Identifiers'
  <2>1. /\ MTP_STORAGE_REMOVABLE_RAM \in Nat /\ storageID \in Nat
        /\ storageID \notin Filed /\ storageID \notin Ids(mStorages)
        /\ thread[t].id = storageID
    BY <1>1 DEF DaemonIInv, Types, Identifiers, MTP_STORAGE_REMOVABLE_RAM,
                MTP_STORAGE_FIXED_RAM
  <2>2. Ids(mStorages)' = Ids(mStorages) /\ Filed' = Filed
    BY <1>1 DEF Ids, Filed, server
  <2>3. \A n \in DOMAIN removables : ToOffer(n)' => ToOffer(n)
    BY <1>1, <1>2, <1>3 DEF ToOffer, Workers, Locked, Listing
  <2> QED
    BY <1>1, <1>2, <1>3, <1>6, <2>1, <2>2, <2>3
       DEF DaemonIInv, Identifiers, Workers, Locked, Listing
<1> QED
  BY <1>1, <1>4, <1>5, <1>7 DEF DaemonIInv, StorageIdsUnique, server

LEMMA AddStoragePathKeeps ==
  ASSUME DaemonIInv, NEW t \in Workers, AddStoragePath(t)
  PROVE  DaemonIInv'
<1> DEFINE p == IF thread[t].pc = "scan" THEN "expose" ELSE "offer_expose"
<1>1. /\ thread' = [thread EXCEPT ![t].pc = p]
      /\ thread[t].pc \in {"scan", "offer_scan"}
      /\ scanned' = scanned \cup {thread[t].id}
      /\ UNCHANGED <<external, queue, watches, storageID, screen_locked,
                     removables, mStorages, mRunning, history>>
  BY DEF AddStoragePath, At, Goto
<1>2. /\ p \in MainAt \cup AsioAt
      /\ (t = "main" => thread[t].pc = "offer_scan" /\ p = "offer_expose")
      /\ (t = "asio" => thread[t].pc = "scan" /\ p = "expose")
  BY <1>1 DEF DaemonIInv, Types, MainAt, AsioAt, Locked, Listing
<1> HIDE DEF p
<1>3. /\ thread' \in [Workers -> Thread] /\ thread'[t].pc = p
      /\ \A u \in Workers :
           /\ u # t => thread'[u].pc = thread[u].pc
           /\ thread'[u].name = thread[u].name
           /\ thread'[u].id = thread[u].id
           /\ thread'[u].todo = thread[u].todo
           /\ thread'[u].after = thread[u].after
  BY <1>1, <1>2, ThreadMoves DEF DaemonIInv, Types
<1>4. Types'
  <2>1. thread[t].id \in Nat
    BY DEF DaemonIInv, Types, Thread
  <2> QED
    BY <1>1, <1>2, <1>3, <2>1
       DEF DaemonIInv, Types, external, watches, history, Workers,
           MainAt, AsioAt, Locked, Listing
<1>5. Places'
  BY <1>1, <1>2, <1>3
     DEF DaemonIInv, Places, external, watches, history, Workers,
         Locked, Listing
<1>6. Identifiers'
  <2>1. Ids(mStorages)' = Ids(mStorages) /\ Filed' = Filed
    BY <1>1 DEF Ids, Filed
  <2>2. \A n \in DOMAIN removables : ToOffer(n)' => ToOffer(n)
    BY <1>1, <1>2, <1>3 DEF ToOffer, Workers, Locked, Listing
  <2> QED
    BY <1>1, <1>2, <1>3, <2>1, <2>2
       DEF DaemonIInv, Identifiers, Workers, Locked, Listing
<1> QED
  BY <1>1, <1>4, <1>5, <1>6 DEF DaemonIInv, StorageIdsUnique

(* What is exposed was not exposed: it is fresh from the counter, or filed *)
(* and not yet offered.                                                    *)
LEMMA AddStorageKeeps ==
  ASSUME DaemonIInv, NEW t \in Workers, AddStorage(t)
  PROVE  DaemonIInv'
<1> DEFINE p == IF thread[t].pc = "expose" THEN "insert" ELSE "offer"
           s == [id |-> thread[t].id, name |-> thread[t].name]
<1>1. /\ thread' = [thread EXCEPT ![t].pc = p]
      /\ thread[t].pc \in {"expose", "offer_expose"}
      /\ mStorages' = Append(mStorages, s)
      /\ UNCHANGED <<external, queue, watches, storageID, screen_locked,
                     removables, scanned, mRunning, history>>
  BY DEF AddStorage, At, Goto
<1>2. /\ p \in MainAt \cup AsioAt
      /\ (t = "main" => thread[t].pc = "offer_expose" /\ p = "offer")
      /\ (t = "asio" => thread[t].pc = "expose" /\ p = "insert")
      /\ s \in Storage /\ s.id = thread[t].id
  BY <1>1 DEF DaemonIInv, Types, Thread, Storage, MainAt, AsioAt, Locked,
              Listing
<1> HIDE DEF p, s
<1>3. /\ thread' \in [Workers -> Thread] /\ thread'[t].pc = p
      /\ \A u \in Workers :
           /\ u # t => thread'[u].pc = thread[u].pc
           /\ thread'[u].name = thread[u].name
           /\ thread'[u].id = thread[u].id
           /\ thread'[u].todo = thread[u].todo
           /\ thread'[u].after = thread[u].after
  BY <1>1, <1>2, ThreadMoves DEF DaemonIInv, Types
<1>4. thread[t].id \notin Ids(mStorages)
  <2>1. CASE t = "asio"
    BY <1>2, <2>1 DEF DaemonIInv, Identifiers, Workers
  <2>2. CASE t = "main"
    <3>1. /\ thread["main"].name \in DOMAIN removables
          /\ thread["main"].id = removables[thread["main"].name].id
          /\ ~removables[thread["main"].name].added
      BY <1>2, <2>2 DEF DaemonIInv, Identifiers
    <3>2. thread["main"].name \in Nat
      BY <3>1, DaemonAssumption DEF DaemonIInv, Types
    <3>3. ToOffer(thread["main"].name)
      BY <1>2, <2>2, <3>1, <3>2 DEF ToOffer
    <3> QED
      BY <2>2, <3>1, <3>3 DEF DaemonIInv, Identifiers
  <2> QED
    BY <2>1, <2>2 DEF Workers
<1>5. /\ mStorages' \in Seq(Storage)
      /\ Ids(mStorages') = Ids(mStorages) \cup {thread[t].id}
      /\ Distinct(mStorages')
  BY <1>1, <1>2, <1>4, IdsAppend
     DEF DaemonIInv, Types, StorageIdsUnique, Distinct
<1>6. Types'
  BY <1>1, <1>2, <1>3, <1>5
     DEF DaemonIInv, Types, external, watches, history, Workers,
         MainAt, AsioAt, Locked, Listing
<1>7. Places'
  BY <1>1, <1>2, <1>3
     DEF DaemonIInv, Places, external, watches, history, Workers,
         Locked, Listing
<1>8. Identifiers'
  <2>1. Ids(mStorages)' = Ids(mStorages) \cup {thread[t].id} /\ Filed' = Filed
    BY <1>1, <1>5 DEF Ids, Filed
  <2>2. ASSUME NEW n \in DOMAIN removables, ToOffer(n)'
        PROVE  removables[n].id \notin Ids(mStorages)'
    <3>1. n \in Nat /\ thread["main"].name \in CardOrHome
      BY DaemonAssumption DEF DaemonIInv, Types, Thread, Workers
    <3>2. CASE t = "asio"
      <4>1. ToOffer(n)
        BY <1>1, <1>3, <2>2, <3>2 DEF ToOffer, Workers
      <4>2. removables[n].id # thread["asio"].id
        BY <1>2, <3>2 DEF DaemonIInv, Identifiers, Filed, Workers
      <4> QED
        BY <2>1, <3>2, <4>1, <4>2 DEF DaemonIInv, Identifiers
    <3>3. CASE t = "main"
      <4>1. n > thread["main"].name /\ ~removables[n].added
        BY <1>1, <1>2, <1>3, <2>2, <3>3 DEF ToOffer, Workers, Locked, Listing
      <4>2. thread["main"].name \in Nat
        <5>1. CardOrHome \subseteq Nat
          BY DaemonAssumption DEF CardOrHome, HomeName
        <5> QED
          BY <3>1, <5>1
      <4>3. ToOffer(n)
        BY <1>2, <3>1, <3>3, <4>1, <4>2 DEF ToOffer
      <4>4. removables[n].id # thread["main"].id
        BY <1>2, <3>1, <3>3, <4>1, <4>2
           DEF DaemonIInv, Identifiers, StorageIdsUnique
      <4> QED
        BY <2>1, <3>3, <4>3, <4>4 DEF DaemonIInv, Identifiers
    <3> QED
      BY <3>2, <3>3 DEF Workers
  <2>3. thread[t].id \in MTP_STORAGE_REMOVABLE_RAM .. storageID - 1
    BY <1>2 DEF DaemonIInv, Identifiers, Filed, Workers
  <2>4. MTP_STORAGE_FIXED_RAM \notin MTP_STORAGE_REMOVABLE_RAM .. storageID - 1
    BY DEF MTP_STORAGE_FIXED_RAM, MTP_STORAGE_REMOVABLE_RAM
  <2>5. \A u \in Workers :
          /\ thread'[u].pc = "count" => thread'[u].id = storageID
          /\ thread'[u].pc \in {"scan", "expose", "insert"} =>
               /\ thread'[u].id \in MTP_STORAGE_REMOVABLE_RAM .. storageID - 1
               /\ thread'[u].id \notin Filed
    BY <1>2, <1>3 DEF DaemonIInv, Identifiers, Workers
  <2>6. ASSUME NEW u \in Workers
        PROVE  /\ thread'[u].pc \in {"scan", "expose"} =>
                    thread'[u].id \notin Ids(mStorages)' /\ ~screen_locked
               /\ thread'[u].pc = "insert" /\ screen_locked =>
                    thread'[u].id \notin Ids(mStorages)'
    <3>1. CASE u = t
      BY <1>2, <1>3, <3>1 DEF DaemonIInv, Identifiers, Workers
    <3>2. CASE u # t /\ u = "main"
      <4>1. thread'["main"].pc \in {"scan", "expose", "insert"} =>
              thread'["main"].pc = "insert" /\ thread["main"].pc = "insert"
        BY <1>3, <3>2 DEF DaemonIInv, Types, MainAt, Locked, Listing, Workers
      <4>2. thread["asio"].pc # "idle"
        BY <1>2, <3>2 DEF Workers
      <4>3. thread["main"].pc # "insert"
        BY <4>2 DEF DaemonIInv, Places, Listing
      <4> QED
        BY <3>2, <4>1, <4>3
    <3>3. CASE u # t /\ u = "asio"
      <4>1. thread[t].id \in Filed
        BY <1>2, <3>3 DEF DaemonIInv, Identifiers, Filed, Workers
      <4>2. thread["asio"].pc \in {"scan", "expose", "insert"} =>
              thread["asio"].id # thread[t].id
        BY <4>1 DEF DaemonIInv, Identifiers, Workers
      <4> QED
        BY <1>3, <2>1, <3>3, <4>2 DEF DaemonIInv, Identifiers, Workers
    <3> QED
      BY <3>1, <3>2, <3>3 DEF Workers
  <2>7. /\ thread'["asio"].pc \in {"withdraw", "forget"} =>
             thread'["asio"].id \in Filed
        /\ thread'["main"].pc \in {"offer_scan", "offer_expose"} =>
             /\ thread'["main"].name \in DOMAIN removables
             /\ thread'["main"].id = removables[thread'["main"].name].id
             /\ ~removables[thread'["main"].name].added
    BY <1>2, <1>3 DEF DaemonIInv, Identifiers, Workers
  <2>8. thread'["main"].pc \in Locked \cup {"home"} =>
          MTP_STORAGE_FIXED_RAM \notin Ids(mStorages)'
    BY <1>2, <1>3, <2>1, <2>3, <2>4
       DEF DaemonIInv, Identifiers, Workers, Locked, Listing
  <2> QED
    BY <1>1, <2>1, <2>2, <2>3, <2>5, <2>6, <2>7, <2>8
       DEF DaemonIInv, Identifiers
<1> QED
  BY <1>1, <1>5, <1>6, <1>7, <1>8 DEF DaemonIInv, StorageIdsUnique, Distinct

(* The entry a name already has is kept, so no identifier is filed twice.  *)
LEMMA InsertRemovableKeeps ==
  ASSUME DaemonIInv, NEW t \in Workers, InsertRemovable(t)
  PROVE  DaemonIInv'
<1> DEFINE r == NextCard(thread[t])
           card == thread[t].name
           entry == [id |-> thread[t].id, added |-> ~screen_locked]
<1>1. /\ thread' = [thread EXCEPT ![t] = r] /\ thread[t].pc = "insert"
      /\ removables' = Insert(removables, card, entry)
      /\ UNCHANGED <<external, queue, watches, storageID, screen_locked,
                     server, mRunning, stopped>>
  BY DEF InsertRemovable, At
<1>2. /\ thread \in [Workers -> Thread] /\ thread[t] \in Thread
      /\ card \in Cards /\ storageID \in Nat
      /\ thread[t].id \in Nat /\ screen_locked \in BOOLEAN
  BY <1>1 DEF DaemonIInv, Types, Places, Thread
<1>3. /\ r \in Thread /\ r.id = thread[t].id /\ r.after = thread[t].after
      /\ \/ r.pc = "new" /\ r.name \in Cards /\ thread[t].todo # <<>>
         \/ r.pc = thread[t].after /\ r.todo = thread[t].todo
  <2>1. CASE thread[t].todo = <<>>
    <3>1. r = [thread[t] EXCEPT !.pc = thread[t].after]
      BY <2>1 DEF NextCard
    <3> QED
      BY <1>2, <3>1 DEF Thread, MainAt, AsioAt, Locked, Listing
  <2>2. CASE thread[t].todo # <<>>
    <3>1. r = [thread[t] EXCEPT !.pc = "new", !.name = Head(thread[t].todo),
                                !.todo = Tail(@)]
      BY <2>2 DEF NextCard
    <3>2. /\ thread[t].todo \in Seq(Cards)
          /\ Head(thread[t].todo) \in Cards /\ Tail(thread[t].todo) \in Seq(Cards)
      BY <1>2, <2>2, HeadTailProperties DEF Thread
    <3> QED
      BY <1>2, <2>2, <3>1, <3>2
         DEF Thread, MainAt, AsioAt, Locked, Listing, CardOrHome
  <2> QED
    BY <2>1, <2>2
<1>4. /\ t = "main" => r.pc \in {"new", "watch"}
      /\ t = "asio" => r.pc = "idle" /\ r.todo = <<>>
      /\ t = "main" => screen_locked /\ thread[t].after = "watch"
  BY <1>1, <1>3 DEF DaemonIInv, Places, Locked, Listing
<1> HIDE DEF r
<1>5. /\ thread' \in [Workers -> Thread] /\ thread'[t] = r
      /\ \A u \in Workers : u # t => thread'[u] = thread[u]
  BY <1>1, <1>2, <1>3
<1>6. /\ DOMAIN removables' = DOMAIN removables \cup {card}
      /\ \A n \in DOMAIN removables' :
           removables'[n] = IF n \in DOMAIN removables THEN removables[n]
                            ELSE entry
      /\ removables' \in [DOMAIN removables' -> [id : Nat, added : BOOLEAN]]
  <2>1. entry \in [id : Nat, added : BOOLEAN]
    BY <1>2
  <2>2. \A n \in DOMAIN removables : removables[n] \in [id : Nat, added : BOOLEAN]
    BY DEF DaemonIInv, Types
  <2> HIDE DEF card, entry
  <2>3. removables' = [n \in DOMAIN removables \cup {card} |->
                         IF n \in DOMAIN removables THEN removables[n]
                         ELSE entry]
    BY <1>1 DEF Insert
  <2> QED
    BY <2>1, <2>2, <2>3
<1>7. entry.id = thread[t].id /\ entry.added = ~screen_locked
  OBVIOUS
<1> HIDE DEF entry, card
<1>8. Types'
  BY <1>1, <1>2, <1>3, <1>4, <1>5, <1>6
     DEF DaemonIInv, Types, external, watches, server, history, Workers,
         MainAt, AsioAt, Locked, Listing
<1>9. Places'
  BY <1>1, <1>3, <1>4, <1>5
     DEF DaemonIInv, Places, external, watches, server, history, Workers,
         Locked, Listing
<1>10. thread[t].id \notin Filed
  BY <1>1 DEF DaemonIInv, Identifiers
<1>11. StorageIdsUnique'
  BY <1>1, <1>6, <1>7, <1>10 DEF DaemonIInv, StorageIdsUnique, Filed, server
<1>12. Identifiers'
  <2>1. /\ Ids(mStorages)' = Ids(mStorages)
        /\ Filed \subseteq Filed' /\ Filed' \subseteq Filed \cup {thread[t].id}
    BY <1>1, <1>6, <1>7 DEF Ids, Filed, server
  <2>2. thread[t].id \in MTP_STORAGE_REMOVABLE_RAM .. storageID - 1
    BY <1>1 DEF DaemonIInv, Identifiers
  <2>3. ASSUME NEW u \in Workers, u # t
        PROVE  thread[u].pc \notin {"scan", "expose", "insert"} \/
                 thread[u].id \notin Filed'
    <3>1. CASE t = "asio"
      BY <1>1, <2>3, <3>1
         DEF DaemonIInv, Types, Places, MainAt, Listing, Locked, Workers
    <3>2. CASE t = "main"
      BY <1>1, <2>3, <3>2 DEF DaemonIInv, Places, Listing, Workers
    <3> QED
      BY <3>1, <3>2 DEF Workers
  <2>4. \A u \in Workers :
          /\ thread'[u].pc = "count" => thread'[u].id = storageID
          /\ thread'[u].pc \in {"scan", "expose", "insert"} =>
               /\ thread'[u].id \in MTP_STORAGE_REMOVABLE_RAM .. storageID - 1
               /\ thread'[u].id \notin Filed'
          /\ thread'[u].pc \in {"scan", "expose"} =>
               thread'[u].id \notin Ids(mStorages) /\ ~screen_locked
          /\ thread'[u].pc = "insert" /\ screen_locked =>
               thread'[u].id \notin Ids(mStorages)
    BY <1>3, <1>4, <1>5, <2>3 DEF DaemonIInv, Identifiers, Workers
  <2>5. thread'["asio"].pc \in {"withdraw", "forget"} =>
          thread'["asio"].id \in Filed'
    BY <1>4, <1>5, <2>1 DEF DaemonIInv, Identifiers, Workers
  <2>6. thread'["main"].pc \in {"offer_scan", "offer_expose"} =>
          /\ thread'["main"].name \in DOMAIN removables'
          /\ thread'["main"].id = removables'[thread'["main"].name].id
          /\ ~removables'[thread'["main"].name].added
    BY <1>4, <1>5, <1>6 DEF DaemonIInv, Identifiers, Workers
  <2>7. ASSUME NEW n \in DOMAIN removables', ToOffer(n)'
        PROVE  removables'[n].id \notin Ids(mStorages)
    <3>1. CASE n \in DOMAIN removables
      <4>1. ToOffer(n)
        BY <1>1, <1>4, <1>5, <1>6, <2>7, <3>1
           DEF ToOffer, Workers, Locked, Listing
      <4> QED
        BY <1>6, <3>1, <4>1 DEF DaemonIInv, Identifiers
    <3>2. CASE n \notin DOMAIN removables
      <4>1. screen_locked /\ removables'[n].id = thread[t].id
        BY <1>2, <1>6, <1>7, <2>7, <3>2 DEF ToOffer
      <4> QED
        BY <1>1, <4>1 DEF DaemonIInv, Identifiers
    <3> QED
      BY <3>1, <3>2
  <2>8. thread'["main"].pc \in Locked \cup {"home"} =>
          MTP_STORAGE_FIXED_RAM \notin Ids(mStorages)
    BY <1>1, <1>4, <1>5 DEF DaemonIInv, Identifiers, Workers, Locked, Listing
  <2> QED
    BY <1>1, <2>1, <2>2, <2>4, <2>5, <2>6, <2>7, <2>8
       DEF DaemonIInv, Identifiers, server
<1> QED
  BY <1>8, <1>9, <1>11, <1>12 DEF DaemonIInv

(* Where the main thread goes from initStorage: to the first card there is,*)
(* to the watch on the mount point, or past both.                          *)
LEMMA InitStorageThread ==
  ASSUME DaemonIInv, InitStorage
  PROVE  \E r \in Thread :
          /\ thread' = [thread EXCEPT !["main"] = r]
          /\ r.id = thread["main"].id
          /\ \/ /\ r.pc = "new" /\ r.name \in Cards /\ r.after = "watch"
                /\ UNCHANGED watches
             \/ r.pc = "watch" /\ UNCHANGED watches
             \/ r.pc = "unlock" /\ media_fd' = 1 /\ mediaWatch' = 1
                /\ watch_fd' = watch_fd
<1>1. thread["main"] \in Thread
  BY DEF DaemonIInv, Types, Workers
<1>2. CASE \E v \in SetToSeqs(mounted) :
             /\ thread' = [thread EXCEPT !["main"] =
                  NextCard([@ EXCEPT !.todo = v, !.after = "watch"])]
             /\ UNCHANGED watches
  <2>1. PICK v \in SetToSeqs(mounted) :
          /\ thread' = [thread EXCEPT !["main"] =
                  NextCard([@ EXCEPT !.todo = v, !.after = "watch"])]
          /\ UNCHANGED watches
    BY <1>2
  <2> DEFINE q == [thread["main"] EXCEPT !.todo = v, !.after = "watch"]
  <2>2. v \in Seq(Cards)
    <3>1. mounted \subseteq Cards /\ IsFiniteSet(mounted)
      BY DaemonAssumption, FS_Subset DEF DaemonIInv, Types
    <3>2. Cardinality(mounted) \in Nat
      BY <3>1, FS_CardinalityType
    <3>3. v \in [1 .. Cardinality(mounted) -> mounted]
      BY DEF SetToSeqs
    <3>4. v \in [1 .. Cardinality(mounted) -> Cards]
      BY <3>1, <3>3
    <3> QED
      BY <3>2, <3>4
  <2>3. q \in Thread /\ q.id = thread["main"].id /\ q.after = "watch" /\ q.todo = v
    BY <1>1, <2>2 DEF Thread
  <2>4. thread' = [thread EXCEPT !["main"] = NextCard(q)]
    BY <2>1 DEF DaemonIInv, Types, Workers
  <2> HIDE DEF q
  <2>5. CASE v = <<>>
    <3>1. NextCard(q) = [q EXCEPT !.pc = "watch"]
      BY <2>3, <2>5 DEF NextCard
    <3>2. [q EXCEPT !.pc = "watch"] \in Thread
      BY <2>3 DEF Thread, MainAt, AsioAt, Locked, Listing
    <3>3. NextCard(q).pc = "watch" /\ NextCard(q).id = q.id
      BY <2>3, <3>1 DEF Thread
    <3> QED
      BY <2>1, <2>3, <2>4, <3>1, <3>2, <3>3
  <2>6. CASE v # <<>>
    <3>1. NextCard(q) = [q EXCEPT !.pc = "new", !.name = Head(v),
                                  !.todo = Tail(v)]
      BY <2>3, <2>6 DEF NextCard, Thread
    <3>2. Head(v) \in Cards /\ Tail(v) \in Seq(Cards)
      BY <2>2, <2>6, HeadTailProperties
    <3>3. NextCard(q) \in Thread
      BY <2>3, <3>1, <3>2 DEF Thread, MainAt, AsioAt, Locked, Listing, CardOrHome
    <3>4. /\ NextCard(q).pc = "new" /\ NextCard(q).id = q.id
          /\ NextCard(q).name \in Cards /\ NextCard(q).after = "watch"
      BY <2>3, <3>1, <3>2 DEF Thread
    <3> QED
      BY <2>1, <2>3, <2>4, <3>3, <3>4
  <2> QED
    BY <2>5, <2>6
<1>3. CASE /\ media_fd' = 1 /\ mediaWatch' = 1 /\ UNCHANGED watch_fd
           /\ thread' = [thread EXCEPT !["main"].pc = "unlock"]
  <2> DEFINE r == [thread["main"] EXCEPT !.pc = "unlock"]
  <2>1. r \in Thread /\ r.pc = "unlock" /\ r.id = thread["main"].id
    BY <1>1 DEF Thread, MainAt, AsioAt, Locked, Listing
  <2>2. thread' = [thread EXCEPT !["main"] = r]
    BY <1>3 DEF DaemonIInv, Types, Workers
  <2> HIDE DEF r
  <2> QED
    BY <1>3, <2>1, <2>2
<1> QED
  BY <1>2, <1>3 DEF InitStorage, Goto

LEMMA InitStorageKeeps ==
  ASSUME DaemonIInv, InitStorage
  PROVE  DaemonIInv'
<1>1. /\ thread["main"].pc = "init"
      /\ scanned' = scanned \cup {MTP_STORAGE_FIXED_RAM}
      /\ UNCHANGED <<external, queue, storageID, screen_locked, removables,
                     mStorages, mRunning, history>>
  BY DEF InitStorage, At
<1>2. \E r \in Thread :
        /\ thread' = [thread EXCEPT !["main"] = r]
        /\ r.id = thread["main"].id
        /\ \/ /\ r.pc = "new" /\ r.name \in Cards /\ r.after = "watch"
              /\ UNCHANGED watches
           \/ r.pc = "watch" /\ UNCHANGED watches
           \/ r.pc = "unlock" /\ media_fd' = 1 /\ mediaWatch' = 1
              /\ watch_fd' = watch_fd
  BY InitStorageThread
<1>3. PICK r \in Thread :
        /\ thread' = [thread EXCEPT !["main"] = r]
        /\ r.id = thread["main"].id
        /\ \/ /\ r.pc = "new" /\ r.name \in Cards /\ r.after = "watch"
              /\ UNCHANGED watches
           \/ r.pc = "watch" /\ UNCHANGED watches
           \/ r.pc = "unlock" /\ media_fd' = 1 /\ mediaWatch' = 1
              /\ watch_fd' = watch_fd
  BY <1>2
<1>4. /\ thread' \in [Workers -> Thread] /\ thread'["main"] = r
      /\ thread'["asio"] = thread["asio"]
  BY <1>3 DEF DaemonIInv, Types, Workers
<1>5. r.pc \in Locked /\ r.pc \in MainAt /\ r.pc \notin {"scan", "expose", "insert", "count"}
  BY <1>3 DEF MainAt, Locked, Listing
<1>6. Types'
  BY <1>1, <1>3, <1>4, <1>5
     DEF DaemonIInv, Types, external, watches, history, MTP_STORAGE_FIXED_RAM
<1>7. Places'
  BY <1>1, <1>3, <1>4, <1>5
     DEF DaemonIInv, Places, external, watches, history, Workers, Locked,
         Listing
<1>8. Identifiers'
  <2>1. Ids(mStorages)' = Ids(mStorages) /\ Filed' = Filed
    BY <1>1 DEF Ids, Filed
  <2>2. \A n \in DOMAIN removables : ToOffer(n)' => ToOffer(n)
    BY <1>1, <1>4, <1>5 DEF ToOffer, Locked, Listing
  <2> QED
    BY <1>1, <1>4, <1>5, <2>1, <2>2
       DEF DaemonIInv, Identifiers, Workers, Locked, Listing
<1> QED
  BY <1>1, <1>6, <1>7, <1>8 DEF DaemonIInv, StorageIdsUnique

(* The main thread between the list and the offer.                         *)
LEMMA MainMovesKeep ==
  ASSUME DaemonIInv, WatchMountpoint \/ Unlock \/ Run \/ Return
  PROVE  DaemonIInv'
<1>1. PICK p \in MainAt :
        /\ thread' = [thread EXCEPT !["main"].pc = p]
        /\ \/ thread["main"].pc = "watch" /\ p = "unlock" /\ WatchMountpoint
           \/ thread["main"].pc = "unlock" /\ p = "home" /\ Unlock
           \/ thread["main"].pc = "offer" /\ p = "serving" /\ Run
           \/ thread["main"].pc = "serving" /\ p = "ended" /\ Return
  BY DEF WatchMountpoint, Unlock, Run, Return, At, Goto, MainAt, Locked,
         Listing
<1>2. UNCHANGED <<external, queue, media_fd, mediaWatch, storageID,
                  removables, server, history>>
  BY DEF WatchMountpoint, Unlock, Run, Return, watches, history, server,
         external
<1>3. /\ thread' \in [Workers -> Thread] /\ thread'["main"].pc = p
      /\ thread'["asio"].pc = thread["asio"].pc
      /\ \A u \in Workers :
           /\ thread'[u].name = thread[u].name
           /\ thread'[u].id = thread[u].id
           /\ thread'[u].todo = thread[u].todo
           /\ thread'[u].after = thread[u].after
  BY <1>1, ThreadMoves DEF DaemonIInv, Types, Workers
<1>4. /\ watch_fd' \in Nat /\ screen_locked' \in BOOLEAN
      /\ mRunning' \in BOOLEAN
      /\ screen_locked' <=> p \in Locked
      /\ ~screen_locked => ~screen_locked'
      /\ p \notin Listing
  <2>1. /\ watch_fd \in Nat /\ mediaWatch \in Nat
        /\ screen_locked <=> thread["main"].pc \in Locked
        /\ screen_locked \in BOOLEAN /\ mRunning \in BOOLEAN
    BY DEF DaemonIInv, Types, Places
  <2>2. CASE thread["main"].pc = "watch" /\ p = "unlock" /\ WatchMountpoint
    <3>1. /\ watch_fd' = mediaWatch + 1
          /\ UNCHANGED <<screen_locked, mRunning>>
      BY <2>2 DEF WatchMountpoint, AddMountpointWatch
    <3> QED
      BY <2>1, <2>2, <3>1 DEF Locked, Listing
  <2>3. CASE thread["main"].pc = "unlock" /\ p = "home" /\ Unlock
    <3>1. screen_locked' = FALSE /\ UNCHANGED <<watch_fd, mRunning>>
      BY <2>3 DEF Unlock, watches
    <3>2. screen_locked' \in BOOLEAN
      BY <3>1, Zenon
    <3> QED
      BY <2>1, <2>3, <3>1, <3>2 DEF Locked, Listing
  <2>4. CASE thread["main"].pc = "offer" /\ p = "serving" /\ Run
    <3>1. mRunning' = TRUE /\ UNCHANGED <<watch_fd, screen_locked>>
      BY <2>4 DEF Run, watches
    <3>2. mRunning' \in BOOLEAN
      BY <3>1, Zenon
    <3> QED
      BY <2>1, <2>4, <3>1, <3>2 DEF Locked, Listing
  <2>5. CASE thread["main"].pc = "serving" /\ p = "ended" /\ Return
    <3>1. UNCHANGED <<watch_fd, screen_locked, mRunning>>
      BY <2>5 DEF Return, watches
    <3> QED
      BY <2>1, <2>5, <3>1 DEF Locked, Listing
  <2> QED
    BY <1>1, <2>2, <2>3, <2>4, <2>5
<1>5. Types'
  BY <1>1, <1>2, <1>3, <1>4
     DEF DaemonIInv, Types, external, server, history
<1>6. Places'
  <2>1. /\ screen_locked' <=> thread'["main"].pc \in Locked
        /\ thread'["main"].pc \notin Listing
        /\ thread'["main"].pc \notin {"new", "count", "scan", "expose", "insert"}
    BY <1>1, <1>3, <1>4 DEF MainAt, Locked, Listing
  <2> QED
    BY <1>2, <1>3, <2>1 DEF DaemonIInv, Places, Workers
<1>7. Identifiers'
  <2>1. Ids(mStorages)' = Ids(mStorages) /\ Filed' = Filed
    BY <1>2 DEF Ids, Filed, server
  <2>2. \A n \in DOMAIN removables : ToOffer(n)' => ToOffer(n)
    BY <1>1, <1>2, <1>3 DEF ToOffer, Locked, Listing
  <2>3. thread'["main"].pc \in Locked \cup {"home"} =>
          thread["main"].pc \in Locked
    BY <1>1, <1>3 DEF Locked, Listing
  <2>4. thread'["main"].pc \notin {"count", "scan", "expose", "insert",
                                  "offer_scan", "offer_expose"}
    BY <1>1, <1>3
  <2> QED
    BY <1>2, <1>3, <1>4, <2>1, <2>2, <2>3, <2>4
       DEF DaemonIInv, Identifiers, Workers
<1> QED
  BY <1>2, <1>5, <1>6, <1>7 DEF DaemonIInv, StorageIdsUnique, server

LEMMA ExposeHomeKeeps ==
  ASSUME DaemonIInv, ExposeHome
  PROVE  DaemonIInv'
<1> DEFINE r == [thread["main"] EXCEPT !.pc = "offer", !.name = HomeName]
           s == [id |-> MTP_STORAGE_FIXED_RAM, name |-> HomeName]
<1>1. /\ thread["main"].pc = "home" /\ mStorages' = Append(mStorages, s)
      /\ thread' = [thread EXCEPT !["main"] = r]
      /\ UNCHANGED <<external, queue, watches, storageID, screen_locked,
                     removables, scanned, mRunning, history>>
  BY DEF ExposeHome, At, DaemonIInv, Types, Workers
<1>2. /\ r \in Thread /\ r.pc = "offer" /\ r.name = HomeName
      /\ r.todo = thread["main"].todo /\ r.after = thread["main"].after
      /\ s \in Storage /\ s.id = MTP_STORAGE_FIXED_RAM
  BY DEF DaemonIInv, Types, Workers, Thread, Storage, MainAt, AsioAt,
         CardOrHome, MTP_STORAGE_FIXED_RAM
<1> HIDE DEF r, s
<1>3. /\ thread' \in [Workers -> Thread] /\ thread'["main"] = r
      /\ thread'["asio"] = thread["asio"]
  BY <1>1, <1>2 DEF DaemonIInv, Types, Workers
<1>4. /\ mStorages' \in Seq(Storage)
      /\ Ids(mStorages') = Ids(mStorages) \cup {MTP_STORAGE_FIXED_RAM}
      /\ Distinct(mStorages')
  BY <1>1, <1>2, IdsAppend
     DEF DaemonIInv, Types, Identifiers, StorageIdsUnique, Distinct
<1>5. Types'
  BY <1>1, <1>2, <1>3, <1>4
     DEF DaemonIInv, Types, external, watches, history, MainAt
<1>6. Places'
  BY <1>1, <1>2, <1>3
     DEF DaemonIInv, Places, external, watches, history, Workers, Locked,
         Listing
<1>7. Identifiers'
  <2>1. /\ Ids(mStorages)' = Ids(mStorages) \cup {MTP_STORAGE_FIXED_RAM}
        /\ Filed' = Filed
    BY <1>1, <1>4 DEF Ids, Filed
  <2>2. \A n \in DOMAIN removables : ToOffer(n)' => ToOffer(n)
    BY <1>1, <1>2, <1>3 DEF ToOffer, Locked, Listing
  <2>3. /\ MTP_STORAGE_FIXED_RAM \notin
             MTP_STORAGE_REMOVABLE_RAM .. storageID - 1
        /\ MTP_STORAGE_FIXED_RAM \notin Filed
    BY DEF DaemonIInv, Identifiers, MTP_STORAGE_FIXED_RAM,
           MTP_STORAGE_REMOVABLE_RAM
  <2>4. ASSUME NEW u \in Workers
        PROVE  /\ thread'[u].pc = "count" => thread'[u].id = storageID
               /\ thread'[u].pc \in {"scan", "expose", "insert"} =>
                    /\ thread'[u].id \in MTP_STORAGE_REMOVABLE_RAM .. storageID - 1
                    /\ thread'[u].id \notin Filed
               /\ thread'[u].pc \in {"scan", "expose"} =>
                    /\ thread'[u].id \notin Ids(mStorages)'
                    /\ ~screen_locked
               /\ thread'[u].pc = "insert" /\ screen_locked =>
                    thread'[u].id \notin Ids(mStorages)'
    BY <1>1, <1>2, <1>3, <2>1, <2>3 DEF DaemonIInv, Identifiers, Workers
  <2>5. ASSUME NEW n \in DOMAIN removables, ToOffer(n)'
        PROVE  removables[n].id \notin Ids(mStorages)'
    BY <2>1, <2>2, <2>3, <2>5 DEF DaemonIInv, Identifiers, Filed
  <2> QED
    BY <1>1, <1>2, <1>3, <2>1, <2>4, <2>5
       DEF DaemonIInv, Identifiers, Locked, Listing
<1> QED
  BY <1>1, <1>4, <1>5, <1>6, <1>7 DEF DaemonIInv, StorageIdsUnique, Distinct

(* The loop over removables goes up in the order of the names, so no card  *)
(* is offered twice.                                                       *)
LEMMA OfferRemovableKeeps ==
  ASSUME DaemonIInv, OfferRemovable
  PROVE  DaemonIInv'
<1> DEFINE later == {n \in DOMAIN removables : n > thread["main"].name}
           m == Min(later)
           r == [thread["main"] EXCEPT !.name = m, !.id = removables[m].id,
                   !.pc = IF removables[m].added THEN "offer"
                          ELSE "offer_scan"]
<1>1. /\ thread["main"].pc = "offer" /\ later # {}
      /\ thread' = [thread EXCEPT !["main"] = r]
      /\ UNCHANGED <<external, queue, watches, storageID, screen_locked,
                     removables, server, mRunning, history>>
  BY DEF OfferRemovable, At, DaemonIInv, Types, Workers
<1>2. /\ DOMAIN removables \subseteq Nat /\ thread["main"].name \in Nat
      /\ DOMAIN removables \subseteq Cards
  <2>1. CardOrHome \subseteq Nat /\ Cards \subseteq Nat
    BY DaemonAssumption DEF CardOrHome, HomeName
  <2>2. thread["main"].name \in CardOrHome
    BY DEF DaemonIInv, Types, Thread, Workers
  <2> QED
    BY <2>1, <2>2 DEF DaemonIInv, Types
<1>3. m \in DOMAIN removables /\ m > thread["main"].name
  <2>1. later \in SUBSET Nat
    BY <1>2
  <2> QED
    BY <1>1, <2>1, MinIsLeast
<1> HIDE DEF m, later
<1>4. removables[m].id \in Nat /\ removables[m].added \in BOOLEAN
  BY <1>3 DEF DaemonIInv, Types
<1>5. /\ r \in Thread /\ r.name = m /\ r.id = removables[m].id
      /\ r.todo = thread["main"].todo /\ r.after = thread["main"].after
      /\ \/ r.pc = "offer" /\ removables[m].added
         \/ r.pc = "offer_scan" /\ ~removables[m].added
  <2>1. thread["main"] \in Thread /\ m \in CardOrHome
    BY <1>2, <1>3 DEF DaemonIInv, Types, Workers, CardOrHome
  <2>2. CASE removables[m].added
    BY <1>4, <2>1, <2>2 DEF Thread, MainAt, AsioAt
  <2>3. CASE ~removables[m].added
    BY <1>4, <2>1, <2>3 DEF Thread, MainAt, AsioAt
  <2> QED
    BY <2>2, <2>3
<1> HIDE DEF r
<1>6. /\ thread' \in [Workers -> Thread] /\ thread'["main"] = r
      /\ thread'["asio"] = thread["asio"]
  BY <1>1, <1>5 DEF DaemonIInv, Types, Workers
<1>7. Types'
  BY <1>1, <1>5, <1>6
     DEF DaemonIInv, Types, external, watches, server, history, MainAt
<1>8. Places'
  BY <1>1, <1>5, <1>6
     DEF DaemonIInv, Places, external, watches, history, Workers, Locked,
         Listing
<1>9. Identifiers'
  <2>1. Ids(mStorages)' = Ids(mStorages) /\ Filed' = Filed
    BY <1>1 DEF Ids, Filed, server
  <2>2. ASSUME NEW n \in DOMAIN removables, ToOffer(n)' PROVE ToOffer(n)
    <3>1. n \in Nat /\ m \in Nat /\ n >= m /\ ~removables[n].added
      BY <1>1, <1>2, <1>3, <1>5, <1>6, <2>2 DEF ToOffer, Locked, Listing
    <3> QED
      BY <1>1, <1>2, <1>3, <3>1 DEF ToOffer
  <2>3. /\ thread'["main"].pc \notin Locked \cup {"home"}
        /\ thread'["main"].pc \notin {"count", "scan", "expose", "insert"}
    BY <1>5, <1>6 DEF Locked, Listing
  <2>4. thread'["main"].pc \in {"offer_scan", "offer_expose"} =>
             /\ thread'["main"].name \in DOMAIN removables
             /\ thread'["main"].id = removables[thread'["main"].name].id
             /\ ~removables[thread'["main"].name].added
    BY <1>3, <1>5, <1>6
  <2> QED
    BY <1>1, <1>6, <2>1, <2>2, <2>3, <2>4
       DEF DaemonIInv, Identifiers, Workers, watches, server
<1> QED
  BY <1>1, <1>7, <1>8, <1>9 DEF DaemonIInv, StorageIdsUnique, server

LEMMA ReadEventKeeps ==
  ASSUME DaemonIInv, ReadEvent
  PROVE  DaemonIInv'
<1> DEFINE e == Head(queue)
<1>1. /\ thread["asio"].pc = "idle" /\ queue # <<>> /\ queue' = Tail(queue)
      /\ UNCHANGED <<external, media_fd, mediaWatch, storageID,
                     screen_locked, removables, server, mRunning, history>>
  BY DEF ReadEvent, At
<1>2. /\ queue \in Seq(InotifyEvent) /\ queue' \in Seq(InotifyEvent)
      /\ e \in InotifyEvent /\ e = queue[1] /\ 1 \in DOMAIN queue
      /\ \A i \in DOMAIN queue' : i + 1 \in DOMAIN queue /\ queue'[i] = queue[i + 1]
  BY <1>1, HeadTailProperties DEF DaemonIInv, Types
<1>3. thread["main"].pc \notin Listing
  BY <1>1 DEF DaemonIInv, Places
<1>4. \E r \in Thread :
        /\ thread' = [thread EXCEPT !["asio"] = r]
        /\ r.todo = thread["asio"].todo /\ r.after = thread["asio"].after
        /\ \/ r = thread["asio"] /\ watch_fd' \in Nat
           \/ r.pc = "new" /\ r.name \in Cards /\ watch_fd' = watch_fd
           \/ r.pc = "withdraw" /\ r.id \in Filed /\ watch_fd' = watch_fd
  <2>1. /\ thread["asio"] \in Thread /\ thread \in [Workers -> Thread]
        /\ mediaWatch \in Nat /\ watch_fd \in Nat
        /\ thread = [thread EXCEPT !["asio"] = thread["asio"]]
    BY DEF DaemonIInv, Types, Workers
  <2>2. CASE /\ e.mask = "IN_CREATE" /\ e.wd = media_fd
             /\ AddMountpointWatch /\ UNCHANGED thread
    <3>1. watch_fd' \in Nat
      BY <2>1, <2>2 DEF AddMountpointWatch
    <3> QED
      BY <2>1, <2>2, <3>1
  <2>3. CASE /\ e.mask = "IN_CREATE" /\ e.wd # media_fd
             /\ thread' = [thread EXCEPT !["asio"].pc = "new",
                                         !["asio"].name = e.name]
             /\ UNCHANGED watch_fd
    <3>1. e.name \in Cards
      BY <1>2, <2>3 DEF DaemonIInv, Places
    <3> HIDE DEF e
    <3> DEFINE r == [thread["asio"] EXCEPT !.pc = "new", !.name = e.name]
    <3>2. /\ r \in Thread /\ r.pc = "new" /\ r.name = e.name
          /\ r.todo = thread["asio"].todo /\ r.after = thread["asio"].after
      BY <2>1, <3>1 DEF Thread, AsioAt, CardOrHome
    <3>3. thread' = [thread EXCEPT !["asio"] = r]
      BY <2>1, <2>3 DEF Workers
    <3> HIDE DEF r
    <3> QED
      BY <2>3, <3>1, <3>2, <3>3
  <2>4. CASE /\ e.name \in DOMAIN removables
             /\ thread' = [thread EXCEPT !["asio"].pc = "withdraw",
                             !["asio"].id = removables[e.name].id]
             /\ UNCHANGED watch_fd
    <3> DEFINE id == removables[e.name].id
               r == [thread["asio"] EXCEPT !.pc = "withdraw", !.id = id]
    <3>1. id \in Nat /\ id \in Filed
      BY <2>4 DEF DaemonIInv, Types, Filed
    <3>2. /\ thread' = [thread EXCEPT !["asio"].pc = "withdraw",
                                      !["asio"].id = id]
          /\ watch_fd' = watch_fd
      BY <2>4
    <3> HIDE DEF id
    <3>3. /\ r \in Thread /\ r.pc = "withdraw" /\ r.id = id
          /\ r.todo = thread["asio"].todo /\ r.after = thread["asio"].after
      BY <2>1, <3>1 DEF Thread, AsioAt
    <3>4. thread' = [thread EXCEPT !["asio"] = r]
      BY <2>1, <3>2 DEF Workers
    <3> HIDE DEF r
    <3> QED
      BY <3>1, <3>2, <3>3, <3>4
  <2>5. CASE UNCHANGED <<thread, watch_fd>>
    BY <2>1, <2>5
  <2> QED
    BY <2>2, <2>3, <2>4, <2>5 DEF ReadEvent
<1>5. PICK r \in Thread :
        /\ thread' = [thread EXCEPT !["asio"] = r]
        /\ r.todo = thread["asio"].todo /\ r.after = thread["asio"].after
        /\ \/ r = thread["asio"] /\ watch_fd' \in Nat
           \/ r.pc = "new" /\ r.name \in Cards /\ watch_fd' = watch_fd
           \/ r.pc = "withdraw" /\ r.id \in Filed /\ watch_fd' = watch_fd
  BY <1>4
<1>6. /\ thread' \in [Workers -> Thread] /\ thread'["asio"] = r
      /\ thread'["main"] = thread["main"]
  BY <1>5 DEF DaemonIInv, Types, Workers
<1>7. r.pc \in {"idle", "new", "withdraw"} /\ watch_fd' \in Nat
  BY <1>1, <1>5 DEF DaemonIInv, Types
<1>8. Types'
  BY <1>1, <1>2, <1>6, <1>7
     DEF DaemonIInv, Types, external, server, history, AsioAt
<1>9. Places'
  <2>1. \A i \in DOMAIN queue' :
          queue'[i].mask = "IN_CREATE" /\ queue'[i].wd # media_fd =>
            queue'[i].name \in Cards
    BY <1>2 DEF DaemonIInv, Places
  <2> QED
    BY <1>1, <1>3, <1>5, <1>6, <1>7, <2>1
       DEF DaemonIInv, Places, Workers
<1>10. Identifiers'
  <2>1. Ids(mStorages)' = Ids(mStorages) /\ Filed' = Filed
    BY <1>1 DEF Ids, Filed, server
  <2>2. \A n \in DOMAIN removables : ToOffer(n)' => ToOffer(n)
    BY <1>1, <1>6 DEF ToOffer
  <2>3. r.pc \notin {"count", "scan", "expose", "insert"}
    BY <1>7
  <2>4. r.pc \in {"withdraw", "forget"} => r.id \in Filed
    BY <1>1, <1>5, <1>7
  <2> QED
    BY <1>1, <1>6, <2>1, <2>2, <2>3, <2>4
       DEF DaemonIInv, Identifiers, Workers
<1> QED
  BY <1>1, <1>8, <1>9, <1>10 DEF DaemonIInv, StorageIdsUnique, server

LEMMA WithdrawKeeps ==
  ASSUME DaemonIInv, RemoveFromServer \/ RemoveFromDatabase
  PROVE  DaemonIInv'
<1>1. PICK p \in {"forget", "idle"} :
        /\ thread' = [thread EXCEPT !["asio"].pc = p]
        /\ \/ thread["asio"].pc = "withdraw" /\ p = "forget"
           \/ thread["asio"].pc = "forget" /\ p = "idle"
  BY DEF RemoveFromServer, RemoveFromDatabase, At, Goto
<1>2. UNCHANGED <<external, queue, watches, storageID, screen_locked,
                  removables, mRunning, stopped>>
  BY DEF RemoveFromServer, RemoveFromDatabase, history
<1>3. /\ thread' \in [Workers -> Thread] /\ thread'["asio"].pc = p
      /\ thread'["main"].pc = thread["main"].pc
      /\ \A u \in Workers :
           /\ thread'[u].name = thread[u].name
           /\ thread'[u].id = thread[u].id
           /\ thread'[u].todo = thread[u].todo
           /\ thread'[u].after = thread[u].after
  <2>1. p \in MainAt \cup AsioAt
    BY DEF AsioAt
  <2> QED
    BY <1>1, <2>1, ThreadMoves DEF DaemonIInv, Types, Workers
<1>4. /\ mStorages' \in Seq(Storage) /\ Ids(mStorages') \subseteq Ids(mStorages)
      /\ Distinct(mStorages') /\ scanned' \subseteq Nat
  BY IdsWithout
     DEF RemoveFromServer, RemoveFromDatabase, DaemonIInv, Types,
         StorageIdsUnique, Distinct
<1>5. Types'
  BY <1>1, <1>2, <1>3, <1>4
     DEF DaemonIInv, Types, external, watches, history, AsioAt
<1>6. Places'
  BY <1>1, <1>2, <1>3
     DEF DaemonIInv, Places, watches, Workers
<1>7. Identifiers'
  <2>1. Ids(mStorages)' \subseteq Ids(mStorages) /\ Filed' = Filed
    BY <1>2, <1>4 DEF Ids, Filed
  <2>2. \A n \in DOMAIN removables : ToOffer(n)' => ToOffer(n)
    BY <1>2, <1>3 DEF ToOffer, Workers
  <2> QED
    BY <1>1, <1>2, <1>3, <2>1, <2>2
       DEF DaemonIInv, Identifiers, Workers
<1> QED
  BY <1>2, <1>4, <1>5, <1>6, <1>7 DEF DaemonIInv, StorageIdsUnique, Distinct

(* The cards that come and go, and stop() on the D-Bus thread.             *)
LEMMA EnvironmentKeeps ==
  ASSUME DaemonIInv, System \/ Stop \/ UNCHANGED daemonVars
  PROVE  DaemonIInv'
<1>1. UNCHANGED <<watches, storageID, screen_locked, removables, server,
                  thread>>
  BY DEF System, Stop, daemonVars
<1>2. /\ mediaDir' \in BOOLEAN /\ mounted' \subseteq Cards
      /\ mRunning' \in BOOLEAN /\ stopped' \in BOOLEAN
      /\ \/ queue' = queue
         \/ \E e \in InotifyEvent :
              /\ queue' = Append(queue, e)
              /\ watch_fd # 0 \/ mediaWatch # 0
              /\ e.mask = "IN_CREATE" /\ e.wd # media_fd => e.name \in Cards
  <2>1. /\ mediaDir \in BOOLEAN /\ mounted \subseteq Cards
        /\ mRunning \in BOOLEAN /\ stopped \in BOOLEAN
        /\ watch_fd \in Nat /\ mediaWatch \in Nat
        /\ mediaWatch # 0 => media_fd = mediaWatch
    BY DEF DaemonIInv, Types, Places
  <2>2. CASE System
    <3>1. UNCHANGED <<mRunning, stopped>>
      BY <2>2 DEF System
    <3>3. CASE CreateMediaDir
      <4> DEFINE e == [wd |-> mediaWatch, mask |-> "IN_CREATE", name |-> HomeName]
      <4>1. mediaDir' = TRUE /\ mounted' = mounted
            /\ queue' = IF mediaWatch = 0 THEN queue ELSE Append(queue, e)
        BY <3>3 DEF CreateMediaDir, Event
      <4>2. e \in InotifyEvent /\ e.wd = mediaWatch
        BY <2>1 DEF InotifyEvent, CardOrHome
      <4>3. mediaDir' \in BOOLEAN
        BY <4>1, Zenon
      <4> HIDE DEF e
      <4> QED
        BY <2>1, <3>1, <4>1, <4>2, <4>3
    <3>4. ASSUME NEW c \in Cards, Mount(c) \/ Unmount(c),
                 NEW mask \in {"IN_CREATE", "IN_DELETE"},
                 Event(watch_fd, mask, c)
          PROVE  \/ queue' = queue
                 \/ \E e \in InotifyEvent :
                      /\ queue' = Append(queue, e)
                      /\ watch_fd # 0 \/ mediaWatch # 0
                      /\ e.mask = "IN_CREATE" /\ e.wd # media_fd => e.name \in Cards
      <4> DEFINE e == [wd |-> watch_fd, mask |-> mask, name |-> c]
      <4>1. queue' = IF watch_fd = 0 THEN queue ELSE Append(queue, e)
        BY <3>4 DEF Event
      <4>2. e \in InotifyEvent /\ e.name \in Cards
        BY <2>1 DEF InotifyEvent, CardOrHome
      <4> HIDE DEF e
      <4> QED
        BY <4>1, <4>2
    <3>5. ASSUME NEW c \in Cards, Mount(c)
          PROVE  mediaDir' = mediaDir /\ mounted' \subseteq Cards
                 /\ Event(watch_fd, "IN_CREATE", c)
      BY <2>1, <3>5, Zenon DEF Mount
    <3>6. ASSUME NEW c \in Cards, Unmount(c)
          PROVE  mediaDir' = mediaDir /\ mounted' \subseteq Cards
                 /\ Event(watch_fd, "IN_DELETE", c)
      BY <2>1, <3>6, Zenon DEF Unmount
    <3>7. ASSUME NEW c \in Cards, Mount(c) \/ Unmount(c)
          PROVE  /\ mediaDir' = mediaDir /\ mounted' \subseteq Cards
                 /\ \/ queue' = queue
                    \/ \E e \in InotifyEvent :
                         /\ queue' = Append(queue, e)
                         /\ watch_fd # 0 \/ mediaWatch # 0
                         /\ e.mask = "IN_CREATE" /\ e.wd # media_fd => e.name \in Cards
      BY <3>4, <3>5, <3>6, <3>7
    <3>8. CreateMediaDir \/ \E c \in Cards : Mount(c) \/ Unmount(c)
      BY <2>2, Zenon DEF System
    <3> QED
      BY <2>1, <3>1, <3>3, <3>7, <3>8
  <2>3. CASE Stop
    <3>1. mRunning' \in BOOLEAN /\ stopped' \in BOOLEAN
      BY <2>3, Zenon DEF Stop
    <3> QED
      BY <2>1, <2>3, <3>1 DEF Stop, external
  <2>4. CASE UNCHANGED daemonVars
    BY <2>1, <2>4 DEF daemonVars, external, history
  <2> QED
    BY <2>2, <2>3, <2>4
<1>3. /\ queue' \in Seq(InotifyEvent)
      /\ \/ queue' = queue
         \/ watch_fd # 0 \/ mediaWatch # 0
      /\ \A i \in DOMAIN queue' :
           queue'[i].mask = "IN_CREATE" /\ queue'[i].wd # media_fd =>
             queue'[i].name \in Cards
  <2>1. CASE queue' = queue
    BY <2>1 DEF DaemonIInv, Types, Places
  <2>2. CASE queue' # queue
    <3>1. PICK e \in InotifyEvent :
            /\ queue' = Append(queue, e)
            /\ watch_fd # 0 \/ mediaWatch # 0
            /\ e.mask = "IN_CREATE" /\ e.wd # media_fd => e.name \in Cards
      BY <1>2, <2>2
    <3>2. queue \in Seq(InotifyEvent)
      BY DEF DaemonIInv, Types
    <3>3. /\ queue' \in Seq(InotifyEvent) /\ Len(queue') = Len(queue) + 1
          /\ \A i \in 1 .. Len(queue) : queue'[i] = queue[i]
          /\ queue'[Len(queue) + 1] = e
      BY <3>1, <3>2, AppendProperties
    <3>4. ASSUME NEW i \in DOMAIN queue'
          PROVE  queue'[i].mask = "IN_CREATE" /\ queue'[i].wd # media_fd =>
                   queue'[i].name \in Cards
      <4>1. i \in 1 .. Len(queue) \/ i = Len(queue) + 1
        BY <3>2, <3>3
      <4>2. DOMAIN queue = 1 .. Len(queue)
        BY <3>2
      <4> QED
        BY <3>1, <3>3, <4>1, <4>2 DEF DaemonIInv, Places
    <3> QED
      BY <3>1, <3>3, <3>4
  <2> QED
    BY <2>1, <2>2
<1>4. Types'
  BY <1>1, <1>2, <1>3 DEF DaemonIInv, Types, watches, server
<1>5. Places'
  BY <1>1, <1>3 DEF DaemonIInv, Places, watches
<1>6. Identifiers'
  BY <1>1 DEF DaemonIInv, Identifiers, Ids, Filed, ToOffer, watches, server
<1> QED
  BY <1>1, <1>4, <1>5, <1>6 DEF DaemonIInv, StorageIdsUnique, server

LEMMA DaemonIInvNext == DaemonIInv /\ [DaemonNext]_daemonVars => DaemonIInv'
<1> SUFFICES ASSUME DaemonIInv, [DaemonNext]_daemonVars PROVE DaemonIInv'
  OBVIOUS
<1>1. ASSUME NEW t \in Workers, AddRemovableStorage(t) PROVE DaemonIInv'
  BY <1>1, NewStorageKeeps, StepCounterKeeps, AddStoragePathKeeps,
     AddStorageKeeps, InsertRemovableKeeps DEF AddRemovableStorage
<1>2. CASE MainStep
  BY <1>1, <1>2, InitStorageKeeps, MainMovesKeep, ExposeHomeKeeps,
     OfferRemovableKeeps DEF MainStep, Workers
<1>3. CASE AsioStep
  BY <1>1, <1>3, ReadEventKeeps, WithdrawKeeps DEF AsioStep, Workers
<1> QED
  BY <1>2, <1>3, MainMovesKeep, EnvironmentKeeps DEF DaemonNext

THEOREM DaemonIInvHolds == DaemonSpec => []DaemonIInv
<1> QED
  BY DaemonIInvInit, DaemonIInvNext, PTL DEF DaemonSpec

(* The daemon's state is well formed, and no two storages and no two cards *)
(* ever share an identifier, although two threads hand identifiers out     *)
(* from one counter without a lock.                                        *)
THEOREM DaemonInvHolds == DaemonSpec => []DaemonInv
<1>1. DaemonIInv => DaemonInv
  BY DEF DaemonIInv, Types, Thread, CardOrHome, DaemonInv, DaemonTypeOK
<1> QED
  BY <1>1, DaemonIInvHolds, PTL

-----------------------------------------------------------------------------
(* ScannedBeforeExposed                                                    *)

(* What was filed stays filed, and what slipped is remembered.             *)
LEMMA FilingStays ==
  ASSUME [DaemonNext]_daemonVars
  PROVE  /\ slips \subseteq slips'
         /\ \A c \in DOMAIN removables :
              c \in DOMAIN removables' /\ removables'[c] = removables[c]
<1>1. slips \subseteq slips'
  <2>1. CASE System
    BY <2>1 DEF System, CreateMediaDir, Mount, Unmount
  <2>2. CASE ~System
    BY <2>2
       DEF DaemonNext, MainStep, AsioStep, AddRemovableStorage, daemonVars,
           history, NewStorage, StepCounter, AddStoragePath, AddStorage,
           InsertRemovable, InitStorage, WatchMountpoint, Unlock, ExposeHome,
           OfferRemovable, Run, Return, ReadEvent, RemoveFromServer,
           RemoveFromDatabase, Stop
  <2> QED
    BY <2>1, <2>2
<1>2. (\E t \in Workers : InsertRemovable(t)) \/ removables' = removables
  BY DEF DaemonNext, MainStep, AsioStep, AddRemovableStorage, daemonVars,
         NewStorage, StepCounter, AddStoragePath, AddStorage, InitStorage,
         WatchMountpoint, Unlock, ExposeHome, OfferRemovable, Run, Return,
         ReadEvent, RemoveFromServer, RemoveFromDatabase, Stop, System, Workers
<1>3. ASSUME NEW t \in Workers, InsertRemovable(t), NEW c \in DOMAIN removables
      PROVE  c \in DOMAIN removables' /\ removables'[c] = removables[c]
  BY <1>3 DEF InsertRemovable, Insert
<1> QED
  BY <1>1, <1>2, <1>3

(* Where the main thread goes from where it is.                            *)
MainMoves ==
  LET at == thread["main"].pc
      to == thread'["main"].pc
      name == thread["main"].name
  IN
  \/ thread'["main"] = thread["main"]
  \/ at \in Locked /\ to \in Locked \ {"init"}
  \/ at = "unlock" /\ to = "home"
  \/ at = "home" /\ to = "offer" /\ thread'["main"].name = HomeName
  \/ /\ at = "offer" /\ to \in {"offer", "offer_scan"}
     /\ name \in Nat /\ thread'["main"].name \in Nat
     /\ name < thread'["main"].name
  \/ at = "offer_scan" /\ to = "offer_expose" /\ thread'["main"].name = name
  \/ at = "offer_expose" /\ to = "offer" /\ thread'["main"].name = name
  \/ at \in {"offer", "serving"} /\ to \in {"serving", "ended"}

LEMMA MainMovesOn ==
  ASSUME DaemonIInv, [DaemonNext]_daemonVars
  PROVE  MainMoves
<1>0. /\ thread \in [Workers -> Thread] /\ thread["main"] \in Thread
      /\ thread["main"].pc \in MainAt /\ "main" \in Workers
      /\ "asio" \in Workers
  BY DEF DaemonIInv, Types, Workers
<1>1. CASE NewStorage("main")
  <2>1. thread["main"].pc = "new" /\ thread'["main"].pc = "count"
    BY <1>0, <1>1 DEF NewStorage, At, Thread
  <2> QED
    BY <2>1 DEF MainMoves, Locked, Listing
<1>2. CASE StepCounter("main")
  <2>1. thread["main"].pc = "count" /\ screen_locked
    BY <1>2 DEF StepCounter, At, DaemonIInv, Places, Locked, Listing
  <2>2. thread'["main"].pc = "insert"
    BY <1>0, <1>2, <2>1 DEF StepCounter, Goto, Thread
  <2> QED
    BY <2>1, <2>2 DEF MainMoves, Locked, Listing
<1>3. CASE AddStoragePath("main") \/ AddStorage("main")
  <2>1. /\ thread["main"].pc \in {"offer_scan", "offer_expose"}
        /\ thread["main"].pc = "offer_scan" =>
             thread' = [thread EXCEPT !["main"].pc = "offer_expose"]
        /\ thread["main"].pc = "offer_expose" =>
             thread' = [thread EXCEPT !["main"].pc = "offer"]
    BY <1>0, <1>3 DEF AddStoragePath, AddStorage, At, Goto, MainAt, Locked,
       Listing
  <2> QED
    BY <1>0, <2>1 DEF MainMoves, Thread
<1>4. CASE InsertRemovable("main")
  <2>1. /\ thread["main"].pc = "insert" /\ thread["main"].after = "watch"
        /\ thread'["main"] = NextCard(thread["main"])
    BY <1>0, <1>4 DEF InsertRemovable, At, DaemonIInv, Places
  <2>2. thread'["main"].pc \in {"new", "watch"}
    BY <1>0, <2>1 DEF NextCard, Thread
  <2> QED
    BY <2>1, <2>2 DEF MainMoves, Locked, Listing
<1>5. CASE InitStorage
  <2>1. thread["main"].pc = "init" /\ thread'["main"].pc \in {"new", "watch", "unlock"}
    BY <1>0, <1>5, InitStorageThread DEF InitStorage, At, DaemonIInv, Types
  <2> QED
    BY <2>1 DEF MainMoves, Locked, Listing
<1>6. CASE WatchMountpoint \/ Unlock \/ Run \/ Return
  <2>1. \/ thread["main"].pc = "watch" /\ thread'["main"].pc = "unlock"
        \/ thread["main"].pc = "unlock" /\ thread'["main"].pc = "home"
        \/ thread["main"].pc = "offer" /\ thread'["main"].pc = "serving"
        \/ thread["main"].pc = "serving" /\ thread'["main"].pc = "ended"
    BY <1>0, <1>6 DEF WatchMountpoint, Unlock, Run, Return, Goto, At, Thread
  <2> QED
    BY <2>1 DEF MainMoves, Locked, Listing
<1>7. CASE ExposeHome
  <2>1. thread' = [thread EXCEPT !["main"] = [thread["main"] EXCEPT
                     !.pc = "offer", !.name = HomeName]]
    BY <1>0, <1>7 DEF ExposeHome
  <2>2. /\ thread["main"].pc = "home" /\ thread'["main"].pc = "offer"
        /\ thread'["main"].name = HomeName
    BY <1>0, <1>7, <2>1 DEF ExposeHome, At, Thread
  <2> QED
    BY <2>2 DEF MainMoves
<1>8. CASE OfferRemovable
  <2> DEFINE later == {n \in DOMAIN removables : n > thread["main"].name}
             m == Min(later)
             to == IF removables[m].added THEN "offer" ELSE "offer_scan"
  <2>1. later \in SUBSET Nat /\ later # {} /\ thread["main"].name \in Nat
    <3>1. CardOrHome \subseteq Nat /\ Cards \subseteq Nat
      BY DaemonAssumption DEF CardOrHome, HomeName
    <3>2. thread["main"].name \in CardOrHome
      BY <1>0 DEF Thread
    <3>3. DOMAIN removables \subseteq Nat
      BY <3>1 DEF DaemonIInv, Types
    <3>4. later # {}
      BY <1>8 DEF OfferRemovable
    <3> QED
      BY <3>1, <3>2, <3>3, <3>4
  <2>2. m \in later
    BY <2>1, MinIsLeast
  <2>3. m \in Nat /\ thread["main"].name < m
    BY <2>1, <2>2
  <2>4. /\ thread["main"].pc = "offer"
        /\ thread' = [thread EXCEPT !["main"] = [thread["main"] EXCEPT
             !.name = m, !.id = removables[m].id, !.pc = to]]
    BY <1>0, <1>8 DEF OfferRemovable, At
  <2>5. to \in {"offer", "offer_scan"}
    OBVIOUS
  <2> HIDE DEF m, to
  <2>6. thread'["main"].name = m /\ thread'["main"].pc = to
    BY <1>0, <2>4 DEF Thread
  <2> QED
    BY <2>1, <2>3, <2>4, <2>5, <2>6 DEF MainMoves
<1>9. CASE AddRemovableStorage("asio")
  <2>1. thread'["main"] = thread["main"]
    BY <1>0, <1>9 DEF AddRemovableStorage, NewStorage, StepCounter,
       AddStoragePath, AddStorage, InsertRemovable, Goto
  <2> QED
    BY <2>1 DEF MainMoves
<1>10. CASE ReadEvent \/ RemoveFromServer \/ RemoveFromDatabase
  <2>1. thread'["main"] = thread["main"]
    BY <1>0, <1>10 DEF ReadEvent, RemoveFromServer, RemoveFromDatabase, Goto
  <2> QED
    BY <2>1 DEF MainMoves
<1>11. CASE Stop \/ System \/ UNCHANGED daemonVars
  <2>1. thread' = thread
    BY <1>11 DEF Stop, System, daemonVars
  <2> QED
    BY <2>1 DEF MainMoves
<1> QED
  BY <1>1, <1>2, <1>3, <1>4, <1>5, <1>6, <1>7, <1>8, <1>9, <1>10, <1>11
     DEF DaemonNext, MainStep, AsioStep, AddRemovableStorage

(* The main thread never comes back to a card it has passed.               *)
LEMMA OfferEnds ==
  ASSUME DaemonIInv, [DaemonNext]_daemonVars, NEW c \in DOMAIN removables,
         ToOffer(c)'
  PROVE  ToOffer(c)
<1>1. MainMoves
  BY MainMovesOn
<1>2. removables'[c] = removables[c]
  BY FilingStays
<1>3. c \in Nat
  BY DaemonAssumption DEF DaemonIInv, Types
<1> DEFINE at == thread["main"].pc
           to == thread'["main"].pc
           name == thread["main"].name
           next == thread'["main"].name
<1>4. /\ ~removables[c].added
      /\ \/ to \in Locked \cup {"home"}
         \/ to = "offer" /\ c > next
         \/ to \in {"offer_scan", "offer_expose"} /\ c >= next
  BY <1>2 DEF ToOffer
<1>5. SUFFICES \/ at \in Locked \cup {"home"}
               \/ at = "offer" /\ c > name
               \/ at \in {"offer_scan", "offer_expose"} /\ c >= name
  BY <1>4 DEF ToOffer
<1>6. CASE thread'["main"] = thread["main"]
  BY <1>4, <1>6
<1>7. CASE \/ at \in Locked \cup {"home"}
           \/ at \in {"offer", "serving"} /\ to \in {"serving", "ended"}
  BY <1>4, <1>7 DEF Locked, Listing
<1>8. CASE /\ at = "offer" /\ to \in {"offer", "offer_scan"}
           /\ name \in Nat /\ next \in Nat /\ name < next
  <2>1. c >= next
    BY <1>3, <1>4, <1>8 DEF Locked, Listing
  <2>2. c > name
    BY <1>3, <1>8, <2>1
  <2> QED
    BY <1>8, <2>2
<1>9. CASE \/ at = "offer_scan" /\ to = "offer_expose" /\ next = name
           \/ at = "offer_expose" /\ to = "offer" /\ next = name
  <2>1. c >= next
    <3>1. CASE c > next
      <4>1. name \in Nat
        <5>1. name \in CardOrHome
          BY DEF DaemonIInv, Types, Thread, Workers
        <5> QED
          BY <5>1, DaemonAssumption DEF CardOrHome, HomeName
      <4> QED
        BY <1>3, <1>9, <3>1, <4>1
    <3>2. CASE c >= next
      BY <3>2
    <3> QED
      BY <1>4, <1>9, <3>1, <3>2 DEF Locked, Listing
  <2> QED
    BY <1>9, <2>1
<1> QED
  BY <1>1, <1>6, <1>7, <1>8, <1>9 DEF MainMoves, Locked

(* Which storages come to be exposed.                                      *)
LEMMA ListGrows ==
  ASSUME DaemonIInv, [DaemonNext]_daemonVars, NEW x \in Ids(mStorages'),
         x \notin Ids(mStorages)
  PROVE  \/ x = MTP_STORAGE_FIXED_RAM /\ thread["main"].pc = "home"
         \/ thread["main"].pc = "offer_expose" /\ x = thread["main"].id
         \/ thread["asio"].pc = "expose" /\ x = thread["asio"].id
<1>0. /\ mStorages \in Seq(Storage) /\ Distinct(mStorages)
      /\ thread \in [Workers -> Thread] /\ Workers = {"main", "asio"}
      /\ thread["main"].pc \in MainAt /\ thread["asio"].pc \in AsioAt
  BY DEF DaemonIInv, Types, StorageIdsUnique, Distinct, Workers
<1>1. ASSUME NEW t \in Workers, AddStorage(t)
      PROVE  x = thread[t].id /\ thread[t].pc \in {"expose", "offer_expose"}
  <2> DEFINE s == [id |-> thread[t].id, name |-> thread[t].name]
  <2>1. mStorages' = Append(mStorages, s)
    BY <1>1 DEF AddStorage
  <2>2. s \in Storage /\ s.id = thread[t].id
    BY <1>0 DEF Thread, Storage
  <2> HIDE DEF s
  <2>3. Ids(mStorages') = Ids(mStorages) \cup {thread[t].id}
    BY <1>0, <2>1, <2>2, IdsAppend
  <2> QED
    BY <1>1, <2>3 DEF AddStorage
<1>2. CASE AddStorage("main")
  BY <1>0, <1>1, <1>2 DEF MainAt, Locked, Listing
<1>3. CASE AddStorage("asio")
  BY <1>0, <1>1, <1>3 DEF AsioAt
<1>4. CASE ExposeHome
  <2> DEFINE s == [id |-> MTP_STORAGE_FIXED_RAM, name |-> HomeName]
  <2>1. mStorages' = Append(mStorages, s) /\ thread["main"].pc = "home"
    BY <1>4 DEF ExposeHome, At
  <2>2. s \in Storage /\ s.id = MTP_STORAGE_FIXED_RAM
    BY DEF Storage, CardOrHome, MTP_STORAGE_FIXED_RAM
  <2> HIDE DEF s
  <2>3. Ids(mStorages') = Ids(mStorages) \cup {MTP_STORAGE_FIXED_RAM}
    BY <1>0, <2>1, <2>2, IdsAppend
  <2> QED
    BY <2>1, <2>3
<1>5. CASE RemoveFromServer
  <2>1. Ids(mStorages') \subseteq Ids(mStorages)
    BY <1>0, <1>5, IdsWithout DEF RemoveFromServer
  <2> QED
    BY <2>1
<1>6. CASE mStorages' = mStorages
  BY <1>6
<1> QED
  BY <1>2, <1>3, <1>4, <1>5, <1>6
     DEF DaemonNext, MainStep, AsioStep, AddRemovableStorage, daemonVars,
         server, NewStorage, StepCounter, AddStoragePath, InsertRemovable,
         InitStorage, WatchMountpoint, Unlock, OfferRemovable, Run, Return,
         ReadEvent, RemoveFromDatabase, Stop, System

(* What is withdrawn stays so: nothing exposes it again.                   *)
LEMMA AliveEnds ==
  ASSUME DaemonIInv, [DaemonNext]_daemonVars, NEW c \in DOMAIN removables,
         Alive(c)'
  PROVE  Alive(c)
<1> DEFINE x == removables[c].id
<1>1. /\ removables'[c].id = x /\ slips \subseteq slips'
      /\ ToOffer(c)' => ToOffer(c)
  BY FilingStays, OfferEnds
<1>2. x \in Filed /\ x # MTP_STORAGE_FIXED_RAM
  <2>1. x \in Filed
    BY DEF Filed
  <2> QED
    BY <2>1 DEF DaemonIInv, Types, Identifiers, MTP_STORAGE_FIXED_RAM,
       MTP_STORAGE_REMOVABLE_RAM
<1>3. ASSUME x \in Ids(mStorages'), x \notin Ids(mStorages)
      PROVE  ToOffer(c)
  <2>1. \/ thread["main"].pc = "offer_expose" /\ x = thread["main"].id
        \/ thread["asio"].pc = "expose" /\ x = thread["asio"].id
    BY <1>2, <1>3, ListGrows
  <2>2. ~(thread["asio"].pc = "expose" /\ x = thread["asio"].id)
    BY <1>2 DEF DaemonIInv, Identifiers, Workers
  <2>3. /\ thread["main"].pc = "offer_expose"
        /\ thread["main"].name \in DOMAIN removables
        /\ x = removables[thread["main"].name].id
        /\ ~removables[thread["main"].name].added
    BY <2>1, <2>2 DEF DaemonIInv, Identifiers
  <2>4. thread["main"].name = c
    BY <2>3 DEF DaemonIInv, StorageIdsUnique
  <2>5. c \in Nat
    BY DaemonAssumption DEF DaemonIInv, Types
  <2> QED
    BY <2>3, <2>4, <2>5 DEF ToOffer
<1>4. Ids(mStorages)' = Ids(mStorages')
  BY DEF Ids
<1> QED
  BY <1>1, <1>3, <1>4 DEF Alive, Overtaken

LEMMA ScanningInit == DaemonInit => Scanning
<1> SUFFICES ASSUME DaemonInit PROVE Scanning
  OBVIOUS
<1>1. thread["main"].pc = "init" /\ thread["asio"].pc = "idle"
  BY DEF DaemonInit, Workers
<1>2. mStorages = <<>>
  BY DEF DaemonInit
<1> QED
  BY <1>1, <1>2 DEF Scanning, Ids

(* A step that leaves the list alone and takes no entries away.            *)
LEMMA ScanningFrame ==
  ASSUME DaemonIInv, Scanning, [DaemonNext]_daemonVars, mStorages' = mStorages,
         scanned \subseteq scanned',
         thread["main"].pc = "init" =>
           \/ thread'["main"].pc = "init"
           \/ MTP_STORAGE_FIXED_RAM \in scanned',
         thread'["main"].pc = "init" => thread["main"].pc = "init",
         thread'["asio"].pc = "expose" =>
           \/ thread["asio"].pc = "expose" /\ UNCHANGED thread["asio"].id
           \/ thread'["asio"].id \in scanned',
         thread'["main"].pc = "offer_expose" =>
           \/ thread["main"].pc = "offer_expose" /\ UNCHANGED thread["main"].id
           \/ thread'["main"].id \in scanned',
         thread'["asio"].pc = "forget" =>
           /\ thread["asio"].pc = "forget" /\ UNCHANGED thread["asio"].id
           /\ removables' = removables
  PROVE  Scanning'
<1>1. Ids(mStorages)' = Ids(mStorages)
  BY DEF Ids
<1>2. slips \subseteq slips' /\ \A x : Overtaken(x) => Overtaken(x)'
  BY FilingStays DEF Overtaken
<1>3. thread'["asio"].pc = "forget" =>
        \A c \in DOMAIN removables' :
          removables'[c].id = thread'["asio"].id => ~Alive(c)'
  BY AliveEnds DEF Scanning
<1> QED
  BY <1>1, <1>2, <1>3 DEF Scanning

LEMMA ScanningNext ==
  DaemonIInv /\ Scanning /\ [DaemonNext]_daemonVars => Scanning'
<1> SUFFICES ASSUME DaemonIInv, Scanning, [DaemonNext]_daemonVars
             PROVE  Scanning'
  OBVIOUS
<1>0. /\ thread \in [Workers -> Thread]
      /\ thread["main"].pc \in MainAt /\ thread["asio"].pc \in AsioAt
      /\ Workers = {"main", "asio"}
      /\ mStorages \in Seq(Storage) /\ Distinct(mStorages)
  BY DEF DaemonIInv, Types, Workers, StorageIdsUnique, Distinct
<1>1. ASSUME NEW t \in Workers,
             NewStorage(t) \/ StepCounter(t) \/ InsertRemovable(t)
      PROVE  Scanning'
  <2>1. UNCHANGED <<mStorages, scanned>>
    BY <1>1 DEF NewStorage, StepCounter, InsertRemovable, server
  <2>2. thread[t].pc \in {"new", "count", "insert"}
    BY <1>1 DEF NewStorage, StepCounter, InsertRemovable, At
  <2>3. \A u \in Workers : u # t => thread'[u] = thread[u]
    BY <1>0, <1>1 DEF NewStorage, StepCounter, InsertRemovable, Goto
  <2>4. /\ thread'[t].pc \in {"count", "insert", "scan", "new", thread[t].after}
        /\ t = "main" => thread[t].after = "watch"
        /\ t = "asio" => thread[t].after = "idle"
    <3>1. ASSUME NewStorage(t) PROVE thread'[t].pc = "count"
      BY <1>0, <3>1 DEF NewStorage, Thread
    <3>2. ASSUME StepCounter(t) PROVE thread'[t].pc \in {"insert", "scan"}
      BY <1>0, <3>2 DEF StepCounter, Goto, Thread
    <3>3. ASSUME InsertRemovable(t)
          PROVE  thread'[t].pc \in {"new", thread[t].after}
      <4>1. thread'[t] = NextCard(thread[t])
        BY <1>0, <3>3 DEF InsertRemovable
      <4>2. NextCard(thread[t]).pc \in {"new", thread[t].after}
        BY <1>0 DEF NextCard, Thread
      <4> QED
        BY <4>1, <4>2
    <3>4. /\ t = "main" => thread[t].after = "watch"
          /\ t = "asio" => thread[t].after = "idle"
      BY <2>2 DEF DaemonIInv, Places
    <3> QED
      BY <1>1, <3>1, <3>2, <3>3, <3>4
  <2>5. CASE t = "main"
    <3>1. thread["asio"].pc = "idle"
      BY <2>2, <2>5 DEF DaemonIInv, Places, Listing
    <3> QED
      BY <1>0, <2>1, <2>2, <2>3, <2>4, <2>5, <3>1, ScanningFrame
  <2>6. CASE t = "asio"
    BY <1>0, <2>1, <2>2, <2>3, <2>4, <2>6, ScanningFrame
  <2> QED
    BY <1>0, <2>5, <2>6
<1>2. ASSUME NEW t \in Workers, AddStoragePath(t) PROVE Scanning'
  <2>1. /\ UNCHANGED <<mStorages, removables>>
        /\ scanned' = scanned \cup {thread[t].id}
        /\ thread[t].pc \in {"scan", "offer_scan"}
        /\ thread' = [thread EXCEPT ![t].pc = IF thread[t].pc = "scan"
                                             THEN "expose" ELSE "offer_expose"]
    BY <1>2 DEF AddStoragePath, At, Goto
  <2>2. CASE t = "main"
    <3>1. thread["main"].pc = "offer_scan"
      BY <1>0, <2>1, <2>2 DEF MainAt, Locked, Listing
    <3>2. /\ thread'["main"].pc = "offer_expose"
          /\ thread'["main"].id = thread["main"].id
          /\ thread'["asio"] = thread["asio"]
      BY <1>0, <2>1, <2>2, <3>1 DEF Thread
    <3> QED
      BY <2>1, <2>2, <3>1, <3>2, ScanningFrame
  <2>3. CASE t = "asio"
    <3>1. thread["asio"].pc = "scan"
      BY <1>0, <2>1, <2>3 DEF AsioAt
    <3>2. /\ thread'["asio"].pc = "expose"
          /\ thread'["asio"].id = thread["asio"].id
          /\ thread'["main"] = thread["main"]
      BY <1>0, <2>1, <2>3, <3>1 DEF Thread
    <3> QED
      BY <2>1, <2>3, <3>1, <3>2, ScanningFrame
  <2> QED
    BY <1>0, <2>2, <2>3
<1>3. ASSUME NEW t \in Workers, AddStorage(t) PROVE Scanning'
  <2> DEFINE s == [id |-> thread[t].id, name |-> thread[t].name]
  <2>1. /\ UNCHANGED <<scanned, removables, slips>>
        /\ thread[t].pc \in {"expose", "offer_expose"}
        /\ mStorages' = Append(mStorages, s)
        /\ thread' = [thread EXCEPT ![t].pc = IF thread[t].pc = "expose"
                                             THEN "insert" ELSE "offer"]
    BY <1>3 DEF AddStorage, At, Goto, history
  <2>2. s \in Storage /\ s.id = thread[t].id
    BY <1>0 DEF Thread, Storage
  <2> HIDE DEF s
  <2>3. Ids(mStorages)' = Ids(mStorages) \cup {thread[t].id}
    <3>1. Ids(mStorages') = Ids(mStorages) \cup {thread[t].id}
      BY <1>0, <2>1, <2>2, IdsAppend
    <3> QED
      BY <3>1 DEF Ids
  <2>4. \A x : Overtaken(x)' <=> Overtaken(x)
    BY <2>1 DEF Overtaken
  <2>5. \A c \in DOMAIN removables : ~Alive(c) => ~Alive(c)'
    BY AliveEnds
  <2>6. CASE t = "main"
    <3>1. thread["main"].pc = "offer_expose"
      BY <1>0, <2>1, <2>6 DEF MainAt, Locked, Listing
    <3>2. /\ thread'["main"].pc = "offer" /\ thread'["asio"] = thread["asio"]
      BY <1>0, <2>1, <2>6, <3>1 DEF Thread
    <3> QED
      BY <2>1, <2>3, <2>4, <2>5, <2>6, <3>1, <3>2 DEF Scanning
  <2>7. CASE t = "asio"
    <3>1. thread["asio"].pc = "expose"
      BY <1>0, <2>1, <2>7 DEF AsioAt
    <3>2. /\ thread'["asio"].pc = "insert" /\ thread'["main"] = thread["main"]
      BY <1>0, <2>1, <2>7, <3>1 DEF Thread
    <3> QED
      BY <2>1, <2>3, <2>4, <2>7, <3>1, <3>2 DEF Scanning
  <2> QED
    BY <1>0, <2>6, <2>7
<1>4. CASE InitStorage
  <2>1. /\ thread["main"].pc = "init"
        /\ scanned' = scanned \cup {MTP_STORAGE_FIXED_RAM}
        /\ UNCHANGED <<mStorages, removables>>
    BY <1>4 DEF InitStorage, At
  <2>2. thread'["asio"] = thread["asio"]
    BY <1>0, <1>4 DEF InitStorage, Goto
  <2>3. thread'["main"].pc \in {"new", "watch", "unlock"}
    BY <1>0, <1>4, InitStorageThread DEF DaemonIInv, Types
  <2> QED
    BY <2>1, <2>2, <2>3, ScanningFrame
<1>5. CASE WatchMountpoint \/ Unlock \/ Run \/ Return
  <2>1. UNCHANGED <<mStorages, scanned, removables>>
    BY <1>5 DEF WatchMountpoint, Unlock, Run, Return, server
  <2>2. /\ thread'["asio"] = thread["asio"]
        /\ \/ thread["main"].pc = "watch" /\ thread'["main"].pc = "unlock"
           \/ thread["main"].pc = "unlock" /\ thread'["main"].pc = "home"
           \/ thread["main"].pc = "offer" /\ thread'["main"].pc = "serving"
           \/ thread["main"].pc = "serving" /\ thread'["main"].pc = "ended"
    BY <1>0, <1>5 DEF WatchMountpoint, Unlock, Run, Return, Goto, At, Thread
  <2> QED
    BY <2>1, <2>2, ScanningFrame
<1>6. CASE ExposeHome
  <2> DEFINE s == [id |-> MTP_STORAGE_FIXED_RAM, name |-> HomeName]
  <2>1. /\ mStorages' = Append(mStorages, s) /\ thread["main"].pc = "home"
        /\ UNCHANGED <<scanned, removables, slips>>
    BY <1>6 DEF ExposeHome, At, history
  <2>2. s \in Storage /\ s.id = MTP_STORAGE_FIXED_RAM
    BY DEF Storage, CardOrHome, MTP_STORAGE_FIXED_RAM
  <2> HIDE DEF s
  <2>3. Ids(mStorages)' = Ids(mStorages) \cup {MTP_STORAGE_FIXED_RAM}
    <3>1. Ids(mStorages') = Ids(mStorages) \cup {MTP_STORAGE_FIXED_RAM}
      BY <1>0, <2>1, <2>2, IdsAppend
    <3> QED
      BY <3>1 DEF Ids
  <2>4. thread'["asio"] = thread["asio"] /\ thread'["main"].pc = "offer"
    <3>1. thread["main"] \in Thread
      BY <1>0
    <3>2. thread' = [thread EXCEPT !["main"] = [thread["main"] EXCEPT
                       !.pc = "offer", !.name = HomeName]]
      BY <1>0, <1>6 DEF ExposeHome
    <3> QED
      BY <1>0, <3>1, <3>2 DEF Thread
  <2>5. \A x : Overtaken(x)' <=> Overtaken(x)
    BY <2>1 DEF Overtaken
  <2>6. \A c \in DOMAIN removables : ~Alive(c) => ~Alive(c)'
    BY AliveEnds
  <2> QED
    BY <2>1, <2>3, <2>4, <2>5, <2>6 DEF Scanning
<1>7. CASE OfferRemovable
  <2>1. UNCHANGED <<mStorages, scanned, removables>> /\ thread["main"].pc = "offer"
    BY <1>7 DEF OfferRemovable, At, server
  <2>2. /\ thread'["asio"] = thread["asio"]
        /\ thread'["main"].pc \in {"offer", "offer_scan"}
    BY <1>0, <1>7 DEF OfferRemovable, Thread
  <2> QED
    BY <2>1, <2>2, ScanningFrame
<1>8. CASE ReadEvent
  <2>1. UNCHANGED <<mStorages, scanned, removables>>
    BY <1>8 DEF ReadEvent, server
  <2>2. /\ thread'["main"] = thread["main"]
        /\ \/ thread'["asio"] = thread["asio"]
           \/ thread'["asio"].pc \in {"new", "withdraw"}
    <3>1. \/ thread' = thread
          \/ \E x : thread' = [thread EXCEPT !["asio"].pc = "new",
                                             !["asio"].name = x]
          \/ \E x : thread' = [thread EXCEPT !["asio"].pc = "withdraw",
                                             !["asio"].id = x]
      BY <1>8 DEF ReadEvent
    <3> QED
      BY <1>0, <3>1 DEF Thread
  <2> QED
    BY <2>1, <2>2, ScanningFrame
<1>9. CASE RemoveFromServer
  <2> DEFINE x == thread["asio"].id
  <2>1. /\ mStorages' = Without(mStorages, x)
        /\ thread["asio"].pc = "withdraw"
        /\ UNCHANGED <<scanned, removables>>
        /\ x \notin Ids(mStorages) => <<"overtaken", x>> \in slips'
    BY <1>9 DEF RemoveFromServer, At
  <2>2. Ids(mStorages)' = Ids(mStorages) \ {x}
    <3>1. Ids(mStorages') = Ids(mStorages) \ {x}
      BY <1>0, <2>1, IdsWithout
    <3> QED
      BY <3>1 DEF Ids
  <2>3. /\ thread'["main"] = thread["main"] /\ thread'["asio"].pc = "forget"
        /\ thread'["asio"].id = x
    BY <1>0, <1>9 DEF RemoveFromServer, Goto, Thread
  <2>4. \A y : Overtaken(y) => Overtaken(y)'
    BY FilingStays DEF Overtaken
  <2>5. ASSUME NEW c \in DOMAIN removables, removables[c].id = x
        PROVE  ~Alive(c)'
    <3>1. CASE x \in Ids(mStorages)
      <4>1. ~ToOffer(c)
        BY <2>5, <3>1 DEF DaemonIInv, Identifiers
      <4> QED
        BY <2>1, <2>2, <2>5, <4>1, OfferEnds DEF Alive
    <3>2. CASE x \notin Ids(mStorages)
      BY <2>1, <2>5, <3>2 DEF Alive, Overtaken
    <3> QED
      BY <3>1, <3>2
  <2> QED
    BY <2>1, <2>2, <2>3, <2>4, <2>5 DEF Scanning
<1>10. CASE RemoveFromDatabase
  <2> DEFINE x == thread["asio"].id
  <2>1. /\ scanned' = scanned \ {x} /\ thread["asio"].pc = "forget"
        /\ UNCHANGED <<mStorages, removables, slips>>
    BY <1>10 DEF RemoveFromDatabase, At, history
  <2>2. /\ thread'["main"] = thread["main"] /\ thread'["asio"].pc = "idle"
    BY <1>0, <1>10 DEF RemoveFromDatabase, Goto, Thread
  <2>3. PICK c \in DOMAIN removables : removables[c].id = x
    BY <2>1 DEF DaemonIInv, Identifiers, Filed
  <2>4. x # MTP_STORAGE_FIXED_RAM
    BY <2>1 DEF DaemonIInv, Identifiers, MTP_STORAGE_FIXED_RAM,
                MTP_STORAGE_REMOVABLE_RAM
  <2>5. ~Alive(c)
    BY <2>1, <2>3 DEF Scanning
  <2>6. x \in Ids(mStorages) => Overtaken(x)
    BY <2>3, <2>5 DEF Alive
  <2>7. thread["main"].pc = "offer_expose" /\ thread["main"].id = x =>
          Overtaken(x)
    <3> SUFFICES ASSUME thread["main"].pc = "offer_expose",
                        thread["main"].id = x
                 PROVE  ToOffer(c)
      BY <2>3, <2>5 DEF Alive
    <3>1. /\ thread["main"].name \in DOMAIN removables
          /\ removables[thread["main"].name].id = x
          /\ ~removables[thread["main"].name].added
      BY DEF DaemonIInv, Identifiers
    <3>2. thread["main"].name = c
      BY <2>3, <3>1 DEF DaemonIInv, StorageIdsUnique
    <3>3. c \in Nat
      BY DaemonAssumption DEF DaemonIInv, Types
    <3> QED
      BY <3>1, <3>2, <3>3 DEF ToOffer
  <2>8. /\ Ids(mStorages)' = Ids(mStorages)
        /\ \A y : Overtaken(y)' <=> Overtaken(y)
    BY <2>1 DEF Ids, Overtaken
  <2> HIDE DEF x
  <2> QED
    BY <2>1, <2>2, <2>4, <2>6, <2>7, <2>8 DEF Scanning
<1>11. CASE Stop \/ System \/ UNCHANGED daemonVars
  <2>1. UNCHANGED <<mStorages, scanned, thread, removables>>
    BY <1>11 DEF Stop, System, daemonVars, server
  <2> QED
    BY <2>1, ScanningFrame
<1> QED
  BY <1>1, <1>2, <1>3, <1>4, <1>5, <1>6, <1>7, <1>8, <1>9, <1>10, <1>11
     DEF DaemonNext, MainStep, AsioStep, AddRemovableStorage, Workers

THEOREM ScanningHolds == DaemonSpec => []Scanning
<1> QED
  BY DaemonIInvHolds, ScanningInit, ScanningNext, PTL DEF DaemonSpec

(* The host never sees a storage whose content is not in the database,     *)
(* whatever comes and goes and however the threads take turns, save the    *)
(* storage that was withdrawn while the main thread had it in hand.        *)
THEOREM ScannedBeforeExposedHolds == DaemonSpec => []ScannedBeforeExposed
<1>1. Scanning => ScannedBeforeExposed
  BY DEF Scanning, ScannedBeforeExposed, Ids, Overtaken
<1> QED
  BY <1>1, ScanningHolds, PTL

-----------------------------------------------------------------------------
(* CardsWithdrawn                                                          *)

(* The events of a card that wait to be read.                              *)
Creates(c) ==
  {i \in DOMAIN queue : queue[i].mask = "IN_CREATE" /\ queue[i].name = c}
Deletes(c) ==
  {i \in DOMAIN queue : queue[i].mask = "IN_DELETE" /\ queue[i].name = c}

(* The card a thread is adding, and those the main thread has listed.      *)
AsioAdds(c) ==
  /\ thread["asio"].pc \in {"new", "count", "scan", "expose", "insert"}
  /\ thread["asio"].name = c
MainAdds(c) ==
  /\ thread["main"].pc \in {"new", "count", "insert"}
  /\ \/ thread["main"].name = c
     \/ \E i \in DOMAIN thread["main"].todo : thread["main"].todo[i] = c

(* The card is exposed or on its way there.                                *)
Coming(c) == Creates(c) # {} \/ AsioAdds(c) \/ MainAdds(c) \/ Alive(c)

(* The card is on its way out, with nothing behind that would bring it in. *)
Leaving(c) ==
  \/ \E i \in Deletes(c) : \A j \in Creates(c) : j < i
  \/ /\ thread["asio"].pc = "withdraw" /\ c \in DOMAIN removables
     /\ thread["asio"].id = removables[c].id
     /\ Creates(c) = {}

(* A card that was removed and whose removal was seen is on its way out.   *)
FollowedOut(c) ==
  c \notin mounted /\ <<"IN_DELETE", c>> \notin slips /\ Coming(c) => Leaving(c)

(* A storage is exposed under the name it is filed under, or will be next, *)
(* unless the name had one already.                                        *)
FiledAs(s) ==
  \/ s.name = HomeName
  \/ s.name \in DOMAIN removables /\ removables[s.name].id = s.id
  \/ <<"refused", s.id>> \in slips
  \/ /\ thread["asio"].pc = "insert" /\ thread["asio"].name = s.name
     /\ thread["asio"].id = s.id

(* The inductive invariant behind CardsWithdrawn, on top of DaemonIInv.    *)
Withdrawal ==
  /\ thread["main"].pc = "init" => DOMAIN removables = {}
  /\ \A i \in DOMAIN mStorages : FiledAs(mStorages[i])
  /\ \A c \in Cards : FollowedOut(c)

(* An event that comes in is the last one of its card.                     *)
LEMMA EventsAppend ==
  ASSUME queue \in Seq(InotifyEvent), NEW e \in InotifyEvent,
         queue' = Append(queue, e), NEW c
  PROVE  /\ Len(queue) \in Nat
         /\ Creates(c) \subseteq 1 .. Len(queue)
         /\ Creates(c)' = Creates(c) \cup
              IF e.mask = "IN_CREATE" /\ e.name = c THEN {Len(queue) + 1}
              ELSE {}
         /\ Deletes(c)' = Deletes(c) \cup
              IF e.mask = "IN_DELETE" /\ e.name = c THEN {Len(queue) + 1}
              ELSE {}
<1>1. /\ DOMAIN queue' = 1 .. Len(queue) + 1 /\ DOMAIN queue = 1 .. Len(queue)
      /\ \A i \in 1 .. Len(queue) : queue'[i] = queue[i]
      /\ queue'[Len(queue) + 1] = e
      /\ Len(queue) \in Nat
  BY AppendProperties
<1>2. \A k \in DOMAIN queue : k \in DOMAIN queue' /\ queue'[k] = queue[k]
  BY <1>1
<1>3. /\ Len(queue) + 1 \in DOMAIN queue'
      /\ \A k \in DOMAIN queue' : k \in DOMAIN queue \/ k = Len(queue) + 1
  BY <1>1
<1>4. Creates(c)' = Creates(c) \cup
        IF e.mask = "IN_CREATE" /\ e.name = c THEN {Len(queue) + 1} ELSE {}
  BY <1>1, <1>2, <1>3 DEF Creates
<1>5. Deletes(c)' = Deletes(c) \cup
        IF e.mask = "IN_DELETE" /\ e.name = c THEN {Len(queue) + 1} ELSE {}
  BY <1>1, <1>2, <1>3 DEF Deletes
<1>6. Creates(c) \subseteq 1 .. Len(queue)
  BY <1>1 DEF Creates
<1> QED
  BY <1>1, <1>4, <1>5, <1>6

(* Once the first event is read, the others are each one place nearer.     *)
LEMMA EventsTail ==
  ASSUME queue \in Seq(InotifyEvent), queue # <<>>, queue' = Tail(queue),
         NEW c
  PROVE  /\ Creates(c) \subseteq Nat \ {0} /\ Deletes(c) \subseteq Nat \ {0}
         /\ Creates(c)' \subseteq Nat \ {0}
         /\ \A i \in Nat \ {0} : i \in Creates(c)' <=> i + 1 \in Creates(c)
         /\ \A i \in Nat \ {0} : i \in Deletes(c)' <=> i + 1 \in Deletes(c)
         /\ 1 \in Creates(c) <=>
              Head(queue).mask = "IN_CREATE" /\ Head(queue).name = c
         /\ 1 \in Deletes(c) <=>
              Head(queue).mask = "IN_DELETE" /\ Head(queue).name = c
<1>1. /\ DOMAIN queue = 1 .. Len(queue) /\ Len(queue) \in Nat
      /\ Head(queue) = queue[1] /\ 1 \in DOMAIN queue
      /\ DOMAIN queue' = 1 .. Len(queue) - 1
      /\ \A i \in 1 .. Len(queue) - 1 : queue'[i] = queue[i + 1]
  <2>1. Len(Tail(queue)) = Len(queue) - 1 /\ Len(queue) \in Nat
    BY HeadTailProperties
  <2>2. Tail(queue) \in Seq(InotifyEvent)
    BY HeadTailProperties
  <2> QED
    BY <2>1, <2>2
<1>2. \A i \in Nat \ {0} :
        /\ i \in DOMAIN queue' <=> i + 1 \in DOMAIN queue
        /\ i \in DOMAIN queue' => queue'[i] = queue[i + 1]
  BY <1>1
<1>3. DOMAIN queue \subseteq Nat \ {0} /\ DOMAIN queue' \subseteq Nat \ {0}
  BY <1>1
<1>4. \A i \in Nat \ {0} : i \in Creates(c)' <=> i + 1 \in Creates(c)
  BY <1>2 DEF Creates
<1>5. \A i \in Nat \ {0} : i \in Deletes(c)' <=> i + 1 \in Deletes(c)
  BY <1>2 DEF Deletes
<1>6. /\ Creates(c) \subseteq Nat \ {0} /\ Deletes(c) \subseteq Nat \ {0}
      /\ Creates(c)' \subseteq Nat \ {0}
  BY <1>3 DEF Creates, Deletes
<1> QED
  BY <1>1, <1>4, <1>5, <1>6 DEF Creates, Deletes

(* What comes to be alive was just filed.                                  *)
LEMMA AliveStarts ==
  ASSUME DaemonIInv, [DaemonNext]_daemonVars, NEW c \in Cards, Alive(c)',
         ~Alive(c)
  PROVE  \E t \in Workers :
           InsertRemovable(t) /\ thread[t].pc = "insert" /\ thread[t].name = c
<1>1. c \notin DOMAIN removables /\ c \in DOMAIN removables'
  BY AliveEnds DEF Alive
<1>2. PICK t \in Workers : InsertRemovable(t)
  BY <1>1
     DEF DaemonNext, MainStep, AsioStep, AddRemovableStorage, daemonVars,
         NewStorage, StepCounter, AddStoragePath, AddStorage, InitStorage,
         WatchMountpoint, Unlock, ExposeHome, OfferRemovable, Run, Return,
         ReadEvent, RemoveFromServer, RemoveFromDatabase, Stop, System, Workers
<1>3. thread[t].pc = "insert" /\ thread[t].name = c
  BY <1>1, <1>2 DEF InsertRemovable, At, Insert
<1> QED
  BY <1>2, <1>3

(* The main thread moves on with the cards it has.                         *)
LEMMA MainFollows ==
  ASSUME DaemonIInv, [DaemonNext]_daemonVars, NEW c \in Cards, FollowedOut(c),
         UNCHANGED <<queue, mounted>>, thread'["asio"] = thread["asio"],
         Alive(c)' => Alive(c) \/ MainAdds(c),
         MainAdds(c)' => MainAdds(c) \/ c \in mounted
  PROVE  FollowedOut(c)'
<1>1. /\ Creates(c)' = Creates(c) /\ Deletes(c)' = Deletes(c)
      /\ AsioAdds(c)' = AsioAdds(c)
  BY DEF Creates, Deletes, AsioAdds
<1>2. /\ slips \subseteq slips'
      /\ c \in DOMAIN removables =>
           c \in DOMAIN removables' /\ removables'[c] = removables[c]
  BY FilingStays
<1>3. Leaving(c) => Leaving(c)'
  BY <1>1, <1>2 DEF Leaving
<1> QED
  BY <1>1, <1>2, <1>3 DEF FollowedOut, Coming

LEMMA MainStepFollows ==
  ASSUME DaemonIInv, [DaemonNext]_daemonVars, NEW c \in Cards, FollowedOut(c),
         MainStep \/ Return
  PROVE  FollowedOut(c)'
<1>0. /\ thread \in [Workers -> Thread] /\ thread["main"] \in Thread
      /\ Workers = {"main", "asio"} /\ thread["main"].pc \in MainAt
  BY DEF DaemonIInv, Types, Workers
<1>1. UNCHANGED <<queue, mounted>>
  BY DEF MainStep, Return, AddRemovableStorage, NewStorage, StepCounter,
         AddStoragePath, AddStorage, InsertRemovable, InitStorage,
         WatchMountpoint, Unlock, ExposeHome, OfferRemovable, Run, external
<1>2. thread'["asio"] = thread["asio"]
  BY <1>0
     DEF MainStep, Return, AddRemovableStorage, NewStorage, StepCounter,
         AddStoragePath, AddStorage, InsertRemovable, InitStorage,
         WatchMountpoint, Unlock, ExposeHome, OfferRemovable, Run, Goto
<1>3. Alive(c)' => Alive(c) \/ MainAdds(c)
  <2> SUFFICES ASSUME Alive(c)', ~Alive(c) PROVE MainAdds(c)
    OBVIOUS
  <2>1. PICK t \in Workers :
          InsertRemovable(t) /\ thread[t].pc = "insert" /\ thread[t].name = c
    BY AliveStarts
  <2>2. CASE t = "main"
    BY <2>1, <2>2 DEF MainAdds
  <2>3. CASE t = "asio"
    <3>1. thread["asio"].pc = "insert" /\ thread["asio"].after = "idle"
      BY <2>1, <2>3 DEF DaemonIInv, Places
    <3>2. thread["asio"] \in Thread /\ thread["asio"].todo = <<>>
      BY <1>0 DEF DaemonIInv, Places
    <3>3. thread'["asio"] = NextCard(thread["asio"])
      BY <1>0, <2>1, <2>3 DEF InsertRemovable
    <3>4. thread'["asio"].pc = "idle"
      BY <3>1, <3>2, <3>3 DEF NextCard, Thread
    <3> QED
      BY <1>2, <3>1, <3>4
  <2> QED
    BY <1>0, <2>2, <2>3
<1>4. CASE InitStorage
  <2>1. MainAdds(c)' => c \in mounted
    <3>1. CASE /\ ~mediaDir /\ Goto("main", "unlock")
      BY <1>0, <3>1 DEF Goto, MainAdds, Thread
    <3>2. ASSUME NEW v \in SetToSeqs(mounted),
                 thread' = [thread EXCEPT !["main"] =
                              NextCard([@ EXCEPT !.todo = v, !.after = "watch"])]
          PROVE  MainAdds(c)' => c \in mounted
      <4> DEFINE listed == [thread["main"] EXCEPT !.todo = v, !.after = "watch"]
      <4>1. v \in Seq(mounted)
        <5>1. Cardinality(mounted) \in Nat
          BY DaemonAssumption, FS_Subset, FS_CardinalityType
             DEF DaemonIInv, Types
        <5>2. v \in [1 .. Cardinality(mounted) -> mounted]
          BY DEF SetToSeqs
        <5> QED
          BY <5>1, <5>2
      <4>2. /\ thread'["main"] = NextCard(listed) /\ listed.todo = v
            /\ listed.after = "watch"
        BY <1>0, <3>2 DEF Thread
      <4>3. CASE v = <<>>
        <5>1. thread'["main"].pc = "watch"
          BY <1>0, <4>2, <4>3 DEF NextCard, Thread
        <5> QED
          BY <5>1 DEF MainAdds
      <4>4. CASE v # <<>>
        <5>1. /\ Head(v) \in mounted
              /\ \A i \in DOMAIN Tail(v) : Tail(v)[i] \in mounted
          BY <4>1, <4>4, HeadTailProperties
        <5>2. /\ thread'["main"].name = Head(v)
              /\ thread'["main"].todo = Tail(v)
          BY <1>0, <4>2, <4>4 DEF NextCard, Thread
        <5> QED
          BY <5>1, <5>2 DEF MainAdds
      <4> QED
        BY <4>3, <4>4
    <3> QED
      BY <1>4, <3>1, <3>2 DEF InitStorage
  <2> QED
    BY <1>1, <1>2, <1>3, <2>1, MainFollows
<1>5. CASE InsertRemovable("main")
  <2>1. /\ thread["main"].pc = "insert" /\ thread["main"].after = "watch"
        /\ thread'["main"] = NextCard(thread["main"])
    BY <1>0, <1>5 DEF InsertRemovable, At, DaemonIInv, Places
  <2>2. MainAdds(c)' => MainAdds(c)
    <3>1. CASE thread["main"].todo = <<>>
      <4>1. thread'["main"].pc = "watch"
        BY <1>0, <2>1, <3>1 DEF NextCard, Thread
      <4> QED
        BY <4>1 DEF MainAdds
    <3>2. CASE thread["main"].todo # <<>>
      <4> DEFINE todo == thread["main"].todo
      <4>1. /\ thread'["main"].pc = "new" /\ thread'["main"].name = Head(todo)
            /\ thread'["main"].todo = Tail(todo)
        BY <1>0, <2>1, <3>2 DEF NextCard, Thread
      <4>2. todo \in Seq(Cards) /\ todo # <<>>
        BY <1>0, <3>2 DEF Thread
      <4> HIDE DEF todo
      <4>3. /\ 1 \in DOMAIN todo /\ Head(todo) = todo[1]
            /\ \A i \in DOMAIN Tail(todo) :
                 i + 1 \in DOMAIN todo /\ Tail(todo)[i] = todo[i + 1]
        BY <4>2, HeadTailProperties
      <4>4. MainAdds(c)' => \E i \in DOMAIN todo : todo[i] = c
        BY <4>1, <4>3 DEF MainAdds
      <4> QED
        BY <2>1, <4>4 DEF MainAdds, todo
    <3> QED
      BY <3>1, <3>2
  <2> QED
    BY <1>1, <1>2, <1>3, <2>2, MainFollows
<1>6. CASE NewStorage("main") \/ StepCounter("main")
  <2>1. /\ thread["main"].pc \in {"new", "count"}
        /\ thread'["main"].name = thread["main"].name
        /\ thread'["main"].todo = thread["main"].todo
    BY <1>0, <1>6 DEF NewStorage, StepCounter, At, Goto, Thread
  <2>2. MainAdds(c)' => MainAdds(c)
    BY <2>1 DEF MainAdds
  <2> QED
    BY <1>1, <1>2, <1>3, <2>2, MainFollows
<1>7. CASE \/ AddStoragePath("main") \/ AddStorage("main") \/ WatchMountpoint
           \/ Unlock \/ ExposeHome \/ OfferRemovable \/ Run \/ Return
  <2>1. thread["main"].pc \notin {"init", "new", "count", "insert"}
    BY <1>0, <1>7
       DEF AddStoragePath, AddStorage, WatchMountpoint, Unlock, ExposeHome,
           OfferRemovable, Run, Return, At, MainAt, Locked, Listing
  <2>2. MainMoves
    BY MainMovesOn
  <2>3. thread["main"].pc \in Locked => thread["main"].pc \in {"watch", "unlock"}
    BY <2>1 DEF Locked, Listing
  <2>4. thread["main"].pc = "watch" => thread'["main"].pc = "unlock"
    BY <1>0, <1>7
       DEF AddStoragePath, AddStorage, WatchMountpoint, Unlock, ExposeHome,
           OfferRemovable, Run, Return, At, Goto, Thread
  <2>5. thread["main"].pc = "unlock" => thread'["main"].pc = "home"
    BY <1>0, <1>7
       DEF AddStoragePath, AddStorage, WatchMountpoint, Unlock, ExposeHome,
           OfferRemovable, Run, Return, At, Goto, Thread
  <2>6. thread'["main"].pc \notin {"new", "count", "insert"}
    BY <2>1, <2>2, <2>3, <2>4, <2>5 DEF MainMoves
  <2>7. ~MainAdds(c)'
    BY <2>6 DEF MainAdds
  <2> QED
    BY <1>1, <1>2, <1>3, <2>7, MainFollows
<1> QED
  BY <1>4, <1>5, <1>6, <1>7 DEF MainStep, AddRemovableStorage

(* The asio thread adds a card: it is still being added, or filed.         *)
LEMMA AsioAddFollows ==
  ASSUME DaemonIInv, [DaemonNext]_daemonVars, NEW c \in Cards, FollowedOut(c),
         AddRemovableStorage("asio")
  PROVE  FollowedOut(c)'
<1>0. /\ thread \in [Workers -> Thread] /\ thread["asio"] \in Thread
      /\ Workers = {"main", "asio"} /\ thread["asio"].pc \in AsioAt
  BY DEF DaemonIInv, Types, Workers
<1>1. UNCHANGED <<queue, mounted>>
  BY DEF AddRemovableStorage, NewStorage, StepCounter, AddStoragePath,
         AddStorage, InsertRemovable, external
<1>2. thread'["main"] = thread["main"]
  BY <1>0 DEF AddRemovableStorage, NewStorage, StepCounter, AddStoragePath,
              AddStorage, InsertRemovable, Goto
<1>3. thread["asio"].pc \in {"new", "count", "scan", "expose", "insert"}
  BY <1>0 DEF AddRemovableStorage, NewStorage, StepCounter, AddStoragePath,
              AddStorage, InsertRemovable, At, AsioAt
<1>4. AsioAdds(c)' => AsioAdds(c)
  <2>1. CASE InsertRemovable("asio")
    <3>1. thread["asio"].after = "idle" /\ thread["asio"].todo = <<>>
      BY DEF DaemonIInv, Places
    <3>2. thread'["asio"] = NextCard(thread["asio"])
      BY <1>0, <2>1 DEF InsertRemovable
    <3>3. thread'["asio"].pc = "idle"
      BY <1>0, <3>1, <3>2 DEF NextCard, Thread
    <3> QED
      BY <3>3 DEF AsioAdds
  <2>2. CASE \/ NewStorage("asio") \/ StepCounter("asio")
             \/ AddStoragePath("asio") \/ AddStorage("asio")
    <3>1. thread'["asio"].name = thread["asio"].name
      BY <1>0, <2>2 DEF NewStorage, StepCounter, AddStoragePath, AddStorage,
                        Goto, Thread
    <3> QED
      BY <1>3, <3>1 DEF AsioAdds
  <2> QED
    BY <2>1, <2>2 DEF AddRemovableStorage
<1>5. Alive(c)' => Alive(c) \/ AsioAdds(c) \/ MainAdds(c)
  <2> SUFFICES ASSUME Alive(c)', ~Alive(c) PROVE AsioAdds(c) \/ MainAdds(c)
    OBVIOUS
  <2>1. PICK t \in Workers : thread[t].pc = "insert" /\ thread[t].name = c
    BY AliveStarts
  <2> QED
    BY <1>0, <2>1 DEF AsioAdds, MainAdds
<1>6. /\ Creates(c)' = Creates(c) /\ Deletes(c)' = Deletes(c)
      /\ MainAdds(c)' = MainAdds(c)
  BY <1>1, <1>2 DEF Creates, Deletes, MainAdds
<1>7. Leaving(c) => Leaving(c)'
  BY <1>3, <1>6 DEF Leaving
<1>8. slips \subseteq slips'
  BY FilingStays
<1> QED
  BY <1>1, <1>4, <1>5, <1>6, <1>7, <1>8 DEF FollowedOut, Coming

(* A card's storage is taken out of the server, then out of the database.  *)
LEMMA RemoveFollows ==
  ASSUME DaemonIInv, [DaemonNext]_daemonVars, NEW c \in Cards, FollowedOut(c),
         RemoveFromServer \/ RemoveFromDatabase
  PROVE  FollowedOut(c)'
<1>0. /\ thread \in [Workers -> Thread] /\ thread["asio"] \in Thread
      /\ Workers = {"main", "asio"}
      /\ mStorages \in Seq(Storage) /\ Distinct(mStorages)
  BY DEF DaemonIInv, Types, Workers, StorageIdsUnique, Distinct
<1>1. UNCHANGED <<queue, mounted, removables>>
  BY DEF RemoveFromServer, RemoveFromDatabase, external
<1>2. /\ thread'["main"] = thread["main"]
      /\ thread["asio"].pc \in {"withdraw", "forget"}
      /\ thread["asio"].pc = "withdraw" => RemoveFromServer
      /\ thread'["asio"].pc \in {"forget", "idle"}
  BY <1>0 DEF RemoveFromServer, RemoveFromDatabase, At, Goto, Thread
<1>3. /\ Creates(c)' = Creates(c) /\ Deletes(c)' = Deletes(c)
      /\ MainAdds(c)' = MainAdds(c) /\ ~AsioAdds(c) /\ ~AsioAdds(c)'
  BY <1>1, <1>2 DEF Creates, Deletes, AsioAdds, MainAdds
<1>4. Alive(c)' => Alive(c)
  BY <1>1, AliveEnds DEF Alive
<1>5. ASSUME Leaving(c), Coming(c)' PROVE Leaving(c)'
  <2>1. CASE \E i \in Deletes(c) : \A j \in Creates(c) : j < i
    BY <1>3, <2>1 DEF Leaving
  <2>2. CASE /\ thread["asio"].pc = "withdraw" /\ c \in DOMAIN removables
             /\ thread["asio"].id = removables[c].id /\ Creates(c) = {}
    <3> DEFINE x == thread["asio"].id
    <3>1. thread["main"].pc \notin Listing
      BY <2>2 DEF DaemonIInv, Places
    <3>2. ~MainAdds(c)
      BY <3>1 DEF MainAdds, Listing
    <3>3. Alive(c)'
      BY <1>3, <1>5, <2>2, <3>2 DEF Coming
    <3>4. /\ x \notin Ids(mStorages) => <<"overtaken", x>> \in slips'
          /\ mStorages' = Without(mStorages, x)
      BY <1>2, <2>2 DEF RemoveFromServer
    <3>5. x \notin Ids(mStorages)'
      <4>1. Ids(mStorages') = Ids(mStorages) \ {x}
        BY <1>0, <3>4, IdsWithout
      <4> QED
        BY <4>1 DEF Ids
    <3>6. x \in Ids(mStorages) => ~ToOffer(c)
      BY <2>2 DEF DaemonIInv, Identifiers
    <3>7. ToOffer(c)' => ToOffer(c)
      BY <2>2, OfferEnds
    <3> QED
      BY <1>1, <2>2, <3>3, <3>4, <3>5, <3>6, <3>7 DEF Alive, Overtaken
  <2> QED
    BY <1>5, <2>1, <2>2 DEF Leaving
<1>6. slips \subseteq slips'
  BY FilingStays
<1> QED
  BY <1>1, <1>3, <1>4, <1>5, <1>6 DEF FollowedOut, Coming

(* The first event is read: the card it names is added next, or withdrawn, *)
(* or the event was for the mount point.                                   *)
LEMMA ReadEventFollows ==
  ASSUME DaemonIInv, [DaemonNext]_daemonVars, NEW c \in Cards, FollowedOut(c),
         ReadEvent
  PROVE  FollowedOut(c)'
<1> DEFINE e == Head(queue)
<1>1. /\ UNCHANGED <<mounted, slips, removables, mStorages>>
      /\ thread["asio"].pc = "idle"
      /\ queue # <<>> /\ queue' = Tail(queue)
  BY DEF ReadEvent, At, external, history, server
<1>2. queue \in Seq(InotifyEvent)
  BY DEF DaemonIInv, Types
<1>3. /\ Creates(c) \subseteq Nat \ {0} /\ Deletes(c) \subseteq Nat \ {0}
      /\ Creates(c)' \subseteq Nat \ {0}
      /\ \A i \in Nat \ {0} : i \in Creates(c)' <=> i + 1 \in Creates(c)
      /\ \A i \in Nat \ {0} : i \in Deletes(c)' <=> i + 1 \in Deletes(c)
      /\ 1 \in Creates(c) <=> e.mask = "IN_CREATE" /\ e.name = c
      /\ 1 \in Deletes(c) <=> e.mask = "IN_DELETE" /\ e.name = c
  BY <1>1, <1>2, EventsTail
<1>4. /\ thread'["main"] = thread["main"]
      /\ \/ thread'["asio"].pc = "idle"
         \/ /\ thread'["asio"].pc = "new" /\ e.mask = "IN_CREATE"
            /\ thread'["asio"].name = e.name
         \/ thread'["asio"].pc = "withdraw"
      /\ e.mask = "IN_DELETE" /\ e.name \in DOMAIN removables =>
           /\ thread'["asio"].pc = "withdraw"
           /\ thread'["asio"].id = removables[e.name].id
  <2>1. thread["asio"] \in Thread /\ thread \in [Workers -> Thread]
    BY DEF DaemonIInv, Types, Workers
  <2> HIDE DEF e
  <2>2. CASE e.mask = "IN_CREATE" /\ UNCHANGED thread
    BY <1>1, <2>1, <2>2
  <2>3. CASE /\ e.mask = "IN_CREATE"
             /\ thread' = [thread EXCEPT !["asio"].pc = "new",
                                         !["asio"].name = e.name]
    BY <2>1, <2>3 DEF Thread, Workers
  <2>4. CASE /\ e.name \in DOMAIN removables
             /\ thread' = [thread EXCEPT !["asio"].pc = "withdraw",
                             !["asio"].id = removables[e.name].id]
    BY <2>1, <2>4 DEF Thread, Workers
  <2>5. CASE e.name \notin DOMAIN removables /\ UNCHANGED thread
    BY <1>1, <2>1, <2>5
  <2> QED
    BY <2>2, <2>3, <2>4, <2>5 DEF ReadEvent, e
<1> HIDE DEF e
<1>5. /\ AsioAdds(c)' => 1 \in Creates(c)
      /\ ~AsioAdds(c) /\ ~MainAdds(c) /\ ~MainAdds(c)'
  <2>1. thread["main"].pc \notin Listing
    BY <1>1 DEF DaemonIInv, Places
  <2> QED
    BY <1>1, <1>3, <1>4, <2>1 DEF AsioAdds, MainAdds, Listing
<1>6. /\ Creates(c)' # {} => Creates(c) # {}
      /\ Alive(c)' => Alive(c)
  BY <1>1, <1>3, AliveEnds DEF Alive
<1>7. Coming(c)' => Coming(c)
  BY <1>5, <1>6 DEF Coming
<1>8. ASSUME Coming(c)', Leaving(c) PROVE Leaving(c)'
  <2>1. PICK i \in Deletes(c) : \A j \in Creates(c) : j < i
    BY <1>1, <1>8 DEF Leaving
  <2>2. CASE i = 1
    <3>1. Creates(c) = {}
      BY <1>3, <2>1, <2>2
    <3>2. Creates(c)' = {} /\ Alive(c)
      <4>1. Creates(c)' = {}
        BY <1>6, <3>1
      <4>2. ~AsioAdds(c)'
        BY <1>5, <3>1
      <4>3. Alive(c)'
        BY <1>5, <1>8, <4>1, <4>2 DEF Coming
      <4> QED
        BY <1>6, <4>1, <4>3
    <3>3. c \in DOMAIN removables
      BY <3>2 DEF Alive
    <3>4. /\ thread'["asio"].pc = "withdraw"
          /\ thread'["asio"].id = removables[c].id
      BY <1>3, <1>4, <2>1, <2>2, <3>3
    <3> QED
      BY <1>1, <3>2, <3>3, <3>4 DEF Leaving
  <2>3. CASE i # 1
    <3>1. /\ i - 1 \in Nat \ {0} /\ (i - 1) + 1 = i /\ i \in Nat
      BY <1>3, <2>1, <2>3
    <3>2. i - 1 \in Deletes(c)'
      BY <1>3, <2>1, <3>1
    <3>3. ASSUME NEW j \in Creates(c)' PROVE j < i - 1
      <4>1. j \in Nat /\ j + 1 \in Creates(c)
        BY <1>3, <3>3
      <4>2. j + 1 < i
        BY <2>1, <4>1
      <4> QED
        BY <3>1, <4>1, <4>2
    <3> QED
      BY <3>2, <3>3 DEF Leaving
  <2> QED
    BY <2>2, <2>3
<1> QED
  BY <1>1, <1>7, <1>8 DEF FollowedOut

(* A card goes, and the event that says so comes behind all others; what   *)
(* happens to another card changes nothing.                                *)
LEMMA SystemFollows ==
  ASSUME DaemonIInv, [DaemonNext]_daemonVars, NEW c \in Cards, FollowedOut(c),
         thread["main"].pc = "init" => DOMAIN removables = {},
         System
  PROVE  FollowedOut(c)'
<1>1. /\ UNCHANGED <<removables, mStorages, thread, watch_fd>>
      /\ CreateMediaDir \/ \E d \in Cards : Mount(d) \/ Unmount(d)
  BY DEF System, watches, server
<1>2. /\ queue \in Seq(InotifyEvent) /\ watch_fd \in Nat /\ mediaWatch \in Nat
      /\ \A d \in Cards : d # HomeName /\ d \in CardOrHome
      /\ HomeName \in CardOrHome
  BY DaemonAssumption DEF DaemonIInv, Types, HomeName, CardOrHome
<1>3. /\ AsioAdds(c)' = AsioAdds(c) /\ MainAdds(c)' = MainAdds(c)
      /\ slips \subseteq slips'
      /\ Alive(c)' => Alive(c)
  BY <1>1, FilingStays, AliveEnds DEF AsioAdds, MainAdds, Alive
<1>4. ASSUME NEW wd \in Nat, NEW mask \in {"IN_CREATE", "IN_DELETE"},
             NEW name \in CardOrHome, Event(wd, mask, name)
      PROVE  /\ name # c => Creates(c)' = Creates(c) /\ Deletes(c)' = Deletes(c)
             /\ (wd # 0 /\ mask = "IN_DELETE" /\ name = c) =>
                  \E i \in Deletes(c)' : \A j \in Creates(c)' : j < i
             /\ wd = 0 => queue' = queue
  <2>1. CASE wd = 0
    BY <1>4, <2>1 DEF Event, Creates, Deletes
  <2>2. CASE wd # 0
    <3> DEFINE e == [wd |-> wd, mask |-> mask, name |-> name]
               n == Len(queue)
    <3>1. e \in InotifyEvent /\ e.mask = mask /\ e.name = name
      BY DEF InotifyEvent
    <3>2. queue' = Append(queue, e)
      BY <1>4, <2>2 DEF Event
    <3> HIDE DEF e
    <3>3. /\ n \in Nat /\ Creates(c) \subseteq 1 .. n
          /\ Creates(c)' = Creates(c) \cup
               IF e.mask = "IN_CREATE" /\ e.name = c THEN {n + 1} ELSE {}
          /\ Deletes(c)' = Deletes(c) \cup
               IF e.mask = "IN_DELETE" /\ e.name = c THEN {n + 1} ELSE {}
      BY <1>2, <3>1, <3>2, EventsAppend
    <3> HIDE DEF n
    <3>4. name # c => Creates(c)' = Creates(c) /\ Deletes(c)' = Deletes(c)
      BY <3>1, <3>3
    <3>5. ASSUME mask = "IN_DELETE", name = c
          PROVE  \E i \in Deletes(c)' : \A j \in Creates(c)' : j < i
      <4>1. Creates(c)' = Creates(c) /\ n + 1 \in Deletes(c)'
        BY <3>1, <3>3, <3>5
      <4>2. \A j \in Creates(c)' : j < n + 1
        BY <3>3, <4>1
      <4> QED
        BY <4>1, <4>2
    <3> QED
      BY <2>2, <3>4, <3>5
  <2> QED
    BY <2>1, <2>2
<1>5. ASSUME Creates(c)' = Creates(c), Deletes(c)' = Deletes(c),
             c \in mounted \ mounted' => FALSE
      PROVE  FollowedOut(c)'
  <2>1. Leaving(c) => Leaving(c)'
    BY <1>1, <1>5 DEF Leaving
  <2> QED
    BY <1>3, <1>5, <2>1 DEF FollowedOut, Coming
<1>6. CASE CreateMediaDir
  <2>1. Event(mediaWatch, "IN_CREATE", HomeName) /\ mounted' = mounted
    BY <1>6 DEF CreateMediaDir
  <2>2. Creates(c)' = Creates(c) /\ Deletes(c)' = Deletes(c)
    BY <1>2, <1>4, <2>1
  <2> QED
    BY <1>5, <2>1, <2>2
<1>7. ASSUME NEW d \in Cards, Mount(d) PROVE FollowedOut(c)'
  <2>1. Event(watch_fd, "IN_CREATE", d) /\ mounted' = mounted \cup {d}
    BY <1>7 DEF Mount
  <2>2. CASE d = c
    BY <2>1, <2>2 DEF FollowedOut
  <2>3. CASE d # c
    <3>1. Creates(c)' = Creates(c) /\ Deletes(c)' = Deletes(c)
      BY <1>2, <1>4, <2>1, <2>3
    <3> QED
      BY <1>5, <2>1, <3>1
  <2> QED
    BY <2>2, <2>3
<1>8. ASSUME NEW d \in Cards, Unmount(d) PROVE FollowedOut(c)'
  <2>1. /\ Event(watch_fd, "IN_DELETE", d) /\ mounted' = mounted \ {d}
        /\ slips' = slips \cup Unwatched("IN_DELETE", d)
    BY <1>8 DEF Unmount
  <2>2. CASE d = c /\ watch_fd # 0
    <3>1. \E i \in Deletes(c)' : \A j \in Creates(c)' : j < i
      BY <1>2, <1>4, <2>1, <2>2
    <3> QED
      BY <3>1 DEF FollowedOut, Leaving
  <2>3. CASE d = c /\ watch_fd = 0 /\ ~At("main", "init")
    BY <2>1, <2>3 DEF Unwatched, FollowedOut
  <2>4. CASE d = c /\ watch_fd = 0 /\ At("main", "init")
    <3>1. queue' = queue
      BY <1>2, <1>4, <2>1, <2>4
    <3>2. queue = <<>> /\ thread["asio"].pc = "idle" /\ DOMAIN removables = {}
      BY <2>4 DEF At, DaemonIInv, Places, Listing
    <3>3. ~Coming(c)'
      BY <1>1, <2>4, <3>1, <3>2
         DEF Coming, Creates, AsioAdds, MainAdds, Alive, At
    <3> QED
      BY <3>3 DEF FollowedOut
  <2>5. CASE d # c
    <3>1. Creates(c)' = Creates(c) /\ Deletes(c)' = Deletes(c)
      BY <1>2, <1>4, <2>1, <2>5
    <3> QED
      BY <1>5, <2>1, <2>5, <3>1
  <2> QED
    BY <2>2, <2>3, <2>4, <2>5
<1> QED
  BY <1>1, <1>6, <1>7, <1>8

(* What is exposed keeps its file, whichever thread exposed it.            *)
LEMMA FiledAsStays ==
  ASSUME DaemonIInv, [DaemonNext]_daemonVars, NEW s, FiledAs(s)
  PROVE  FiledAs(s)'
<1>1. /\ slips \subseteq slips'
      /\ \A c \in DOMAIN removables :
           c \in DOMAIN removables' /\ removables'[c] = removables[c]
  BY FilingStays
<1>2. CASE s.name = HomeName
  BY <1>2 DEF FiledAs
<1>3. CASE s.name \in DOMAIN removables /\ removables[s.name].id = s.id
  BY <1>1, <1>3 DEF FiledAs
<1>4. CASE <<"refused", s.id>> \in slips
  BY <1>1, <1>4 DEF FiledAs
<1>5. CASE /\ thread["asio"].pc = "insert" /\ thread["asio"].name = s.name
           /\ thread["asio"].id = s.id
  <2>1. /\ thread["main"].pc \notin Listing
        /\ thread \in [Workers -> Thread] /\ Workers = {"main", "asio"}
    BY <1>5 DEF DaemonIInv, Places, Types, Workers
  <2>2. CASE InsertRemovable("asio")
    <3>1. /\ s.name \in DOMAIN removables' /\ removables'[s.name].id = s.id
          \/ <<"refused", s.id>> \in slips'
      BY <1>5, <2>2 DEF InsertRemovable, Insert, Slipped
    <3> QED
      BY <3>1 DEF FiledAs
  <2>3. CASE ~InsertRemovable("asio")
    <3>1. thread'["asio"] = thread["asio"]
      BY <1>5, <2>1, <2>3
         DEF DaemonNext, MainStep, AsioStep, AddRemovableStorage, daemonVars,
             NewStorage, StepCounter, AddStoragePath, AddStorage,
             InsertRemovable, InitStorage, WatchMountpoint, Unlock, ExposeHome,
             OfferRemovable, Run, Return, ReadEvent, RemoveFromServer,
             RemoveFromDatabase, Stop, System, At, Goto
    <3> QED
      BY <1>5, <3>1 DEF FiledAs
  <2> QED
    BY <2>2, <2>3
<1> QED
  BY <1>2, <1>3, <1>4, <1>5 DEF FiledAs

LEMMA ExposedFiled ==
  ASSUME DaemonIInv, [DaemonNext]_daemonVars,
         \A i \in DOMAIN mStorages : FiledAs(mStorages[i]),
         NEW i \in DOMAIN mStorages', NEW s, s = mStorages'[i]
  PROVE  FiledAs(s)'
<1>0. /\ thread \in [Workers -> Thread] /\ Workers = {"main", "asio"}
      /\ thread["main"].pc \in MainAt /\ thread["asio"].pc \in AsioAt
      /\ mStorages \in Seq(Storage) /\ Distinct(mStorages)
  BY DEF DaemonIInv, Types, Workers, StorageIdsUnique, Distinct
<1>1. SUFFICES ASSUME ~ \E k \in DOMAIN mStorages : s = mStorages[k]
               PROVE  FiledAs(s)'
  <2>1. ASSUME NEW k \in DOMAIN mStorages, s = mStorages[k] PROVE FiledAs(s)'
    <3>1. FiledAs(s)
      BY <2>1 DEF FiledAs
    <3> QED
      BY <3>1, FiledAsStays
  <2> QED
    BY <2>1
<1>2. ASSUME NEW t \in Workers, AddStorage(t)
      PROVE  s.id = thread[t].id /\ s.name = thread[t].name
  <2> DEFINE new == [id |-> thread[t].id, name |-> thread[t].name]
  <2>1. mStorages' = Append(mStorages, new)
    BY <1>2 DEF AddStorage
  <2>2. new \in Storage /\ new.id = thread[t].id /\ new.name = thread[t].name
    BY <1>0 DEF Thread, Storage
  <2> HIDE DEF new
  <2>3. s = new
    BY <1>0, <1>1, <2>1, <2>2, AppendProperties
  <2> QED
    BY <2>2, <2>3
<1>3. CASE AddStorage("main")
  <2>1. thread["main"].pc = "offer_expose"
    BY <1>0, <1>3 DEF AddStorage, MainAt, Locked, Listing
  <2>2. /\ thread["main"].name \in DOMAIN removables
        /\ thread["main"].id = removables[thread["main"].name].id
    BY <2>1 DEF DaemonIInv, Identifiers
  <2>3. removables' = removables
    BY <1>3 DEF AddStorage
  <2> QED
    BY <1>0, <1>2, <1>3, <2>2, <2>3 DEF FiledAs
<1>4. CASE AddStorage("asio")
  <2>1. thread["asio"].pc = "expose"
    BY <1>0, <1>4 DEF AddStorage, AsioAt
  <2>2. /\ thread'["asio"].pc = "insert"
        /\ thread'["asio"].name = thread["asio"].name
        /\ thread'["asio"].id = thread["asio"].id
    BY <1>0, <1>4, <2>1 DEF AddStorage, At, Goto, Thread
  <2> QED
    BY <1>0, <1>2, <1>4, <2>2 DEF FiledAs
<1>5. CASE ExposeHome
  <2> DEFINE new == [id |-> MTP_STORAGE_FIXED_RAM, name |-> HomeName]
  <2>1. mStorages' = Append(mStorages, new)
    BY <1>5 DEF ExposeHome
  <2>2. new \in Storage /\ new.name = HomeName
    BY DEF Storage, CardOrHome, MTP_STORAGE_FIXED_RAM
  <2> HIDE DEF new
  <2>3. s = new
    BY <1>0, <1>1, <2>1, <2>2, AppendProperties
  <2> QED
    BY <2>2, <2>3 DEF FiledAs
<1>6. CASE RemoveFromServer
  <2>1. \E k \in DOMAIN mStorages : s = mStorages[k]
    BY <1>0, <1>6, IdsWithout DEF RemoveFromServer
  <2> QED
    BY <1>1, <2>1
<1>7. CASE mStorages' = mStorages
  BY <1>1, <1>7
<1> QED
  BY <1>3, <1>4, <1>5, <1>6, <1>7
     DEF DaemonNext, MainStep, AsioStep, AddRemovableStorage, daemonVars,
         server, NewStorage, StepCounter, AddStoragePath, InsertRemovable,
         InitStorage, WatchMountpoint, Unlock, OfferRemovable, Run, Return,
         ReadEvent, RemoveFromDatabase, Stop, System

LEMMA WithdrawalInit == DaemonInit => Withdrawal
<1> SUFFICES ASSUME DaemonInit PROVE Withdrawal
  OBVIOUS
<1>1. thread["main"].pc = "init" /\ thread["asio"].pc = "idle"
  BY DEF DaemonInit, Workers
<1>2. queue = <<>> /\ mStorages = <<>> /\ DOMAIN removables = {}
  BY DEF DaemonInit, EmptyMap
<1>3. \A c \in Cards : ~Coming(c)
  BY <1>1, <1>2 DEF Coming, Creates, AsioAdds, MainAdds, Alive
<1> QED
  BY <1>1, <1>2, <1>3 DEF Withdrawal, FollowedOut

LEMMA WithdrawalNext ==
  DaemonIInv /\ Withdrawal /\ [DaemonNext]_daemonVars => Withdrawal'
<1> SUFFICES ASSUME DaemonIInv, Withdrawal, [DaemonNext]_daemonVars
             PROVE  Withdrawal'
  OBVIOUS
<1>1. thread'["main"].pc = "init" => DOMAIN removables' = {}
  <2> SUFFICES ASSUME thread'["main"].pc = "init" PROVE DOMAIN removables' = {}
    OBVIOUS
  <2>1. MainMoves
    BY MainMovesOn
  <2>2. thread["main"].pc = "init"
    BY <2>1 DEF MainMoves, Locked, Listing
  <2>3. thread["asio"].pc = "idle"
    BY <2>2 DEF DaemonIInv, Places, Listing
  <2>4. ASSUME NEW t \in Workers, InsertRemovable(t) PROVE FALSE
    BY <2>2, <2>3, <2>4 DEF InsertRemovable, At, Workers
  <2>5. removables' = removables
    BY <2>4
       DEF DaemonNext, MainStep, AsioStep, AddRemovableStorage, daemonVars,
           NewStorage, StepCounter, AddStoragePath, AddStorage, InitStorage,
           WatchMountpoint, Unlock, ExposeHome, OfferRemovable, Run, Return,
           ReadEvent, RemoveFromServer, RemoveFromDatabase, Stop, System,
           Workers
  <2> QED
    BY <2>2, <2>5 DEF Withdrawal
<1>2. ASSUME NEW i \in DOMAIN mStorages' PROVE FiledAs(mStorages[i])'
  <2>1. PICK s : s = mStorages'[i]
    OBVIOUS
  <2>2. FiledAs(s)'
    BY <2>1, ExposedFiled DEF Withdrawal
  <2> QED
    BY <2>1, <2>2 DEF FiledAs
<1>3. ASSUME NEW c \in Cards PROVE FollowedOut(c)'
  <2>1. FollowedOut(c)
    BY DEF Withdrawal
  <2>2. CASE MainStep \/ Return
    BY <2>1, <2>2, MainStepFollows
  <2>3. CASE AsioStep
    BY <2>1, <2>3, AsioAddFollows, ReadEventFollows, RemoveFollows DEF AsioStep
  <2>4. CASE System
    BY <2>1, <2>4, SystemFollows DEF Withdrawal
  <2>5. CASE Stop \/ UNCHANGED daemonVars
    <3>1. UNCHANGED <<mounted, queue, removables, thread, mStorages, slips>>
      BY <2>5 DEF Stop, daemonVars, external, server, history
    <3>2. Alive(c)' => Alive(c)
      BY <3>1, AliveEnds DEF Alive
    <3>3. MainAdds(c)' => MainAdds(c)
      BY <3>1 DEF MainAdds
    <3> QED
      BY <2>1, <3>1, <3>2, <3>3, MainFollows
  <2> QED
    BY <2>2, <2>3, <2>4, <2>5 DEF DaemonNext
<1> QED
  BY <1>1, <1>2, <1>3 DEF Withdrawal

THEOREM WithdrawalHolds == DaemonSpec => []Withdrawal
<1> QED
  BY DaemonIInvHolds, WithdrawalInit, WithdrawalNext, PTL DEF DaemonSpec

(* Once the events are handled no card that was removed is still exposed,  *)
(* start-up included, but for the storage the main thread exposed after it *)
(* was withdrawn, the card whose removal nobody was told of and the second *)
(* storage of one card.                                                    *)
THEOREM CardsWithdrawnHolds == DaemonSpec => []CardsWithdrawn
<1>1. DaemonIInv /\ Withdrawal => CardsWithdrawn
  <2> DEFINE s(i) == mStorages[i]
  <2> SUFFICES ASSUME DaemonIInv, Withdrawal, DaemonSettled,
                      NEW i \in DOMAIN mStorages,
                      s(i).name \notin mounted, s(i).name # HomeName,
                      <<"IN_DELETE", s(i).name>> \notin slips,
                      <<"overtaken", s(i).id>> \notin slips,
                      <<"refused", s(i).id>> \notin slips
               PROVE  FALSE
    <3>1. ASSUME NEW k \in DOMAIN mStorages
          PROVE  \/ s(k).name \in mounted \cup {HomeName}
                 \/ <<"IN_DELETE", s(k).name>> \in slips
                 \/ <<"overtaken", s(k).id>> \in slips
                 \/ <<"refused", s(k).id>> \in slips
                 => \/ s(k).name \in mounted \cup {HomeName}
                    \/ \E kind \in {"IN_DELETE", "overtaken", "refused"} :
                         <<kind, IF kind = "IN_DELETE" THEN s(k).name
                                 ELSE s(k).id>> \in slips
      OBVIOUS
    <3> QED
      BY <3>1 DEF CardsWithdrawn, WithdrawnUnless
  <2> DEFINE c == s(i).name
  <2>1. queue = <<>> /\ thread["asio"].pc = "idle"
    BY DEF DaemonSettled, At
  <2>2. c \in DOMAIN removables /\ removables[c].id = s(i).id
    BY <2>1 DEF Withdrawal, FiledAs
  <2>3. c \in Cards /\ s(i).id \in Ids(mStorages)
    BY <2>2 DEF DaemonIInv, Types, Ids
  <2>4. Coming(c)
    BY <2>2, <2>3 DEF Coming, Alive, Overtaken
  <2>5. Leaving(c)
    BY <2>3, <2>4 DEF Withdrawal, FollowedOut
  <2> QED
    BY <2>1, <2>5 DEF Leaving, Deletes
<1> QED
  BY <1>1, DaemonIInvHolds, WithdrawalHolds, PTL
=============================================================================
