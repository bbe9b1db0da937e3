---------------------------- MODULE UsbHostProofs ---------------------------
(* Proofs about UsbHost: for any busses, devices, slots and notifications. *)
EXTENDS UsbHost, TLAPS, FiniteSetTheorems, SequenceTheorems

Masks == {"IN_CREATE", "IN_DELETE", "IN_IGNORED"}

Events == [wd : Nat, mask : Masks,
           name : {0, "bus", "usb"} \cup Busses \cup Devices]

Live(p) == p \in DOMAIN watch

(* What slot i watches.                                                    *)
Dir(i) == IF i = 0 THEN UsbFs ELSE BusDir(i)

BusSlots == Slots \ {0}

Typed ==
  /\ tree \subseteq Paths /\ \A p \in tree : Parent(p) \in tree \cup {Dev}
  /\ lastWd \in Nat /\ changes \in 0 .. MaxChanges
  /\ queue \in Seq(Events)
  /\ \A j \in 1 .. Len(queue) : queue[j].wd \in 1 .. lastWd
  /\ pc \in {"start", "watch", "opendir", "busses", "nodes", "read",
             "returned"}
  /\ slot \in Slots
  /\ busNames \subseteq Nat \ {0} /\ nodeNames \subseteq Nodes
  /\ done \in BOOLEAN /\ discovered \in BOOLEAN /\ missed \in BOOLEAN
  /\ known \subseteq Nodes /\ unseen \subseteq Nodes
  /\ pc # "nodes" => nodeNames = {}
  /\ pc = "read" => ~done

(* What is watched exists, and its descriptor is the one in its slot; a    *)
(* slot may still hold one that is dead, but never another directory's.    *)
Watching ==
  /\ IsFiniteSet(DOMAIN watch)
  /\ \A p \in DOMAIN watch :
       /\ p = Dev \/ (p \in tree /\ \E i \in Slots : p = Dir(i))
       /\ watch[p] \in 1 .. lastWd
  /\ wds \in [Slots -> {NoWatch} \cup 1 .. lastWd]
  /\ \A i \in Slots :
       /\ Live(Dir(i)) => watch[Dir(i)] = wds[i]
       /\ wds[i] # wdd
       /\ wds[i] # NoWatch => i \in Busses \cup {0}
       /\ \A j \in Slots : wds[i] = wds[j] => i = j \/ wds[i] = NoWatch
  /\ Live(Dev) => watch[Dev] = wdd
  /\ pc \notin {"start", "returned"} => Live(Dev)
  /\ ~Live(Dev) => DOMAIN watch = {} /\ lastWd = 0

(* Nothing was thrown away, and nothing queued will be.                    *)
Clean ==
  /\ ~missed
  /\ \A j \in 1 .. Len(queue) : queue[j].wd \in {wdd} \cup Range(wds)

(* The notification at j is about the name in the directory of that        *)
(* descriptor.                                                             *)
About(j, wd, name) ==
  /\ j \in 1 .. Len(queue)
  /\ queue[j].wd = wd /\ queue[j].name = name /\ queue[j].mask # "IN_IGNORED"

(* What comes under a bus's descriptor names a device.                     *)
Named ==
  \A i \in BusSlots : wds[i] # NoWatch =>
    \A j \in 1 .. Len(queue) :
      queue[j].wd = wds[i] /\ queue[j].mask # "IN_IGNORED"
        => queue[j].name \in Devices

(* Of a device's notifications the last one tells what has become of it.   *)
Told ==
  Clean => \A i \in BusSlots, d \in Devices : wds[i] # NoWatch =>
    \A j \in 1 .. Len(queue) :
      /\ About(j, wds[i], d)
      /\ \A k \in 1 .. Len(queue) : About(k, wds[i], d) => k <= j
      => (queue[j].mask = "IN_CREATE"
            <=> Live(BusDir(i)) /\ Node(i, d) \in tree)

(* A notification announces the bus.                                       *)
Announced(i) ==
  \E j \in 1 .. Len(queue) :
    queue[j].wd = wds[0] /\ queue[j].name = i /\ queue[j].mask = "IN_CREATE"

(* Under a watched /dev/bus/usb every bus is watched or will be.           *)
Covered ==
  Clean /\ Live(UsbFs) => \A i \in BusSlots : BusDir(i) \in tree =>
    Live(BusDir(i)) \/ Announced(i) \/ (pc = "watch" /\ slot <= i)

(* The device will be listed, or the discovery ends.                       *)
ToList(i, d) ==
  \/ pc \in {"watch", "opendir", "returned"} \/ done
  \/ pc \in {"busses", "nodes"} /\ i \in busNames
  \/ Node(i, d) \in nodeNames
  \/ Announced(i)

Pending(i, d) == \E j \in 1 .. Len(queue) : About(j, wds[i], d)

(* A device that is there is known, or will be.                            *)
Reported ==
  Clean /\ Live(UsbFs) => \A i \in BusSlots, d \in Devices :
    Node(i, d) \in tree =>
      \/ Node(i, d) \in known \/ ToList(i, d)
      \/ Live(BusDir(i)) /\ Pending(i, d)

(* One that went while its bus was watched will be forgotten.              *)
Forgotten ==
  Clean => \A b \in Busses, d \in Devices :
    Node(b, d) \in (known \cup nodeNames) \ (tree \cup unseen) =>
      b \in Slots /\ wds[b] # NoWatch /\ Pending(b, d)

(* The inductive invariant.                                                *)
UsbHostIInv ==
  Typed /\ Watching /\ Named /\ Told /\ Covered /\ Reported /\ Forgotten

-----------------------------------------------------------------------------
(* Paths.                                                                  *)

LEMMA Lengths ==
  /\ Len(Dev) = 0 /\ Len(Bus) = 1 /\ Len(UsbFs) = 2
  /\ \A b : Len(BusDir(b)) = 3
  /\ \A b, d : Len(Node(b, d)) = 4
BY DEF Dev, Bus, UsbFs, BusDir, Node

LEMMA Apart ==
  /\ Dev # Bus /\ Dev # UsbFs /\ Bus # UsbFs
  /\ \A b : BusDir(b) \notin {Dev, Bus, UsbFs}
  /\ \A b, d : Node(b, d) \notin {Dev, Bus, UsbFs}
  /\ \A a, b, d : BusDir(a) # Node(b, d)
<1>1. Dev # Bus
  BY Lengths
<1>2. Dev # UsbFs
  BY Lengths
<1>3. Bus # UsbFs
  <2>1. Len(Bus) = 1 /\ Len(UsbFs) = 2
    BY Lengths
  <2> QED
    BY <2>1
<1>4. ASSUME NEW b PROVE BusDir(b) \notin {Dev, Bus, UsbFs}
  <2>1. /\ Len(BusDir(b)) = 3
        /\ Len(Dev) = 0 /\ Len(Bus) = 1 /\ Len(UsbFs) = 2
    BY Lengths
  <2> QED
    BY <2>1
<1>5. ASSUME NEW b, NEW d PROVE Node(b, d) \notin {Dev, Bus, UsbFs}
  <2>1. /\ Len(Node(b, d)) = 4
        /\ Len(Dev) = 0 /\ Len(Bus) = 1 /\ Len(UsbFs) = 2
    BY Lengths
  <2> QED
    BY <2>1
<1>6. ASSUME NEW a, NEW b, NEW d PROVE BusDir(a) # Node(b, d)
  BY Lengths
<1> QED
  BY <1>1, <1>4, <1>5, <1>6, <1>2, <1>3

LEMMA SameBus ==
  /\ \A a, b : BusDir(a) = BusDir(b) => a = b
  /\ \A a, b, c, d : Node(a, c) = Node(b, d) => a = b /\ c = d
<1>1. \A b : BusDir(b)[3] = b
  BY DEF BusDir
<1>2. \A b, d : Node(b, d)[3] = b /\ Node(b, d)[4] = d
  BY DEF Node
<1> QED
  BY <1>1, <1>2

LEMMA Names ==
  /\ \A b : Name(BusDir(b)) = b
  /\ \A b, d : Name(Node(b, d)) = d
BY Lengths DEF Name, Last, BusDir, Node

(* All but the last element.                                               *)
LEMMA FrontOf ==
  ASSUME NEW S, NEW s \in Seq(S), Len(s) > 0
  PROVE  /\ Front(s) \in Seq(S) /\ Len(Front(s)) = Len(s) - 1
         /\ \A i \in 1 .. Len(s) - 1 : Front(s)[i] = s[i]
<1>1. Len(s) \in Nat /\ \A i \in 1 .. Len(s) : s[i] \in S
  BY LenProperties, ElementOfSeq
<1> DEFINE n == Len(s) - 1
<1>2. 1 \in Int /\ n \in Int /\ n >= 0 /\ \A i \in 1 .. n : s[i] \in S
  BY <1>1
<1> HIDE DEF n
<1>3. /\ SubSeq(s, 1, n) \in Seq(S)
      /\ Len(SubSeq(s, 1, n)) = IF 1 <= n THEN n - 1 + 1 ELSE 0
      /\ \A i \in 1 .. n - 1 + 1 : SubSeq(s, 1, n)[i] = s[1 + i - 1]
  BY <1>2, SubSeqProperties
<1>4. Len(SubSeq(s, 1, n)) = n
  BY <1>2, <1>3
<1>5. ASSUME NEW i \in 1 .. n PROVE SubSeq(s, 1, n)[i] = s[i]
  <2>1. i \in 1 .. n - 1 + 1 /\ 1 + i - 1 = i
    BY <1>2
  <2> QED
    BY <1>3, <2>1
<1> QED
  BY <1>3, <1>4, <1>5 DEF Front, n
LEMMA Parents ==
  /\ Parent(Bus) = Dev /\ Parent(UsbFs) = Bus
  /\ \A b : Parent(BusDir(b)) = UsbFs
  /\ \A b, d : Parent(Node(b, d)) = BusDir(b)
<1>1. Parent(Bus) = Dev
  <2>1. Parent(Bus) = SubSeq(Bus, 1, 0)
    BY Lengths DEF Parent, Front
  <2> QED
    BY <2>1, SubSeqEmpty DEF Dev
<1>2. Parent(UsbFs) = Bus
  <2> DEFINE S == {"bus", "usb"}
  <2>1. /\ UsbFs \in Seq(S) /\ Bus \in Seq(S)
        /\ UsbFs[1] = "bus" /\ Bus[1] = "bus"
    BY DEF UsbFs, Bus
  <2> HIDE DEF S
  <2>2. /\ Parent(UsbFs) \in Seq(S) /\ Len(Parent(UsbFs)) = 1
        /\ Parent(UsbFs)[1] = UsbFs[1]
    BY <2>1, Lengths, FrontOf DEF Parent
  <2> QED
    BY <2>1, <2>2, Lengths, SeqEqual
<1>3. ASSUME NEW b PROVE Parent(BusDir(b)) = UsbFs
  <2> DEFINE S == {"bus", "usb", b}
  <2>1. /\ UsbFs \in Seq(S) /\ BusDir(b) \in Seq(S)
        /\ UsbFs[1] = BusDir(b)[1] /\ UsbFs[2] = BusDir(b)[2]
    BY DEF UsbFs, BusDir
  <2>2. Len(BusDir(b)) = 3
    BY Lengths
  <2> HIDE DEF S
  <2>3. Len(BusDir(b)) > 0
    BY <2>2
  <2>4. /\ Parent(BusDir(b)) \in Seq(S)
        /\ Len(Parent(BusDir(b))) = Len(BusDir(b)) - 1
        /\ \A i \in 1 .. Len(BusDir(b)) - 1 :
             Parent(BusDir(b))[i] = BusDir(b)[i]
    BY <2>1, <2>3, FrontOf DEF Parent
  <2>5. /\ Parent(BusDir(b)) \in Seq(S) /\ Len(Parent(BusDir(b))) = 2
        /\ \A i \in 1 .. 2 : Parent(BusDir(b))[i] = BusDir(b)[i]
    BY <2>2, <2>4
  <2>6. /\ Len(Parent(BusDir(b))) = Len(UsbFs)
        /\ \A i \in 1 .. Len(Parent(BusDir(b))) :
             Parent(BusDir(b))[i] = UsbFs[i]
    BY <2>1, <2>5, Lengths
  <2> QED
    BY <2>1, <2>5, <2>6, SeqEqual
<1>4. ASSUME NEW b, NEW d PROVE Parent(Node(b, d)) = BusDir(b)
  <2> DEFINE S == {"bus", "usb", b, d}
  <2>1. /\ BusDir(b) \in Seq(S) /\ Node(b, d) \in Seq(S)
        /\ \A i \in 1 .. 3 : BusDir(b)[i] = Node(b, d)[i]
    BY DEF Node, BusDir
  <2>2. Len(Node(b, d)) = 4
    BY Lengths
  <2> HIDE DEF S
  <2>3. Len(Node(b, d)) > 0
    BY <2>2
  <2>4. /\ Parent(Node(b, d)) \in Seq(S)
        /\ Len(Parent(Node(b, d))) = Len(Node(b, d)) - 1
        /\ \A i \in 1 .. Len(Node(b, d)) - 1 :
             Parent(Node(b, d))[i] = Node(b, d)[i]
    BY <2>1, <2>3, FrontOf DEF Parent
  <2>5. /\ Parent(Node(b, d)) \in Seq(S) /\ Len(Parent(Node(b, d))) = 3
        /\ \A i \in 1 .. 3 : Parent(Node(b, d))[i] = Node(b, d)[i]
    BY <2>2, <2>4
  <2>6. Len(BusDir(b)) = 3
    BY Lengths
  <2>7. /\ Len(Parent(Node(b, d))) = Len(BusDir(b))
        /\ \A i \in 1 .. Len(Parent(Node(b, d))) :
             Parent(Node(b, d))[i] = BusDir(b)[i]
    BY <2>1, <2>5, <2>6
  <2> QED
    BY <2>1, <2>5, <2>7, SeqEqual
<1> QED
  BY <1>1, <1>2, <1>3, <1>4

LEMMA PathCases ==
  ASSUME NEW p \in Paths
  PROVE  \/ p = Bus \/ p = UsbFs
         \/ \E b \in Busses : p = BusDir(b)
         \/ \E b \in Busses, d \in Devices : p = Node(b, d)
BY DEF Paths, BusDirs, Nodes

LEMMA ParentIs ==
  ASSUME NEW p \in Paths
  PROVE  /\ Parent(p) = Dev <=> p = Bus
         /\ Parent(p) = UsbFs <=> \E b \in Busses : p = BusDir(b)
         /\ \A i : Parent(p) = BusDir(i)
              <=> i \in Busses /\ \E d \in Devices : p = Node(i, d)
         /\ Parent(p) \in Paths \cup {Dev}
BY PathCases, Parents, Apart, SameBus DEF Paths, BusDirs, Nodes

LEMMA PathSeq ==
  ASSUME NEW p \in Paths
  PROVE  /\ p \in Seq({"bus", "usb"} \cup Busses \cup Devices)
         /\ Len(p) \in 1 .. 4
<1> DEFINE S == {"bus", "usb"} \cup Busses \cup Devices
<1>1. Bus \in Seq(S) /\ UsbFs \in Seq(S)
  BY DEF Bus, UsbFs
<1>2. ASSUME NEW b \in Busses PROVE BusDir(b) \in Seq(S)
  BY DEF BusDir
<1>3. ASSUME NEW b \in Busses, NEW d \in Devices PROVE Node(b, d) \in Seq(S)
  BY DEF Node
<1> HIDE DEF S
<1>4. p \in Seq(S)
  BY <1>1, <1>2, <1>3, PathCases
<1>5. Len(p) \in {1, 2, 3, 4}
  BY Lengths, PathCases
<1> QED
  BY <1>4, <1>5 DEF S

LEMMA ParentPrefix ==
  ASSUME NEW p \in Paths
  PROVE  IsPrefix(Parent(p), p) /\ Parent(p) # p
<1> DEFINE S == {"bus", "usb"} \cup Busses \cup Devices
<1>1. p \in Seq(S) /\ Len(p) \in 1 .. 4
  BY PathSeq
<1> HIDE DEF S
<1>2. /\ Parent(p) \in Seq(S) /\ Len(Parent(p)) = Len(p) - 1
      /\ Parent(p) = SubSeq(p, 1, Len(p) - 1)
  BY <1>1, FrontOf DEF Parent, Front
<1>3. SubSeq(Parent(p), 1, Len(Parent(p))) = Parent(p)
  BY <1>2, SubSeqFull
<1>4. SubSeq(Parent(p), 1, Len(Parent(p))) = SubSeq(p, 1, Len(Parent(p)))
  BY <1>2, <1>3
<1>5. Len(Parent(p)) <= Len(p) /\ Len(Parent(p)) # Len(p)
  BY <1>1, <1>2
<1> QED
  BY <1>4, <1>5 DEF IsPrefix

LEMMA Dirs ==
  /\ \A i, j : Dir(i) = Dir(j) => i = j
  /\ \A i : Dir(i) # Dev /\ Dir(i) # Bus
  /\ \A i, b, d : Dir(i) # Node(b, d)
  /\ Dir(0) = UsbFs /\ \A i \in BusSlots : Dir(i) = BusDir(i) /\ i # 0
BY Apart, SameBus DEF Dir, BusSlots

LEMMA ParentDir ==
  ASSUME NEW p \in Paths, NEW i \in Slots
  PROVE  Parent(p) = Dir(i) <=>
           \/ i = 0 /\ \E b \in Busses : p = BusDir(b)
           \/ i # 0 /\ i \in Busses /\ \E d \in Devices : p = Node(i, d)
BY ParentIs, Dirs DEF Dir

-----------------------------------------------------------------------------
(* Steps that only look.                                                   *)

LEMMA LocalStep ==
  ASSUME UsbHostIInv, Typed', pc # "watch",
         UNCHANGED <<tree, watch, lastWd, queue, wds, unseen, missed>>,
         pc' = "returned" \/ pc \notin {"start", "returned"},
         \A i \in BusSlots, d \in Devices :
           Node(i, d) \in tree /\ (Node(i, d) \in known \/ ToList(i, d))
             => Node(i, d) \in known' \/ ToList(i, d)',
         known' \cup nodeNames' \subseteq known \cup nodeNames \cup tree
  PROVE  UsbHostIInv'
<1>1. Watching'
  BY DEF UsbHostIInv, Watching, Live
<1>2. Named'
  BY DEF UsbHostIInv, Named
<1>3. /\ Clean' <=> Clean
      /\ \A p : Live(p)' <=> Live(p)
      /\ \A i : Announced(i)' <=> Announced(i)
      /\ \A i, d : Pending(i, d)' <=> Pending(i, d)
  BY DEF Clean, Live, Announced, Pending, About
<1>4. Told'
  BY DEF UsbHostIInv, Told, Clean, Live, About
<1>5. Covered'
  BY <1>3 DEF UsbHostIInv, Covered
<1>6. Reported'
  BY <1>3 DEF UsbHostIInv, Reported
<1>7. Forgotten'
  BY <1>3 DEF UsbHostIInv, Forgotten
<1> QED
  BY <1>1, <1>2, <1>4, <1>5, <1>6, <1>7 DEF UsbHostIInv

LEMMA FailRoot ==
  ASSUME UsbHostIInv, WatchRootFails
  PROVE  UsbHostIInv'
<1>1. /\ UNCHANGED <<tree, watch, lastWd, queue, wds, unseen, missed, known,
                     nodeNames, busNames, done, slot, changes>>
      /\ pc = "start" /\ pc' = "returned" /\ discovered' = TRUE
  BY DEF WatchRootFails, kernel, history, Goto
<1>2. Typed'
  BY <1>1 DEF UsbHostIInv, Typed
<1> QED
  BY <1>1, <1>2, LocalStep DEF ToList

LEMMA FindBusses ==
  ASSUME UsbHostIInv, FindExistingDevices
  PROVE  UsbHostIInv'
<1>1. /\ UNCHANGED <<tree, watch, lastWd, queue, wds, unseen, missed, known,
                     nodeNames, done, slot, changes, discovered>>
      /\ busNames' = {b \in Busses : BusDir(b) \in tree}
      /\ pc = "opendir" /\ pc' = "busses"
  BY DEF FindExistingDevices, kernel, history, Goto
<1>2. Typed'
  BY <1>1, UsbHostAssumption DEF UsbHostIInv, Typed
<1>3. ASSUME NEW i \in BusSlots, NEW d \in Devices, Node(i, d) \in tree
      PROVE  i \in busNames'
  <2>1. Node(i, d) \in Paths /\ BusDir(i) \in tree /\ i \in Busses
    BY <1>3, Parents, ParentIs, Apart DEF UsbHostIInv, Typed
  <2> QED
    BY <1>1, <2>1
<1> QED
  BY <1>1, <1>2, <1>3, LocalStep DEF ToList

LEMMA FindNodes ==
  ASSUME UsbHostIInv, FindExistingDevicesBus
  PROVE  UsbHostIInv'
<1>1. /\ UNCHANGED <<tree, watch, lastWd, queue, wds, unseen, missed, known,
                     done, slot, changes, discovered>>
      /\ pc = "busses" /\ pc' = "nodes"
  BY DEF FindExistingDevicesBus, kernel, history, Goto
<1>2. PICK b \in busNames :
        /\ busNames' = busNames \ {b}
        /\ nodeNames' = {n \in Nodes \cap tree : Parent(n) = BusDir(b)}
  BY DEF FindExistingDevicesBus
<1>3. Typed'
  BY <1>1, <1>2 DEF UsbHostIInv, Typed
<1>4. ASSUME NEW i \in BusSlots, NEW d \in Devices, Node(i, d) \in tree,
             i \in busNames
      PROVE  i \in busNames' \/ Node(i, d) \in nodeNames'
  <2>1. Node(i, d) \in Paths /\ Parent(Node(i, d)) = BusDir(i) /\ i \in Busses
    BY <1>4, Parents, ParentIs DEF UsbHostIInv, Typed
  <2> QED
    BY <1>2, <1>4, <2>1 DEF Nodes
<1>5. ASSUME NEW i \in BusSlots, NEW d \in Devices, Node(i, d) \in tree,
             Node(i, d) \in known \/ ToList(i, d)
      PROVE  Node(i, d) \in known' \/ ToList(i, d)'
  <2>1. nodeNames = {} /\ (Announced(i)' <=> Announced(i))
    BY <1>1 DEF UsbHostIInv, Typed, Announced
  <2> QED
    BY <1>1, <1>4, <1>5, <2>1 DEF ToList
<1> QED
  BY <1>1, <1>2, <1>3, <1>5, LocalStep

LEMMA Report ==
  ASSUME UsbHostIInv, ReportExisting
  PROVE  UsbHostIInv'
<1>1. /\ UNCHANGED <<tree, watch, lastWd, queue, wds, unseen, missed, pc,
                     busNames, slot, changes, discovered>>
      /\ pc = "nodes"
  BY DEF ReportExisting, kernel
<1>2. PICK n \in nodeNames, answer \in Answers :
        /\ nodeNames' = nodeNames \ {n} /\ known' = known \cup {n}
        /\ done' = answer
  BY DEF ReportExisting
<1>3. Typed'
  BY <1>1, <1>2, UsbHostAssumption DEF UsbHostIInv, Typed
<1>4. \A i : Announced(i)' <=> Announced(i)
  BY <1>1 DEF Announced
<1>5. ~done
  BY DEF ReportExisting
<1> QED
  BY <1>1, <1>2, <1>3, <1>4, <1>5, LocalStep DEF ToList

LEMMA EndBus ==
  ASSUME UsbHostIInv, CloseBus
  PROVE  UsbHostIInv'
<1>1. /\ UNCHANGED <<tree, watch, lastWd, queue, wds, unseen, missed, known,
                     busNames, done, slot, changes, discovered>>
      /\ pc = "nodes" /\ pc' = "busses" /\ nodeNames' = {}
      /\ nodeNames = {} \/ done
  BY DEF CloseBus, kernel, history, Goto
<1>2. Typed'
  BY <1>1 DEF UsbHostIInv, Typed
<1>3. \A i : Announced(i)' <=> Announced(i)
  BY <1>1 DEF Announced
<1> QED
  BY <1>1, <1>2, <1>3, LocalStep DEF ToList

LEMMA EndUsbFs ==
  ASSUME UsbHostIInv, CloseUsbFs
  PROVE  UsbHostIInv'
<1>1. /\ UNCHANGED <<tree, watch, lastWd, queue, wds, unseen, missed, known,
                     nodeNames, slot, changes>>
      /\ pc = "busses" /\ busNames' = {} /\ (busNames = {} \/ done)
      /\ pc' = IF done' THEN "returned" ELSE "read"
  BY DEF CloseUsbFs, kernel, history, Goto
<1>2. done' \in BOOLEAN /\ discovered' \in BOOLEAN /\ (done => done')
  BY UsbHostAssumption DEF CloseUsbFs, UsbHostIInv, Typed
<1>3. Typed'
  BY <1>1, <1>2 DEF UsbHostIInv, Typed
<1>4. \A i : Announced(i)' <=> Announced(i)
  BY <1>1 DEF Announced
<1> QED
  BY <1>1, <1>2, <1>3, <1>4, LocalStep DEF ToList

-----------------------------------------------------------------------------
(* Steps that read and watch.                                              *)

(* The queue loses its first k notifications.                              *)
Shifted(k) ==
  /\ k <= Len(queue) /\ Len(queue') = Len(queue) - k
  /\ \A j \in 1 .. Len(queue') : queue'[j] = queue[j + k]

(* A slot keeps its descriptor, loses it or gets a new one.                *)
Slotting == \A i \in Slots : wds'[i] \in {wds[i], NoWatch, lastWd + 1}

(* What a clean step reads is the first notification, if any, and it comes *)
(* under a descriptor that is known.                                       *)
Reading(k) ==
  /\ k \in {0, 1} /\ ~missed /\ Shifted(k)
  /\ \A j \in 1 .. k : queue[j].wd \in {wdd} \cup Range(wds)

LEMMA InRange ==
  ASSUME Watching, NEW x
  PROVE  x \in Range(wds) <=> \E i \in Slots : x = wds[i]
BY DEF Watching, Range

(* What is not read keeps its slot, as nothing under it is thrown away.    *)
LEMMA Survives ==
  ASSUME Typed, Watching, Watching', Clean', Slotting, NEW k, Reading(k),
         NEW j \in k + 1 .. Len(queue), NEW i \in Slots, queue[j].wd = wds[i]
  PROVE  /\ wds'[i] = wds[i] /\ j - k \in 1 .. Len(queue')
         /\ queue'[j - k] = queue[j]
<1>1. /\ Len(queue) \in Nat /\ j - k \in 1 .. Len(queue')
      /\ queue'[j - k] = queue[j] /\ j \in 1 .. Len(queue)
  BY LenProperties DEF Reading, Shifted, Typed
<1>2. queue'[j - k].wd \in {wdd} \cup Range(wds')
  BY <1>1 DEF Clean
<1>3. queue[j].wd \in 1 .. lastWd /\ wds[i] # wdd /\ lastWd \in Nat
  BY <1>1 DEF Typed, Watching
<1>4. PICK m \in Slots : wds'[m] = wds[i]
  <2>1. wds[i] \in Range(wds')
    BY <1>1, <1>2, <1>3
  <2> QED
    BY <2>1 DEF Watching, Range
<1>5. wds'[m] = wds[m]
  <2>1. wds'[m] \in {wds[m], NoWatch, lastWd + 1}
    BY DEF Slotting
  <2>2. wds'[m] # NoWatch /\ wds'[m] # lastWd + 1
    BY <1>3, <1>4 DEF NoWatch
  <2> QED
    BY <2>1, <2>2
<1>6. m = i
  <2>1. wds[i] # NoWatch /\ wds[m] = wds[i]
    BY <1>3, <1>4, <1>5 DEF NoWatch
  <2> QED
    BY <2>1 DEF Watching
<1> QED
  BY <1>1, <1>5, <1>6

LEMMA CleanBefore ==
  ASSUME Typed, Watching, Watching', Clean', Slotting, NEW k, Reading(k)
  PROVE  Clean
<1>1. ASSUME NEW j \in 1 .. Len(queue)
      PROVE  queue[j].wd \in {wdd} \cup Range(wds)
  <2>1. CASE j <= k
    BY <2>1 DEF Reading
  <2>2. CASE ~(j <= k)
    <3>1. /\ Len(queue) \in Nat /\ j - k \in 1 .. Len(queue')
          /\ queue'[j - k] = queue[j]
      <4>1. Len(queue) \in Nat
        BY LenProperties DEF Typed
      <4>2. /\ k \in {0, 1} /\ Len(queue') = Len(queue) - k
            /\ \A i \in 1 .. Len(queue') : queue'[i] = queue[i + k]
        BY DEF Reading, Shifted
      <4>3. j - k \in 1 .. Len(queue') /\ (j - k) + k = j
        BY <2>2, <4>1, <4>2
      <4> QED
        BY <4>1, <4>2, <4>3
    <3>2. queue[j].wd \in {wdd} \cup Range(wds')
      BY <3>1 DEF Clean
    <3>3. queue[j].wd \in 1 .. lastWd /\ lastWd \in Nat
      BY DEF Typed
    <3>4. CASE queue[j].wd # wdd
      <4>1. PICK m \in Slots : queue[j].wd = wds'[m]
        BY <3>2, <3>4 DEF Watching, Range
      <4>2. wds'[m] = wds[m]
        BY <3>3, <4>1 DEF Slotting, NoWatch
      <4> QED
        BY <4>1, <4>2, InRange
    <3> QED
      BY <3>4
  <2> QED
    BY <2>1, <2>2 DEF Reading
<1> QED
  BY <1>1 DEF Clean, Reading

LEMMA NamedAfter ==
  ASSUME Typed, Watching, Named, Slotting, queue' \in Seq(Events),
         \A j \in 1 .. Len(queue') :
           \/ \E k \in 1 .. Len(queue) : queue'[j] = queue[k]
           \/ queue'[j].mask = "IN_IGNORED"
  PROVE  Named'
<1> SUFFICES ASSUME NEW i \in BusSlots, wds'[i] # NoWatch,
                    NEW j \in 1 .. Len(queue'), queue'[j].wd = wds'[i],
                    queue'[j].mask # "IN_IGNORED"
             PROVE  queue'[j].name \in Devices
  BY DEF Named
<1>1. PICK k \in 1 .. Len(queue) : queue'[j] = queue[k]
  OBVIOUS
<1>2. queue[k].wd \in 1 .. lastWd /\ lastWd \in Nat /\ i \in Slots
  BY DEF Typed, BusSlots
<1>3. wds'[i] = wds[i]
  BY <1>1, <1>2 DEF Slotting
<1> QED
  BY <1>1, <1>3 DEF Named

LEMMA ToldAfter ==
  ASSUME Typed, Watching, Watching', Told, Clean', Slotting, NEW k, Reading(k),
         tree' = tree,
         \A i \in Slots : Live(Dir(i)) => Live(Dir(i))',
         \A i \in Slots :
           Live(Dir(i))' => Live(Dir(i)) \/ wds'[i] = lastWd + 1
  PROVE  Told'
<1>1. Clean
  BY CleanBefore
<1> SUFFICES ASSUME NEW i \in BusSlots, NEW d \in Devices, wds'[i] # NoWatch,
                    NEW j \in 1 .. Len(queue'), About(j, wds[i], d)',
                    \A m \in 1 .. Len(queue') : About(m, wds[i], d)' => m <= j
             PROVE  queue'[j].mask = "IN_CREATE"
                      <=> Live(BusDir(i))' /\ Node(i, d) \in tree
  BY DEF Told
<1>2. /\ Len(queue) \in Nat /\ j + k \in k + 1 .. Len(queue)
      /\ queue'[j] = queue[j + k] /\ j + k \in 1 .. Len(queue)
  BY LenProperties DEF Reading, Shifted, Typed
<1>3. queue[j + k].wd \in 1 .. lastWd /\ lastWd \in Nat /\ i \in Slots
  BY <1>2 DEF Typed, BusSlots
<1>4. wds'[i] = wds[i] /\ wds'[i] # lastWd + 1
  BY <1>2, <1>3 DEF Slotting, About
<1>5. About(j + k, wds[i], d)
  BY <1>2, <1>4 DEF About
<1>6. ASSUME NEW m \in 1 .. Len(queue), About(m, wds[i], d) PROVE m <= j + k
  <2>1. CASE m <= k
    BY <1>2, <2>1 DEF Reading
  <2>2. CASE ~(m <= k)
    <3>1. m - k \in 1 .. Len(queue') /\ queue'[m - k] = queue[m]
      BY <1>2, <2>2 DEF Reading, Shifted
    <3>2. About(m - k, wds[i], d)'
      BY <1>4, <1>6, <3>1 DEF About
    <3> QED
      BY <1>2, <3>1, <3>2 DEF Reading
  <2> QED
    BY <1>2, <2>1, <2>2 DEF Reading
<1>7. queue[j + k].mask = "IN_CREATE" <=> Live(BusDir(i)) /\ Node(i, d) \in tree
  BY <1>1, <1>2, <1>4, <1>5, <1>6 DEF Told
<1>8. Live(BusDir(i))' <=> Live(BusDir(i))
  BY <1>3, <1>4, Dirs
<1> QED
  BY <1>2, <1>7, <1>8

(* The watch of a slot's directory, if there is one, and what the slot is  *)
(* given.                                                                  *)
Slotted1(s) ==
  /\ AddWatch(Dir(s))
  /\ wds' = [wds EXCEPT ![s] =
               IF s = 0 \/ Watched(Dir(s)) # NoWatch THEN Watched(Dir(s)) ELSE @]

LEMMA BusOfDir ==
  ASSUME Typed, NEW s \in Slots, Dir(s) \in tree
  PROVE  s \in Busses \cup {0}
<1>1. CASE s # 0
  <2>1. BusDir(s) \in Paths /\ Parent(BusDir(s)) = UsbFs
    BY <1>1, Parents DEF Typed, Dir
  <2>2. PICK b \in Busses : BusDir(s) = BusDir(b)
    BY <2>1, ParentIs
  <2> QED
    BY <2>2, SameBus
<1> QED
  BY <1>1

LEMMA Watches ==
  ASSUME Typed, Watching, NEW s \in Slots, Slotted1(s), tree' = tree,
         pc \notin {"start", "returned"}
  PROVE  /\ Watching' /\ Slotting /\ lastWd' \in {lastWd, lastWd + 1}
         /\ \A p : Live(p) => Live(p)'
         /\ \A i \in Slots :
              Live(Dir(i))' => Live(Dir(i)) \/ wds'[i] = lastWd + 1
         /\ Dir(s) \in tree => Live(Dir(s))'
         /\ \A i \in Slots : i # s \/ Live(Dir(i)) => wds'[i] = wds[i]
<1>1. /\ lastWd \in Nat /\ wds \in [Slots -> {NoWatch} \cup 1 .. lastWd]
      /\ Live(Dev) /\ Dir(s) # Dev /\ lastWd \in Nat \ {0}
  <2>1. Live(Dev) /\ Dir(s) # Dev
    BY Dirs DEF Watching
  <2> QED
    BY <2>1 DEF Typed, Watching, Live, wdd
<1>2. CASE Dir(s) \in tree /\ ~Live(Dir(s))
  <2>1. /\ lastWd' = lastWd + 1
        /\ watch' = [q \in DOMAIN watch \cup {Dir(s)} |->
                       IF q = Dir(s) THEN lastWd + 1 ELSE watch[q]]
    BY <1>2 DEF Slotted1, AddWatch, Live
  <2>2. /\ DOMAIN watch' = DOMAIN watch \cup {Dir(s)}
        /\ watch'[Dir(s)] = lastWd + 1
        /\ \A q \in DOMAIN watch : watch'[q] = watch[q]
    BY <1>2, <2>1 DEF Live
  <2>3. Watched(Dir(s)) = lastWd + 1 /\ lastWd + 1 # NoWatch
    BY <1>1, <2>2 DEF Watched, NoWatch
  <2>4. /\ wds'[s] = lastWd + 1
        /\ \A i \in Slots : i # s => wds'[i] = wds[i]
        /\ wds' \in [Slots -> {NoWatch} \cup 1 .. lastWd']
    BY <1>1, <2>1, <2>3 DEF Slotted1
  <2>5. IsFiniteSet(DOMAIN watch')
    BY <2>2, FS_AddElement DEF Watching
  <2>6. \A p \in DOMAIN watch' :
          /\ p = Dev \/ (p \in tree' /\ \E i \in Slots : p = Dir(i))
          /\ watch'[p] \in 1 .. lastWd'
    BY <1>1, <1>2, <2>1, <2>2 DEF Watching
  <2>7. /\ \A i \in Slots : wds[i] # lastWd + 1
        /\ \A i \in Slots : Dir(i) = Dir(s) => i = s
    BY <1>1, Dirs DEF NoWatch
  <2>8. ASSUME NEW i \in Slots
        PROVE  /\ Live(Dir(i))' => watch'[Dir(i)] = wds'[i]
               /\ wds'[i] # wdd
               /\ wds'[i] # NoWatch => i \in Busses \cup {0}
               /\ \A j \in Slots :
                    wds'[i] = wds'[j] => i = j \/ wds'[i] = NoWatch
    <3>1. Live(Dir(i))' => watch'[Dir(i)] = wds'[i]
      BY <2>2, <2>4, <2>7 DEF Watching, Live
    <3>2. wds'[i] # wdd
      BY <1>1, <2>4 DEF Watching, wdd
    <3>3. wds'[i] # NoWatch => i \in Busses \cup {0}
      BY <1>2, <2>4, BusOfDir DEF Watching
    <3>4. \A j \in Slots : wds'[i] = wds'[j] => i = j \/ wds'[i] = NoWatch
      BY <2>4, <2>7 DEF Watching
    <3> QED
      BY <3>1, <3>2, <3>3, <3>4
  <2>9. Live(Dev)' /\ watch'[Dev] = wdd
    BY <1>1, <2>2 DEF Watching, Live
  <2>10. Watching'
    BY <2>4, <2>5, <2>6, <2>8, <2>9 DEF Watching
  <2>11. Slotting
    BY <2>4 DEF Slotting
  <2> QED
    BY <1>2, <2>1, <2>2, <2>4, <2>7, <2>10, <2>11 DEF Live
<1>3. CASE ~(Dir(s) \in tree /\ ~Live(Dir(s)))
  <2>1. UNCHANGED <<watch, lastWd>>
    BY <1>1, <1>3 DEF Slotted1, AddWatch, Live
  <2>2. /\ Live(Dir(s)) => Watched(Dir(s)) = wds[s]
        /\ ~Live(Dir(s)) => Watched(Dir(s)) = NoWatch
    BY <2>1 DEF Watched, Live, Watching
  <2>3. /\ wds'[s] \in {wds[s], NoWatch} /\ (Live(Dir(s)) => wds'[s] = wds[s])
        /\ \A i \in Slots : i # s => wds'[i] = wds[i]
        /\ wds' \in [Slots -> {NoWatch} \cup 1 .. lastWd']
    BY <1>1, <2>1, <2>2 DEF Slotted1
  <2>4. ASSUME NEW i \in Slots
        PROVE  /\ Live(Dir(i))' => watch'[Dir(i)] = wds'[i]
               /\ wds'[i] # wdd
               /\ wds'[i] # NoWatch => i \in Busses \cup {0}
               /\ \A j \in Slots :
                    wds'[i] = wds'[j] => i = j \/ wds'[i] = NoWatch
    <3>1. Live(Dir(i))' => watch'[Dir(i)] = wds'[i]
      BY <2>1, <2>3 DEF Watching, Live
    <3>2. wds'[i] # wdd
      BY <2>3 DEF Watching, wdd, NoWatch
    <3>3. wds'[i] # NoWatch => i \in Busses \cup {0}
      BY <2>3 DEF Watching
    <3>4. \A j \in Slots : wds'[i] = wds'[j] => i = j \/ wds'[i] = NoWatch
      BY <2>3 DEF Watching
    <3> QED
      BY <3>1, <3>2, <3>3, <3>4
  <2>5. /\ IsFiniteSet(DOMAIN watch')
        /\ \A p \in DOMAIN watch' :
             /\ p = Dev \/ (p \in tree' /\ \E i \in Slots : p = Dir(i))
             /\ watch'[p] \in 1 .. lastWd'
        /\ Live(Dev)' /\ watch'[Dev] = wdd
    BY <1>1, <2>1 DEF Watching, Live
  <2>6. Watching'
    BY <2>3, <2>4, <2>5 DEF Watching
  <2>7. Slotting
    BY <2>3 DEF Slotting
  <2> QED
    BY <1>3, <2>1, <2>3, <2>6, <2>7 DEF Live
<1> QED
  BY <1>2, <1>3

LEMMA ForgottenAfter ==
  ASSUME Typed, Watching, Watching', Forgotten, Clean', Slotting,
         NEW k, Reading(k), tree' = tree, unseen' = unseen,
         known' \cup nodeNames' \subseteq known \cup nodeNames \cup tree,
         \A j \in 1 .. k, i \in BusSlots :
           queue[j].wd # wds[i] \/ queue[j].mask = "IN_IGNORED"
  PROVE  Forgotten'
<1>1. Clean
  BY CleanBefore
<1> SUFFICES ASSUME NEW b \in Busses, NEW d \in Devices,
                    Node(b, d) \in (known' \cup nodeNames') \ (tree \cup unseen)
             PROVE  b \in Slots /\ wds'[b] # NoWatch /\ Pending(b, d)'
  BY DEF Forgotten
<1>2. b \in Slots /\ wds[b] # NoWatch /\ Pending(b, d)
  BY <1>1 DEF Forgotten
<1>3. PICK j \in 1 .. Len(queue) : About(j, wds[b], d)
  BY <1>2 DEF Pending
<1>4. b \in BusSlots
  BY <1>2, UsbHostAssumption DEF BusSlots
<1>5. j \in k + 1 .. Len(queue)
  <2>1. Len(queue) \in Nat /\ k \in {0, 1}
    BY LenProperties DEF Reading, Typed
  <2>2. ~(j \in 1 .. k)
    BY <1>3, <1>4 DEF About
  <2> QED
    BY <2>1, <2>2
<1>6. /\ wds'[b] = wds[b] /\ j - k \in 1 .. Len(queue')
      /\ queue'[j - k] = queue[j]
  BY <1>2, <1>3, <1>5, Survives DEF About
<1>7. About(j - k, wds[b], d)'
  BY <1>3, <1>6 DEF About
<1> QED
  BY <1>2, <1>6, <1>7 DEF Pending

LEMMA NothingRead ==
  ASSUME Typed, Clean', queue' = queue, missed' = missed
  PROVE  Reading(0)
<1>1. Len(queue) \in Nat
  BY LenProperties DEF Typed
<1> QED
  BY <1>1 DEF Reading, Shifted, Clean

LEMMA RootWatched ==
  ASSUME UsbHostIInv, WatchRoot
  PROVE  UsbHostIInv'
<1>1. /\ pc = "start" /\ AddWatch(Dev) /\ pc' = "watch" /\ slot' = 0
      /\ UNCHANGED <<tree, queue, changes, wds, busNames, nodeNames, done,
                     discovered, known, unseen, missed>>
  BY DEF WatchRoot, Goto, history
<1>2. /\ lastWd' \in Nat /\ lastWd' >= lastWd /\ lastWd \in Nat
      /\ IsFiniteSet(DOMAIN watch')
      /\ DOMAIN watch' = DOMAIN watch \cup {Dev} /\ watch'[Dev] = wdd
      /\ \A p \in DOMAIN watch : watch'[p] = watch[p]
      /\ wdd \in 1 .. lastWd'
  <2>1. CASE Live(Dev)
    <3>1. UNCHANGED <<watch, lastWd>>
      BY <1>1, <2>1 DEF AddWatch, Live
    <3>2. /\ Dev \in DOMAIN watch /\ watch[Dev] = wdd /\ watch[Dev] \in 1 .. lastWd
          /\ lastWd \in Nat /\ IsFiniteSet(DOMAIN watch)
      BY <2>1 DEF UsbHostIInv, Typed, Watching, Live
    <3> QED
      BY <3>1, <3>2
  <2>2. CASE ~Live(Dev)
    <3>1. DOMAIN watch = {} /\ lastWd = 0
      BY <2>2 DEF UsbHostIInv, Watching
    <3>2. /\ lastWd' = 1
          /\ watch' = [q \in {Dev} |-> IF q = Dev THEN lastWd' ELSE watch[q]]
      BY <1>1, <3>1 DEF AddWatch
    <3>3. IsFiniteSet({Dev})
      BY FS_Singleton
    <3> QED
      BY <3>1, <3>2, <3>3 DEF wdd
  <2> QED
    BY <2>1, <2>2
<1>3. Typed'
  <2>1. slot' \in Slots
    BY <1>1, UsbHostAssumption DEF Slots
  <2>2. \A j \in 1 .. Len(queue) : queue[j].wd \in 1 .. lastWd'
    BY <1>2 DEF UsbHostIInv, Typed
  <2> QED
    BY <1>1, <1>2, <2>1, <2>2 DEF UsbHostIInv, Typed
<1>4. Watching'
  <2>1. \A p \in DOMAIN watch' :
          /\ p = Dev \/ (p \in tree' /\ \E i \in Slots : p = Dir(i))
          /\ watch'[p] \in 1 .. lastWd'
    BY <1>1, <1>2 DEF UsbHostIInv, Watching
  <2>2. wds' \in [Slots -> {NoWatch} \cup 1 .. lastWd']
    BY <1>1, <1>2 DEF UsbHostIInv, Watching
  <2>3. \A i \in Slots : Live(Dir(i))' => watch'[Dir(i)] = wds'[i]
    BY <1>1, <1>2, Dirs DEF UsbHostIInv, Watching, Live
  <2>4. \A i \in Slots :
          /\ wds'[i] # wdd
          /\ wds'[i] # NoWatch => i \in Busses \cup {0}
          /\ \A j \in Slots : wds'[i] = wds'[j] => i = j \/ wds'[i] = NoWatch
    BY <1>1 DEF UsbHostIInv, Watching
  <2> QED
    BY <1>2, <2>1, <2>2, <2>3, <2>4 DEF Watching, Live
<1>5. Slotting /\ \A i \in Slots : Live(Dir(i)) <=> Live(Dir(i))'
  BY <1>1, <1>2, Dirs DEF Slotting, Live
<1>6. Named'
  BY <1>1, <1>5, NamedAfter DEF UsbHostIInv, Typed
<1>7. Clean' => Reading(0)
  BY <1>1, NothingRead DEF UsbHostIInv
<1>8. Told'
  <2>1. Clean' => Told'
    BY <1>1, <1>4, <1>5, <1>7, ToldAfter DEF UsbHostIInv
  <2> QED
    BY <2>1 DEF Told
<1>9. Covered' /\ Reported'
  BY <1>1, UsbHostAssumption DEF Covered, Reported, ToList, BusSlots, Slots
<1>10. Forgotten'
  <2>1. Clean' => Forgotten'
    BY <1>1, <1>4, <1>5, <1>7, ForgottenAfter DEF UsbHostIInv
  <2> QED
    BY <2>1 DEF Forgotten
<1> QED
  BY <1>3, <1>4, <1>6, <1>8, <1>9, <1>10 DEF UsbHostIInv

LEMMA SlotWatched ==
  ASSUME UsbHostIInv, WatchExistingSubdirs
  PROVE  UsbHostIInv'
<1>1. /\ pc = "watch"
      /\ UNCHANGED <<tree, queue, changes, busNames, nodeNames, done,
                     discovered, known, unseen, missed>>
      /\ IF slot + 1 = WdCount \/ wds'[0] = NoWatch
         THEN pc' = "opendir" /\ slot' = 0
         ELSE slot' = slot + 1 /\ pc' = pc
  BY DEF WatchExistingSubdirs, Goto, history
<1> PICK s \in Slots : s = slot
  BY DEF UsbHostIInv, Typed
<1>2. Slotted1(s)
  BY DEF WatchExistingSubdirs, Slotted1, Dir
<1>3. s \in Nat /\ WdCount \in Nat \ {0}
  BY UsbHostAssumption DEF Slots
<1>4. /\ Watching' /\ Slotting /\ lastWd' \in {lastWd, lastWd + 1}
      /\ \A p : Live(p) => Live(p)'
      /\ \A i \in Slots :
           Live(Dir(i))' => Live(Dir(i)) \/ wds'[i] = lastWd + 1
      /\ Dir(s) \in tree => Live(Dir(s))'
      /\ \A i \in Slots : i # s \/ Live(Dir(i)) => wds'[i] = wds[i]
  <2>1. /\ Typed /\ Watching /\ tree' = tree
        /\ pc \notin {"start", "returned"}
    BY <1>1 DEF UsbHostIInv
  <2> QED
    BY <1>2, <1>3, <2>1, Watches
<1>5. Typed'
  <2>1. slot' \in Slots
    BY <1>1, <1>3 DEF Slots
  <2>2. /\ lastWd' \in Nat
        /\ \A j \in 1 .. Len(queue) :
             queue[j].wd \in 1 .. lastWd'
    BY <1>4 DEF UsbHostIInv, Typed
  <2> QED
    BY <1>1, <2>1, <2>2 DEF UsbHostIInv, Typed
<1>6. Named'
  BY <1>1, <1>4, NamedAfter DEF UsbHostIInv, Typed
<1>7. Clean' => Reading(0) /\ Clean
  BY <1>1, <1>4, NothingRead, CleanBefore DEF UsbHostIInv
<1>8. Told'
  <2>1. Clean' => Told'
    BY <1>1, <1>4, <1>7, ToldAfter DEF UsbHostIInv
  <2> QED
    BY <2>1 DEF Told
<1>9. Covered'
  <2> SUFFICES ASSUME Clean', Live(UsbFs)', NEW i \in BusSlots,
                      BusDir(i) \in tree
               PROVE  \/ Live(BusDir(i))' \/ Announced(i)'
                      \/ pc' = "watch" /\ slot' <= i
    BY <1>1 DEF Covered
  <2>1. i \in Slots /\ i \in Nat /\ i > 0 /\ i < WdCount /\ 0 \in Slots
        /\ Dir(0) = UsbFs /\ Dir(i) = BusDir(i)
    BY <1>3, Dirs DEF BusSlots, Slots
  <2>2. wds'[0] # NoWatch
    <3>1. watch'[UsbFs] = wds'[0] /\ watch'[UsbFs] \in 1 .. lastWd'
      BY <1>4, <2>1 DEF Watching, Live
    <3> QED
      BY <3>1 DEF NoWatch
  <2>3. CASE s = i
    <3>1. Dir(s) = BusDir(i)
      BY <2>1, <2>3
    <3> QED
      BY <1>4, <3>1
  <2>4. CASE s = 0
    BY <1>1, <2>1, <2>2, <2>4
  <2>5. CASE s # i /\ s # 0
    <3>1. wds'[0] = wds[0] /\ wds[0] # lastWd + 1
      BY <1>4, <2>1, <2>5 DEF UsbHostIInv, Watching, Typed, NoWatch
    <3>2. Live(UsbFs)
      BY <1>4, <2>1, <3>1
    <3>3. Live(BusDir(i)) \/ Announced(i) \/ (pc = "watch" /\ slot <= i)
      BY <1>7, <3>2 DEF UsbHostIInv, Covered
    <3>4. Announced(i) => Announced(i)'
      BY <1>1, <3>1 DEF Announced
    <3>5. slot <= i => pc' = "watch" /\ slot' <= i
      BY <1>1, <1>3, <2>1, <2>2, <2>5
    <3> QED
      BY <1>4, <3>3, <3>4, <3>5
  <2> QED
    BY <2>3, <2>4, <2>5
<1>10. Reported'
  BY <1>1 DEF Reported, ToList
<1>11. Forgotten'
  <2>1. Clean' => Forgotten'
    BY <1>1, <1>4, <1>7, ForgottenAfter DEF UsbHostIInv
  <2> QED
    BY <2>1 DEF Forgotten
<1> QED
  BY <1>4, <1>5, <1>6, <1>8, <1>9, <1>10, <1>11 DEF UsbHostIInv

-----------------------------------------------------------------------------
(* Changes of /dev.                                                        *)

LEMMA Notifies ==
  ASSUME Typed, Watching, NEW p \in Paths, NEW mask \in Masks
  PROVE  /\ Notification(p, mask) \in Seq(Events)
         /\ Live(Parent(p)) =>
              /\ Len(Notification(p, mask)) = 1
              /\ Notification(p, mask)[1]
                   = Event(watch[Parent(p)], mask, Name(p))
         /\ ~Live(Parent(p)) => Len(Notification(p, mask)) = 0
<1>1. Name(p) \in {0, "bus", "usb"} \cup Busses \cup Devices
  <2>1. Name(Bus) = "bus" /\ Name(UsbFs) = "usb"
    BY DEF Name, Last, Bus, UsbFs
  <2> QED
    BY <2>1, PathCases, Names
<1>2. CASE Live(Parent(p))
  <2>1. watch[Parent(p)] \in Nat
    BY <1>2 DEF Typed, Watching, Live
  <2>2. Event(watch[Parent(p)], mask, Name(p)) \in Events
    BY <1>1, <2>1 DEF Event, Events
  <2>3. Notification(p, mask) = <<Event(watch[Parent(p)], mask, Name(p))>>
    BY <1>2 DEF Notification, Live
  <2> QED
    BY <1>2, <2>2, <2>3
<1>3. CASE ~Live(Parent(p))
  BY <1>3 DEF Notification, Live
<1> QED
  BY <1>2, <1>3

(* A descriptor in a slot is that of the slot's directory.                 *)
LEMMA Owner ==
  ASSUME Watching, NEW q, Live(q), NEW i \in Slots, watch[q] = wds[i]
  PROVE  q = Dir(i)
<1>1. watch[q] \in 1 .. lastWd /\ (q = Dev \/ \E j \in Slots : q = Dir(j))
  BY DEF Watching, Live
<1>2. q # Dev /\ wds[i] # NoWatch
  BY <1>1 DEF Watching, wdd, NoWatch
<1>3. PICK j \in Slots : q = Dir(j)
  BY <1>1, <1>2
<1>4. wds[j] = wds[i]
  BY <1>3 DEF Watching
<1>5. i = j
  BY <1>2, <1>4 DEF Watching
<1> QED
  BY <1>3, <1>5

(* What a new notification is about.                                       *)
LEMMA AboutWhat ==
  ASSUME Watching, NEW p \in Paths, Live(Parent(p)), NEW i \in BusSlots,
         watch[Parent(p)] = wds[i]
  PROVE  i \in Busses /\ Name(p) \in Devices /\ p = Node(i, Name(p))
<1>1. i \in Slots /\ i # 0
  BY DEF BusSlots
<1>2. Parent(p) = Dir(i)
  BY <1>1, Owner
<1>3. i \in Busses /\ \E d \in Devices : p = Node(i, d)
  BY <1>1, <1>2, ParentDir
<1> QED
  BY <1>3, Names

(* The queue grows: by a notification of the change of p, if somebody      *)
(* watches, and at most by the end of a watch.                             *)
Grown(p, mask) ==
  /\ queue' \in Seq(Events) /\ Len(queue) <= Len(queue')
  /\ \A j \in 1 .. Len(queue) : queue'[j] = queue[j]
  /\ Live(Parent(p)) =>
       /\ Len(queue) < Len(queue')
       /\ queue'[Len(queue) + 1] = Event(watch[Parent(p)], mask, Name(p))
  /\ \A j \in Len(queue) + 1 .. Len(queue') :
       \/ j = Len(queue) + 1 /\ Live(Parent(p))
       \/ queue'[j].mask = "IN_IGNORED" /\ queue'[j].wd \in 1 .. lastWd

LEMMA Growth ==
  ASSUME Typed, Watching, NEW p \in Paths, NEW mask \in Masks, Grown(p, mask),
         UNCHANGED <<lastWd, wds, missed>>
  PROVE  /\ \A j \in 1 .. Len(queue') : queue'[j].wd \in 1 .. lastWd'
         /\ \A j, wd, name : About(j, wd, name) => About(j, wd, name)'
         /\ \A i : Announced(i) => Announced(i)'
         /\ \A i, d : Pending(i, d) => Pending(i, d)'
         /\ Clean' => Clean
<1>1. Len(queue) \in Nat /\ Len(queue') \in Nat
  BY LenProperties DEF Typed, Grown
<1>2. Live(Parent(p)) => watch[Parent(p)] \in 1 .. lastWd
  BY DEF Watching, Live
<1>3. \A j \in 1 .. Len(queue') : queue'[j].wd \in 1 .. lastWd'
  <2> SUFFICES ASSUME NEW j \in 1 .. Len(queue')
               PROVE  queue'[j].wd \in 1 .. lastWd
    OBVIOUS
  <2>1. CASE j \in 1 .. Len(queue)
    BY <2>1 DEF Grown, Typed
  <2>2. CASE j \in Len(queue) + 1 .. Len(queue')
    BY <1>2, <2>2 DEF Grown, Event
  <2> QED
    BY <1>1, <2>1, <2>2
<1>4. \A j \in 1 .. Len(queue) : j \in 1 .. Len(queue') /\ queue'[j] = queue[j]
  BY <1>1 DEF Grown
<1>5. \A j, wd, name : About(j, wd, name) => About(j, wd, name)'
  BY <1>4 DEF About
<1>6. \A i : Announced(i) => Announced(i)'
  BY <1>4 DEF Announced
<1>7. \A i, d : Pending(i, d) => Pending(i, d)'
  BY <1>4, <1>5 DEF Pending
<1>8. Clean' => Clean
  BY <1>4 DEF Clean
<1> QED
  BY <1>3, <1>5, <1>6, <1>7, <1>8

LEMMA GrownNamed ==
  ASSUME Typed, Watching, Named, NEW p \in Paths, NEW mask \in Masks,
         Grown(p, mask), UNCHANGED wds
  PROVE  Named'
<1> SUFFICES ASSUME NEW i \in BusSlots, wds[i] # NoWatch,
                    NEW j \in 1 .. Len(queue'), queue'[j].wd = wds[i],
                    queue'[j].mask # "IN_IGNORED"
             PROVE  queue'[j].name \in Devices
  BY DEF Named
<1>1. Len(queue) \in Nat /\ Len(queue') \in Nat
  BY LenProperties DEF Typed, Grown
<1>2. CASE j \in 1 .. Len(queue)
  BY <1>2 DEF Grown, Named
<1>3. CASE j \in Len(queue) + 1 .. Len(queue')
  <2>1. Live(Parent(p)) /\ queue'[j] = Event(watch[Parent(p)], mask, Name(p))
    BY <1>3 DEF Grown
  <2> QED
    BY <2>1, AboutWhat DEF Event
<1> QED
  BY <1>1, <1>2, <1>3

(* Of a device the new last notification is the change itself, or the old  *)
(* one is still the last.                                                  *)
LEMMA GrownTold ==
  ASSUME Typed, Watching, Told, Clean, NEW p \in Paths, NEW mask \in Masks,
         mask # "IN_IGNORED", Grown(p, mask), UNCHANGED wds,
         NEW i \in BusSlots, NEW d \in Devices, wds[i] # NoWatch,
         NEW j \in 1 .. Len(queue'), About(j, wds[i], d)',
         \A k \in 1 .. Len(queue') : About(k, wds[i], d)' => k <= j
  PROVE  \/ /\ p = Node(i, d) /\ Live(BusDir(i))
            /\ queue'[j].mask = mask
         \/ /\ queue'[j].mask = "IN_CREATE"
                 <=> Live(BusDir(i)) /\ Node(i, d) \in tree
            /\ p = Node(i, d) => ~Live(BusDir(i))
<1>1. Len(queue) \in Nat /\ Len(queue') \in Nat /\ i \in Slots /\ i # 0
  BY LenProperties DEF Typed, Grown, BusSlots
<1>2. CASE j \in Len(queue) + 1 .. Len(queue')
  <2>1. Live(Parent(p)) /\ queue'[j] = Event(watch[Parent(p)], mask, Name(p))
    BY <1>2 DEF Grown, About
  <2>2. watch[Parent(p)] = wds[i] /\ Name(p) = d
    BY <2>1 DEF About, Event
  <2>3. p = Node(i, d)
    BY <2>1, <2>2, AboutWhat
  <2> QED
    BY <2>1, <2>3, Parents DEF Event
<1>3. CASE j \in 1 .. Len(queue)
  <2>1. queue'[j] = queue[j] /\ About(j, wds[i], d)
    BY <1>3 DEF Grown, About
  <2>2. ASSUME NEW k \in 1 .. Len(queue), About(k, wds[i], d) PROVE k <= j
    <3>1. k \in 1 .. Len(queue') /\ About(k, wds[i], d)'
      BY <1>1, <2>2 DEF Grown, About
    <3> QED
      BY <3>1
  <2>3. queue[j].mask = "IN_CREATE" <=> Live(BusDir(i)) /\ Node(i, d) \in tree
    BY <1>3, <2>1, <2>2 DEF Told
  <2>4. ASSUME p = Node(i, d), Live(BusDir(i)) PROVE FALSE
    <3>1. Parent(p) = BusDir(i) /\ Name(p) = d /\ BusDir(i) = Dir(i)
      BY <2>4, Parents, Names, Dirs
    <3>2. watch[Parent(p)] = wds[i]
      BY <1>1, <2>4, <3>1 DEF Watching
    <3>3. PICK k \in 1 .. Len(queue') :
            k = Len(queue) + 1 /\ queue'[k] = Event(wds[i], mask, d)
      <4>1. Live(Parent(p))
        BY <2>4, <3>1
      <4> QED
        BY <1>1, <3>1, <3>2, <4>1 DEF Grown
    <3>4. /\ Event(wds[i], mask, d).wd = wds[i]
          /\ Event(wds[i], mask, d).name = d
          /\ Event(wds[i], mask, d).mask = mask
      BY DEF Event
    <3>5. About(k, wds[i], d)'
      BY <3>3, <3>4 DEF About
    <3> QED
      BY <1>1, <1>3, <3>3, <3>5
  <2> QED
    BY <2>1, <2>3, <2>4
<1> QED
  BY <1>1, <1>2, <1>3

(* The new notification of a change, in the slot of its directory.         *)
LEMMA NewEvent ==
  ASSUME Typed, Watching, NEW p \in Paths, NEW mask \in Masks, Grown(p, mask),
         NEW i \in Slots, Parent(p) = Dir(i), Live(Dir(i))
  PROVE  \E j \in 1 .. Len(queue') :
           /\ queue'[j].wd = wds[i] /\ queue'[j].mask = mask
           /\ queue'[j].name = Name(p)
<1>1. Len(queue) \in Nat /\ Len(queue') \in Nat
  BY LenProperties DEF Typed, Grown
<1>2. Live(Parent(p)) /\ watch[Parent(p)] = wds[i]
  BY DEF Watching
<1>3. PICK j \in 1 .. Len(queue') :
        j = Len(queue) + 1 /\ queue'[j] = Event(wds[i], mask, Name(p))
  BY <1>1, <1>2 DEF Grown
<1> QED
  BY <1>3 DEF Event

LEMMA Created ==
  ASSUME UsbHostIInv, NEW p \in Paths, Create(p)
  PROVE  UsbHostIInv'
<1>1. /\ p \notin tree /\ Parent(p) \in tree \cup {Dev}
      /\ tree' = tree \cup {p} /\ unseen' = unseen \ {p}
      /\ changes < MaxChanges /\ changes' = changes + 1
      /\ queue' = queue \o Notification(p, "IN_CREATE")
      /\ UNCHANGED <<watch, lastWd, pc, wds, slot, busNames, nodeNames, done,
                     discovered, known, missed>>
  BY DEF Create, locals
<1>2. "IN_CREATE" \in Masks /\ "IN_CREATE" # "IN_IGNORED"
  BY DEF Masks
<1>3. Typed /\ Watching /\ Named /\ Told /\ Covered /\ Reported /\ Forgotten
  BY DEF UsbHostIInv
<1>4. Grown(p, "IN_CREATE")
  <2> DEFINE n == Notification(p, "IN_CREATE")
  <2>1. /\ n \in Seq(Events)
        /\ Live(Parent(p)) =>
             /\ Len(n) = 1
             /\ n[1] = Event(watch[Parent(p)], "IN_CREATE", Name(p))
        /\ ~Live(Parent(p)) => Len(n) = 0
    BY <1>2, <1>3, Notifies
  <2> HIDE DEF n
  <2>2. /\ queue' \in Seq(Events) /\ Len(queue') = Len(queue) + Len(n)
        /\ \A j \in 1 .. Len(queue) + Len(n) :
             queue'[j] = IF j <= Len(queue) THEN queue[j] ELSE n[j - Len(queue)]
        /\ Len(queue) \in Nat
    BY <1>1, <1>3, <2>1, ConcatProperties, LenProperties DEF Typed, n
  <2> QED
    BY <2>1, <2>2 DEF Grown
<1>5. /\ \A j \in 1 .. Len(queue') : queue'[j].wd \in 1 .. lastWd'
      /\ \A j, wd, name : About(j, wd, name) => About(j, wd, name)'
      /\ \A i : Announced(i) => Announced(i)'
      /\ \A i, d : Pending(i, d) => Pending(i, d)'
      /\ Clean' => Clean
  BY <1>1, <1>2, <1>3, <1>4, Growth
<1>6. \A q : Live(q)' <=> Live(q)
  BY <1>1 DEF Live
<1>7. Typed'
  <2>1. \A q \in tree' : Parent(q) \in tree' \cup {Dev}
    BY <1>1, <1>3 DEF Typed
  <2>2. changes' \in 0 .. MaxChanges
    BY <1>1, <1>3, UsbHostAssumption DEF Typed
  <2>3. tree' \subseteq Paths /\ unseen' \subseteq Nodes
    BY <1>1, <1>3 DEF Typed
  <2> QED
    BY <1>1, <1>3, <1>4, <1>5, <2>1, <2>2, <2>3 DEF Typed, Grown
<1>8. Watching'
  BY <1>1, <1>3, <1>6 DEF Watching
<1>9. Named'
  BY <1>1, <1>2, <1>3, <1>4, GrownNamed
<1>10. Told'
  <2> SUFFICES ASSUME Clean', NEW i \in BusSlots, NEW d \in Devices,
                      wds[i] # NoWatch,
                      NEW j \in 1 .. Len(queue'), About(j, wds[i], d)',
                      \A k \in 1 .. Len(queue') : About(k, wds[i], d)' => k <= j
               PROVE  queue'[j].mask = "IN_CREATE"
                        <=> Live(BusDir(i))' /\ Node(i, d) \in tree'
    BY <1>1 DEF Told
  <2>1. \/ /\ p = Node(i, d) /\ Live(BusDir(i))
           /\ queue'[j].mask = "IN_CREATE"
        \/ /\ queue'[j].mask = "IN_CREATE"
                <=> Live(BusDir(i)) /\ Node(i, d) \in tree
           /\ p = Node(i, d) => ~Live(BusDir(i))
    BY <1>1, <1>2, <1>3, <1>4, <1>5, GrownTold
  <2> QED
    BY <1>1, <1>6, <2>1
<1>11. Covered'
  <2> SUFFICES ASSUME Clean', Live(UsbFs), NEW i \in BusSlots,
                      BusDir(i) \in tree'
               PROVE  \/ Live(BusDir(i)) \/ Announced(i)'
                      \/ pc = "watch" /\ slot <= i
    BY <1>1, <1>6 DEF Covered
  <2>1. CASE BusDir(i) \in tree
    BY <1>3, <1>5, <2>1 DEF Covered
  <2>2. CASE BusDir(i) = p
    <3>1. Parent(p) = Dir(0) /\ Name(p) = i /\ 0 \in Slots /\ Live(Dir(0))
      BY <2>2, Parents, Names, Dirs, UsbHostAssumption DEF Slots
    <3>2. \E j \in 1 .. Len(queue') :
            /\ queue'[j].wd = wds[0] /\ queue'[j].mask = "IN_CREATE"
            /\ queue'[j].name = i
      BY <1>2, <1>3, <1>4, <3>1, NewEvent
    <3> QED
      BY <1>1, <3>2 DEF Announced
  <2> QED
    BY <1>1, <2>1, <2>2
<1>12. Reported'
  <2> SUFFICES ASSUME Clean', Live(UsbFs), NEW i \in BusSlots,
                      NEW d \in Devices,
                      Node(i, d) \in tree'
               PROVE  \/ Node(i, d) \in known \/ ToList(i, d)'
                      \/ Live(BusDir(i)) /\ Pending(i, d)'
    BY <1>1, <1>6 DEF Reported
  <2>1. ToList(i, d) => ToList(i, d)'
    BY <1>1, <1>5 DEF ToList
  <2>2. CASE Node(i, d) \in tree
    BY <1>3, <1>5, <2>1, <2>2 DEF Reported
  <2>3. CASE Node(i, d) = p
    <3>1. Parent(p) = BusDir(i) /\ Name(p) = d /\ BusDir(i) = Dir(i)
          /\ i \in Slots /\ BusDir(i) # Dev
      BY <2>3, Parents, Names, Dirs, Apart DEF BusSlots
    <3>2. Live(BusDir(i)) \/ Announced(i) \/ (pc = "watch" /\ slot <= i)
      BY <1>1, <1>3, <1>5, <3>1 DEF Covered
    <3>3. ASSUME Live(BusDir(i)) PROVE Pending(i, d)'
      <4>1. \E j \in 1 .. Len(queue') :
              /\ queue'[j].wd = wds[i] /\ queue'[j].mask = "IN_CREATE"
              /\ queue'[j].name = d
        BY <1>2, <1>3, <1>4, <3>1, <3>3, NewEvent
      <4> QED
        BY <1>1, <1>2, <4>1 DEF Pending, About
    <3>4. Announced(i) => ToList(i, d)'
      BY <1>5 DEF ToList
    <3>5. pc = "watch" => ToList(i, d)'
      BY <1>1 DEF ToList
    <3> QED
      BY <3>2, <3>3, <3>4, <3>5
  <2> QED
    BY <1>1, <2>2, <2>3
<1>13. Forgotten'
  BY <1>1, <1>3, <1>5 DEF Forgotten
<1> QED
  BY <1>7, <1>8, <1>9, <1>10, <1>11, <1>12, <1>13 DEF UsbHostIInv

LEMMA Deleted ==
  ASSUME UsbHostIInv, NEW p \in Paths, Delete(p)
  PROVE  UsbHostIInv'
<1>1. /\ p \in tree /\ \A q \in tree : q = p \/ ~IsPrefix(p, q)
      /\ tree' = tree \ {p}
      /\ watch' = [q \in DOMAIN watch \ {p} |-> watch[q]]
      /\ unseen' = IF p \in Nodes /\ ~Live(Parent(p))
                   THEN unseen \cup {p} ELSE unseen
      /\ changes < MaxChanges /\ changes' = changes + 1
      /\ queue' = queue \o Notification(p, "IN_DELETE")
                    \o IF Live(p) THEN <<Ignored(watch[p])>> ELSE <<>>
      /\ UNCHANGED <<lastWd, pc, wds, slot, busNames, nodeNames, done,
                     discovered, known, missed>>
  BY DEF Delete, locals, Unwatched, Live
<1>2. "IN_DELETE" \in Masks /\ "IN_DELETE" # "IN_IGNORED"
  BY DEF Masks
<1>3. Typed /\ Watching /\ Named /\ Told /\ Covered /\ Reported /\ Forgotten
  BY DEF UsbHostIInv
<1>4. \A q \in tree : Parent(q) # p
  BY <1>1, <1>3, ParentPrefix DEF Typed
<1>5. Grown(p, "IN_DELETE")
  <2> DEFINE n == Notification(p, "IN_DELETE")
             g == IF Live(p) THEN <<Ignored(watch[p])>> ELSE <<>>
             m == queue \o n
  <2>1. /\ n \in Seq(Events)
        /\ Live(Parent(p)) =>
             /\ Len(n) = 1
             /\ n[1] = Event(watch[Parent(p)], "IN_DELETE", Name(p))
        /\ ~Live(Parent(p)) => Len(n) = 0
    BY <1>2, <1>3, Notifies
  <2>2. /\ g \in Seq(Events) /\ Len(g) \in {0, 1}
        /\ Len(g) = 1 => g[1].mask = "IN_IGNORED" /\ g[1].wd \in 1 .. lastWd
    <3>1. CASE Live(p)
      <4>1. watch[p] \in 1 .. lastWd /\ lastWd \in Nat
        BY <1>3, <3>1 DEF Watching, Live, Typed
      <4>2. /\ Ignored(watch[p]) \in Events
            /\ Ignored(watch[p]).mask = "IN_IGNORED"
            /\ Ignored(watch[p]).wd \in 1 .. lastWd
        BY <4>1 DEF Ignored, Event, Events, Masks
      <4> QED
        BY <3>1, <4>2
    <3>2. CASE ~Live(p)
      BY <3>2
    <3> QED
      BY <3>1, <3>2
  <2>3. queue' = m \o g
    BY <1>1
  <2> HIDE DEF n, g
  <2>4. /\ m \in Seq(Events) /\ Len(m) = Len(queue) + Len(n)
        /\ \A j \in 1 .. Len(queue) + Len(n) :
             m[j] = IF j <= Len(queue) THEN queue[j] ELSE n[j - Len(queue)]
        /\ Len(queue) \in Nat
    BY <1>3, <2>1, ConcatProperties, LenProperties DEF Typed
  <2> HIDE DEF m
  <2>5. /\ queue' \in Seq(Events) /\ Len(queue') = Len(m) + Len(g)
        /\ \A j \in 1 .. Len(m) + Len(g) :
             queue'[j] = IF j <= Len(m) THEN m[j] ELSE g[j - Len(m)]
    <3>1. m \in Seq(Events) /\ g \in Seq(Events)
      BY <2>2, <2>4
    <3>2. /\ m \o g \in Seq(Events) /\ Len(m \o g) = Len(m) + Len(g)
          /\ \A j \in 1 .. Len(m) + Len(g) :
               (m \o g)[j] = IF j <= Len(m) THEN m[j] ELSE g[j - Len(m)]
      BY <3>1, ConcatProperties
    <3> QED
      BY <2>3, <3>2
  <2>6. /\ Len(queue) <= Len(queue')
        /\ \A j \in 1 .. Len(queue) : queue'[j] = queue[j]
    BY <2>1, <2>2, <2>4, <2>5
  <2>7. Live(Parent(p)) =>
          /\ Len(queue) < Len(queue')
          /\ queue'[Len(queue) + 1]
               = Event(watch[Parent(p)], "IN_DELETE", Name(p))
    BY <2>1, <2>2, <2>4, <2>5
  <2>8. ASSUME NEW j \in Len(queue) + 1 .. Len(queue')
        PROVE  \/ j = Len(queue) + 1 /\ Live(Parent(p))
               \/ queue'[j].mask = "IN_IGNORED" /\ queue'[j].wd \in 1 .. lastWd
    <3>1. CASE j <= Len(m)
      BY <2>1, <2>4, <3>1
    <3>2. CASE ~(j <= Len(m))
      <4>1. Len(n) \in {0, 1} /\ Len(m) \in Nat /\ Len(queue) \in Nat
        BY <2>1, <2>4
      <4>2. Len(g) = 1 /\ j - Len(m) = 1 /\ j \in 1 .. Len(m) + Len(g)
        BY <2>2, <2>4, <2>5, <3>2, <4>1
      <4> QED
        BY <2>2, <2>5, <3>2, <4>2
    <3> QED
      BY <3>1, <3>2
  <2> QED
    BY <2>5, <2>6, <2>7, <2>8 DEF Grown
<1>6. /\ \A j \in 1 .. Len(queue') : queue'[j].wd \in 1 .. lastWd'
      /\ \A j, wd, name : About(j, wd, name) => About(j, wd, name)'
      /\ \A i : Announced(i) => Announced(i)'
      /\ \A i, d : Pending(i, d) => Pending(i, d)'
      /\ Clean' => Clean
  BY <1>1, <1>2, <1>3, <1>5, Growth
<1>7. /\ \A q : Live(q)' <=> Live(q) /\ q # p
      /\ \A q : Live(q)' => watch'[q] = watch[q]
      /\ p # Dev /\ DOMAIN watch' \subseteq DOMAIN watch
  BY <1>1, PathCases, Apart DEF Live
<1>8. Typed'
  <2>1. \A q \in tree' : Parent(q) \in tree' \cup {Dev}
    BY <1>1, <1>3, <1>4 DEF Typed
  <2>2. changes' \in 0 .. MaxChanges
    BY <1>1, <1>3, UsbHostAssumption DEF Typed
  <2>3. tree' \subseteq Paths /\ unseen' \subseteq Nodes
    BY <1>1, <1>3 DEF Typed
  <2> QED
    BY <1>1, <1>3, <1>5, <1>6, <2>1, <2>2, <2>3 DEF Typed, Grown
<1>9. Watching'
  <2>1. IsFiniteSet(DOMAIN watch')
    BY <1>3, <1>7, FS_Subset DEF Watching
  <2>2. \A q \in DOMAIN watch' :
          /\ q = Dev \/ (q \in tree' /\ \E i \in Slots : q = Dir(i))
          /\ watch'[q] \in 1 .. lastWd'
    BY <1>1, <1>3, <1>7 DEF Watching, Live
  <2>3. \A i \in Slots : Live(Dir(i))' => watch'[Dir(i)] = wds'[i]
    BY <1>1, <1>3, <1>7 DEF Watching
  <2>4. \A i \in Slots :
          /\ wds'[i] # wdd
          /\ wds'[i] # NoWatch => i \in Busses \cup {0}
          /\ \A j \in Slots : wds'[i] = wds'[j] => i = j \/ wds'[i] = NoWatch
    BY <1>1, <1>3 DEF Watching
  <2>5. /\ Live(Dev)' => watch'[Dev] = wdd
        /\ pc' \notin {"start", "returned"} => Live(Dev)'
        /\ ~Live(Dev)' => DOMAIN watch' = {} /\ lastWd' = 0
    BY <1>1, <1>3, <1>7 DEF Watching
  <2>6. wds' \in [Slots -> {NoWatch} \cup 1 .. lastWd']
    BY <1>1, <1>3 DEF Watching
  <2> QED
    BY <2>1, <2>2, <2>3, <2>4, <2>5, <2>6 DEF Watching
<1>10. Named'
  BY <1>1, <1>2, <1>3, <1>5, GrownNamed
<1>11. Told'
  <2> SUFFICES ASSUME Clean', NEW i \in BusSlots, NEW d \in Devices,
                      wds[i] # NoWatch,
                      NEW j \in 1 .. Len(queue'), About(j, wds[i], d)',
                      \A k \in 1 .. Len(queue') : About(k, wds[i], d)' => k <= j
               PROVE  queue'[j].mask = "IN_CREATE"
                        <=> Live(BusDir(i))' /\ Node(i, d) \in tree'
    BY <1>1 DEF Told
  <2>1. \/ /\ p = Node(i, d) /\ Live(BusDir(i))
           /\ queue'[j].mask = "IN_DELETE"
        \/ /\ queue'[j].mask = "IN_CREATE"
                <=> Live(BusDir(i)) /\ Node(i, d) \in tree
           /\ p = Node(i, d) => ~Live(BusDir(i))
    <3>1. Typed /\ Watching /\ Told /\ Clean /\ wds' = wds
      BY <1>1, <1>3, <1>6
    <3> QED
      BY <1>2, <1>5, <3>1, GrownTold
  <2>2. p = BusDir(i) => Node(i, d) \notin tree
    BY <1>4, Parents
  <2> QED
    BY <1>1, <1>7, <2>1, <2>2
<1>12. Covered'
  BY <1>1, <1>3, <1>6, <1>7 DEF Covered
<1>13. Reported'
  <2> SUFFICES ASSUME Clean', Live(UsbFs), NEW i \in BusSlots,
                      NEW d \in Devices,
                      Node(i, d) \in tree, Node(i, d) # p
               PROVE  \/ Node(i, d) \in known \/ ToList(i, d)'
                      \/ Live(BusDir(i))' /\ Pending(i, d)'
    BY <1>1, <1>7 DEF Reported
  <2>1. ToList(i, d) => ToList(i, d)'
    BY <1>1, <1>6 DEF ToList
  <2>2. BusDir(i) # p
    BY <1>4, Parents
  <2> QED
    BY <1>3, <1>6, <1>7, <2>1, <2>2 DEF Reported
<1>14. Forgotten'
  <2> SUFFICES ASSUME Clean', NEW b \in Busses, NEW d \in Devices,
                      Node(b, d) \in (known \cup nodeNames) \ (tree' \cup unseen')
               PROVE  b \in Slots /\ wds[b] # NoWatch /\ Pending(b, d)'
    BY <1>1 DEF Forgotten
  <2>1. CASE Node(b, d) # p
    BY <1>1, <1>3, <1>6, <2>1 DEF Forgotten
  <2>2. CASE Node(b, d) = p
    <3>1. Live(BusDir(b)) /\ Parent(p) = BusDir(b) /\ Name(p) = d
      BY <1>1, <2>2, Parents, Names DEF Nodes
    <3>2. PICK i \in Slots : BusDir(b) = Dir(i)
      BY <1>3, <3>1, Apart DEF Watching, Live
    <3>3. i = b /\ b \in Slots
      <4>1. i # 0
        BY <3>2, Dirs, Apart
      <4> QED
        BY <3>2, <4>1, SameBus DEF Dir
    <3>4. /\ Live(Dir(b)) /\ Parent(p) = Dir(b) /\ wds[b] = watch[Dir(b)]
          /\ watch[Dir(b)] \in 1 .. lastWd
      BY <1>3, <3>1, <3>2, <3>3 DEF Watching, Live
    <3>5. wds[b] # NoWatch
      BY <3>4 DEF NoWatch
    <3>6. \E j \in 1 .. Len(queue') :
            /\ queue'[j].wd = wds[b] /\ queue'[j].mask = "IN_DELETE"
            /\ queue'[j].name = d
      BY <1>2, <1>3, <1>5, <3>1, <3>3, <3>4, NewEvent
    <3> QED
      BY <1>1, <1>2, <3>3, <3>5, <3>6 DEF Pending, About
  <2> QED
    BY <2>1, <2>2
<1> QED
  BY <1>8, <1>9, <1>10, <1>11, <1>12, <1>13, <1>14 DEF UsbHostIInv

-----------------------------------------------------------------------------
(* Notifications.                                                          *)

LEMMA AnnouncedStays ==
  ASSUME Typed, Watching, Watching', Clean', Slotting, NEW k, Reading(k),
         NEW i, Announced(i),
         \A j \in 1 .. k :
           queue[j].wd # wds[0] \/ queue[j].name # i \/ queue[j].mask # "IN_CREATE"
  PROVE  Announced(i)'
<1>1. PICK j \in 1 .. Len(queue) :
        queue[j].wd = wds[0] /\ queue[j].name = i /\ queue[j].mask = "IN_CREATE"
  BY DEF Announced
<1>2. j \in k + 1 .. Len(queue) /\ 0 \in Slots
  <2>1. Len(queue) \in Nat /\ k \in {0, 1} /\ ~(j \in 1 .. k)
    BY <1>1, LenProperties DEF Reading, Typed
  <2> QED
    BY <2>1, UsbHostAssumption DEF Slots
<1>3. /\ wds'[0] = wds[0] /\ j - k \in 1 .. Len(queue')
      /\ queue'[j - k] = queue[j]
  BY <1>1, <1>2, Survives
<1> QED
  BY <1>1, <1>3 DEF Announced

LEMMA PendingStays ==
  ASSUME Typed, Watching, Watching', Clean', Slotting, NEW k, Reading(k),
         NEW i \in Slots, NEW d, NEW j \in k + 1 .. Len(queue),
         About(j, wds[i], d)
  PROVE  Pending(i, d)'
<1>1. /\ wds'[i] = wds[i] /\ j - k \in 1 .. Len(queue')
      /\ queue'[j - k] = queue[j]
  BY Survives DEF About
<1>2. PICK m \in 1 .. Len(queue') : queue'[m] = queue[j]
  BY <1>1
<1>3. About(m, wds[i], d)'
  BY <1>1, <1>2 DEF About
<1> QED
  BY <1>2, <1>3 DEF Pending

LEMMA Reads ==
  ASSUME Typed, queue # <<>>, Read(Head(queue))
  PROVE  /\ Len(queue) \in Nat /\ 1 \in 1 .. Len(queue)
         /\ Head(queue) = queue[1]
         /\ Unread \in Seq(Events)
         /\ \A j \in 1 .. Len(Unread) : \E k \in 1 .. Len(queue) :
              Unread[j] = queue[k]
         /\ ~missed' /\ queue' = Unread => Reading(1)
<1> DEFINE m == EventsPerRead + 1
           n == Len(queue)
<1>1. /\ Len(queue) \in Nat \ {0} /\ Head(queue) = queue[1]
      /\ EventsPerRead \in Nat \ {0}
  BY EmptySeq, UsbHostAssumption DEF Typed
<1>2. m \in Int /\ n \in Int /\ m >= 2
  BY <1>1
<1>3. \A j \in m .. n : j \in 1 .. Len(queue) /\ queue[j] \in Events
  BY <1>1, <1>2, ElementOfSeq DEF Typed
<1>4. Unread = SubSeq(queue, m, n)
  BY DEF Unread
<1> HIDE DEF m, n
<1>5. /\ Unread \in Seq(Events)
      /\ Len(Unread) = IF m <= n THEN n - m + 1 ELSE 0
      /\ \A j \in 1 .. n - m + 1 : Unread[j] = queue[m + j - 1]
  BY <1>2, <1>3, <1>4, SubSeqProperties
<1>6. ASSUME NEW j \in 1 .. Len(Unread)
      PROVE  \E k \in 1 .. Len(queue) : Unread[j] = queue[k]
  <2>1. j \in 1 .. n - m + 1 /\ m + j - 1 \in m .. n
    BY <1>2, <1>5
  <2> QED
    BY <1>3, <1>5, <2>1
<1>7. ASSUME ~missed', queue' = Unread PROVE Reading(1)
  <2>1. /\ ~missed /\ (Len(queue) = 1 \/ EventsPerRead = 1)
        /\ queue[1].wd \in {wdd} \cup Range(wds)
    <3>1. ~(missed \/ (Len(queue) > 1 /\ EventsPerRead > 1)
                   \/ Head(queue).wd \notin {wdd} \cup Range(wds))
      BY <1>7 DEF Read
    <3>2. ~missed /\ ~(Len(queue) > 1 /\ EventsPerRead > 1)
      BY <3>1
    <3>3. Head(queue).wd \in {wdd} \cup Range(wds)
      BY <3>1
    <3>4. ~(Len(queue) > 1) \/ ~(EventsPerRead > 1)
      BY <3>2
    <3>5. Len(queue) = 1 \/ EventsPerRead = 1
      BY <1>1, <3>4
    <3> QED
      BY <1>1, <3>2, <3>3, <3>5
  <2>2. Len(queue') = Len(queue) - 1
    <3>1. Len(queue') = IF m <= n THEN n - m + 1 ELSE 0
      BY <1>5, <1>7
    <3>2. m = EventsPerRead + 1 /\ n = Len(queue)
      BY DEF m, n
    <3> QED
      BY <1>1, <2>1, <3>1, <3>2
  <2>3. ASSUME NEW j \in 1 .. Len(queue') PROVE queue'[j] = queue[j + 1]
    <3>1. j \in 1 .. n - m + 1 /\ m + j - 1 = j + 1
      BY <1>1, <1>2, <2>1, <2>2 DEF m, n
    <3> QED
      BY <1>5, <1>7, <3>1
  <2>4. \A j \in 1 .. 1 : j = 1
    OBVIOUS
  <2> QED
    BY <1>1, <2>1, <2>2, <2>3, <2>4 DEF Reading, Shifted
<1> QED
  BY <1>1, <1>5, <1>6, <1>7

(* What comes under one slot does not come under another.                  *)
LEMMA OneSlot ==
  ASSUME Typed, Watching, NEW j \in 1 .. Len(queue),
         NEW i \in Slots, NEW m \in Slots, queue[j].wd = wds[i], i # m
  PROVE  queue[j].wd # wds[m] /\ queue[j].wd # wdd
<1>1. wds[i] # NoWatch
  BY DEF Typed, NoWatch
<1> QED
  BY <1>1 DEF Watching

LEMMA AddedBus ==
  ASSUME UsbHostIInv, pc = "read", queue # <<>>, BusAdded(Head(queue))
  PROVE  UsbHostIInv'
<1> PICK event : event = Head(queue)
  OBVIOUS
<1> PICK s : s = event.name
  OBVIOUS
<1>1. /\ Read(Head(queue)) /\ event.wd = wds[0] /\ event.mask = "IN_CREATE"
      /\ s \in BusSlots /\ s \in Slots
      /\ AddWatch(BusDir(s)) /\ queue' = Unread /\ busNames' = {s}
      /\ wds' = IF Watched(BusDir(s)) = NoWatch THEN wds
                ELSE [wds EXCEPT ![s] = Watched(BusDir(s))]
      /\ pc' = "busses"
      /\ UNCHANGED <<tree, changes, slot, nodeNames, done, discovered, known,
                     unseen>>
  BY DEF BusAdded, Slotted, Goto, BusSlots
<1>2. /\ Typed /\ Watching /\ Named /\ Told /\ Covered /\ Reported /\ Forgotten
      /\ pc \notin {"start", "returned"}
  BY DEF UsbHostIInv
<1>3. /\ Len(queue) \in Nat /\ 1 \in 1 .. Len(queue) /\ event = queue[1]
      /\ queue' \in Seq(Events)
      /\ \A j \in 1 .. Len(queue') : \E k \in 1 .. Len(queue) :
           queue'[j] = queue[k]
      /\ ~missed' => Reading(1)
  BY <1>1, <1>2, Reads
<1>4. Slotted1(s)
  <2>1. Dir(s) = BusDir(s) /\ s # 0
    BY <1>1, Dirs
  <2>2. wds \in [Slots -> {NoWatch} \cup 1 .. lastWd]
    BY <1>2 DEF Watching
  <2> QED
    BY <1>1, <2>1, <2>2 DEF Slotted1
<1>5. /\ Watching' /\ Slotting /\ lastWd' \in {lastWd, lastWd + 1}
      /\ \A p : Live(p) => Live(p)'
      /\ \A i \in Slots :
           Live(Dir(i))' => Live(Dir(i)) \/ wds'[i] = lastWd + 1
      /\ Dir(s) \in tree => Live(Dir(s))'
      /\ \A i \in Slots : i # s \/ Live(Dir(i)) => wds'[i] = wds[i]
  BY <1>1, <1>2, <1>4, Watches
<1>6. Typed'
  <2>1. /\ lastWd' \in Nat
        /\ \A j \in 1 .. Len(queue') :
             queue'[j].wd \in 1 .. lastWd'
    <3>1. lastWd \in Nat /\ \A k \in 1 .. Len(queue) : queue[k].wd \in 1 .. lastWd
      BY <1>2 DEF Typed
    <3>2. lastWd' \in Nat /\ lastWd <= lastWd'
      BY <1>5, <3>1
    <3>3. \A j \in 1 .. Len(queue') : queue'[j].wd \in 1 .. lastWd
      BY <1>3, <3>1
    <3> QED
      BY <3>1, <3>2, <3>3
  <2>2. busNames' \subseteq Nat \ {0} /\ missed' \in BOOLEAN
    BY <1>1, <1>2, UsbHostAssumption DEF BusSlots, Slots, Read, Typed
  <2> QED
    BY <1>1, <1>2, <1>3, <2>1, <2>2 DEF Typed
<1>7. Named'
  BY <1>2, <1>3, <1>5, NamedAfter
<1>8. Clean' => Reading(1) /\ Clean
  BY <1>2, <1>3, <1>5, CleanBefore DEF Clean
<1>9. Told'
  <2>1. Clean' => Told'
    BY <1>1, <1>2, <1>5, <1>8, ToldAfter
  <2> QED
    BY <2>1 DEF Told
<1>10. \A i \in BusSlots : queue[1].wd # wds[i] /\ i \in Slots /\ i # 0
  <2>1. 0 \in Slots /\ \A i \in BusSlots : i \in Slots /\ i # 0
    BY UsbHostAssumption DEF Slots, BusSlots
  <2> QED
    BY <1>1, <1>2, <1>3, <2>1, OneSlot
<1>11. ASSUME Clean', NEW i, i # s, Announced(i) PROVE Announced(i)'
  BY <1>1, <1>2, <1>3, <1>5, <1>8, <1>11, AnnouncedStays
<1>12. Live(UsbFs)' => Live(UsbFs)
  <2>1. 0 \in Slots /\ s # 0 /\ Dir(0) = UsbFs
    BY <1>1, Dirs, UsbHostAssumption DEF Slots
  <2>2. wds[0] # lastWd + 1
    BY <1>2, <2>1 DEF Watching, Typed, NoWatch
  <2> QED
    BY <1>5, <2>1, <2>2
<1>13. Covered'
  <2> SUFFICES ASSUME Clean', Live(UsbFs)', NEW i \in BusSlots,
                      BusDir(i) \in tree
               PROVE  Live(BusDir(i))' \/ Announced(i)'
    BY <1>1 DEF Covered
  <2>1. CASE i = s
    BY <1>1, <1>5, <2>1, Dirs
  <2>2. CASE i # s
    <3>1. Live(BusDir(i)) \/ Announced(i)
      BY <1>2, <1>8, <1>12 DEF Covered
    <3> QED
      BY <1>5, <1>11, <2>2, <3>1
  <2> QED
    BY <2>1, <2>2
<1>14. Reported'
  <2> SUFFICES ASSUME Clean', Live(UsbFs)', NEW i \in BusSlots,
                      NEW d \in Devices,
                      Node(i, d) \in tree
               PROVE  \/ Node(i, d) \in known' \/ ToList(i, d)'
                      \/ Live(BusDir(i))' /\ Pending(i, d)'
    BY <1>1 DEF Reported
  <2>1. CASE i = s
    BY <1>1, <2>1 DEF ToList
  <2>2. CASE i # s
    <3>1. \/ Node(i, d) \in known \/ ToList(i, d)
          \/ Live(BusDir(i)) /\ Pending(i, d)
      BY <1>2, <1>8, <1>12 DEF Reported
    <3>2. ToList(i, d) => Announced(i)
      BY <1>2 DEF ToList, Typed
    <3>3. Announced(i)' => ToList(i, d)'
      BY DEF ToList
    <3>4. ASSUME Pending(i, d) PROVE Pending(i, d)'
      <4>1. PICK j \in 1 .. Len(queue) : About(j, wds[i], d)
        BY <3>4 DEF Pending
      <4>2. j \in 1 + 1 .. Len(queue)
        BY <1>3, <1>10, <4>1 DEF About
      <4> QED
        BY <1>2, <1>5, <1>8, <1>10, <4>1, <4>2, PendingStays
    <3> QED
      BY <1>1, <1>5, <1>11, <2>2, <3>1, <3>2, <3>3, <3>4
  <2> QED
    BY <2>1, <2>2
<1>15. Forgotten'
  <2>1. ASSUME Clean' PROVE Forgotten'
    <3>1. \A j \in 1 .. 1, i \in BusSlots :
            queue[j].wd # wds[i] \/ queue[j].mask = "IN_IGNORED"
      BY <1>10
    <3> QED
      BY <1>1, <1>2, <1>5, <1>8, <2>1, <3>1, ForgottenAfter
  <2> QED
    BY <2>1 DEF Forgotten
<1> QED
  BY <1>5, <1>6, <1>7, <1>9, <1>13, <1>14, <1>15 DEF UsbHostIInv

(* A notification is read and no watch comes or goes.                      *)
LEMMA Taken ==
  ASSUME UsbHostIInv, pc = "read", queue # <<>>, Read(Head(queue)),
         queue' = Unread, UNCHANGED <<tree, watch, lastWd, wds, unseen>>
  PROVE  /\ Watching' /\ Named' /\ Told'
         /\ queue' \in Seq(Events) /\ missed' \in BOOLEAN
         /\ \A j \in 1 .. Len(queue') : queue'[j].wd \in 1 .. lastWd
         /\ Len(queue) \in Nat /\ 1 \in 1 .. Len(queue)
         /\ Head(queue) = queue[1]
         /\ Clean' => Reading(1) /\ Clean
         /\ \A i : \/ ~Clean' \/ ~Announced(i) \/ Announced(i)'
                   \/ /\ queue[1].wd = wds[0] /\ queue[1].name = i
                      /\ queue[1].mask = "IN_CREATE"
         /\ \A i \in Slots : \A d, j :
              Clean' /\ About(j, wds[i], d) => j = 1 \/ Pending(i, d)'
<1>1. Typed /\ Watching /\ Named /\ Told
  BY DEF UsbHostIInv
<1>2. /\ Len(queue) \in Nat /\ 1 \in 1 .. Len(queue)
      /\ Head(queue) = queue[1] /\ queue' \in Seq(Events)
      /\ \A j \in 1 .. Len(queue') : \E k \in 1 .. Len(queue) :
           queue'[j] = queue[k]
      /\ ~missed' => Reading(1)
  BY <1>1, Reads
<1>3. Slotting
  BY DEF Slotting
<1>4. Watching'
  <2>1. Live(Dev) /\ (Live(Dev) <=> Live(Dev)')
    BY <1>1 DEF Watching, Live
  <2>2. \A i \in Slots : Live(Dir(i)) <=> Live(Dir(i))'
    BY DEF Live
  <2> QED
    BY <1>1, <2>1, <2>2 DEF Watching
<1>5. Clean' => Reading(1) /\ Clean
  BY <1>1, <1>2, <1>3, <1>4, CleanBefore DEF Clean
<1>6. Named'
  BY <1>1, <1>2, <1>3, NamedAfter
<1>7. Told'
  <2>1. \A i \in Slots : Live(Dir(i)) <=> Live(Dir(i))'
    BY DEF Live
  <2>2. Clean' => Told'
    BY <1>1, <1>3, <1>4, <1>5, <2>1, ToldAfter
  <2> QED
    BY <2>2 DEF Told
<1>8. missed' \in BOOLEAN
  BY DEF Read
<1>9. \A j \in 1 .. Len(queue') : queue'[j].wd \in 1 .. lastWd
  BY <1>1, <1>2 DEF Typed
<1>10. ASSUME NEW i, Clean', Announced(i),
              \/ queue[1].wd # wds[0] \/ queue[1].name # i
              \/ queue[1].mask # "IN_CREATE"
       PROVE  Announced(i)'
  <2>1. \A j \in 1 .. 1 : j = 1
    OBVIOUS
  <2>2. \A j \in 1 .. 1 : \/ queue[j].wd # wds[0] \/ queue[j].name # i
                          \/ queue[j].mask # "IN_CREATE"
    BY <1>10, <2>1
  <2> QED
    BY <1>1, <1>3, <1>4, <1>5, <1>10, <2>2, AnnouncedStays
<1>11. ASSUME NEW i \in Slots, NEW d, NEW j, Clean', About(j, wds[i], d), j # 1
       PROVE  Pending(i, d)'
  <2>1. j \in 1 + 1 .. Len(queue)
    BY <1>2, <1>11 DEF About
  <2> QED
    BY <1>1, <1>3, <1>4, <1>5, <1>11, <2>1, PendingStays
<1> QED
  BY <1>2, <1>4, <1>5, <1>6, <1>7, <1>8, <1>9, <1>10, <1>11

LEMMA Disregarded ==
  ASSUME UsbHostIInv, pc = "read", queue # <<>>, Disregard(Head(queue))
  PROVE  UsbHostIInv'
<1>1. /\ Read(Head(queue)) /\ queue' = Unread
      /\ UNCHANGED <<tree, watch, lastWd, changes, pc, wds, slot, busNames,
                     nodeNames, done, discovered, known, unseen>>
      /\ \/ Head(queue).mask = "IN_IGNORED"
         \/ Head(queue).wd \notin {wdd} \cup Range(wds)
         \/ Head(queue).wd = wds[0] /\ Head(queue).name \notin BusSlots
  BY DEF Disregard, Slotted, locals, BusSlots
<1>2. Typed /\ Watching /\ Covered /\ Reported /\ Forgotten
  BY DEF UsbHostIInv
<1>3. /\ Watching' /\ Named' /\ Told'
      /\ queue' \in Seq(Events) /\ missed' \in BOOLEAN
      /\ \A j \in 1 .. Len(queue') : queue'[j].wd \in 1 .. lastWd
      /\ Len(queue) \in Nat /\ 1 \in 1 .. Len(queue)
      /\ Head(queue) = queue[1]
      /\ Clean' => Reading(1) /\ Clean
      /\ \A i : \/ ~Clean' \/ ~Announced(i) \/ Announced(i)'
                \/ /\ queue[1].wd = wds[0] /\ queue[1].name = i
                   /\ queue[1].mask = "IN_CREATE"
      /\ \A i \in Slots : \A d, j :
           Clean' /\ About(j, wds[i], d) => j = 1 \/ Pending(i, d)'
  BY <1>1, Taken
<1>4. Typed'
  BY <1>1, <1>2, <1>3 DEF Typed
<1>5. 0 \in Slots /\ \A i \in BusSlots : i \in Slots /\ i # 0
  BY UsbHostAssumption DEF Slots, BusSlots
<1>6. \A i \in Slots : wds[i] \in Range(wds)
  BY <1>2, InRange
<1>7. \A i \in BusSlots :
        queue[1].wd # wds[i] \/ queue[1].mask = "IN_IGNORED"
  BY <1>1, <1>2, <1>3, <1>5, <1>6, OneSlot
<1>8. \A i \in BusSlots : Clean' /\ Announced(i) => Announced(i)'
  BY <1>1, <1>3, <1>5, <1>6
<1>9. \A i \in BusSlots : \A d : Clean' /\ Pending(i, d) => Pending(i, d)'
  BY <1>3, <1>5, <1>7 DEF Pending, About
<1>10. \A p : Live(p) <=> Live(p)'
  BY <1>1 DEF Live
<1>11. Covered'
  BY <1>1, <1>2, <1>3, <1>8, <1>10 DEF Covered
<1>12. Reported'
  <2>1. \A i \in BusSlots : \A d : Clean' /\ ToList(i, d) => ToList(i, d)'
    BY <1>1, <1>8 DEF ToList
  <2> QED
    BY <1>1, <1>2, <1>3, <1>9, <1>10, <2>1 DEF Reported
<1>13. Forgotten'
  <2>1. ASSUME Clean' PROVE Forgotten'
    <3>1. \A j \in 1 .. 1, i \in BusSlots :
            queue[j].wd # wds[i] \/ queue[j].mask = "IN_IGNORED"
      BY <1>7
    <3>2. Slotting
      BY <1>1 DEF Slotting
    <3> QED
      BY <1>1, <1>2, <1>3, <2>1, <3>1, <3>2, ForgottenAfter
  <2> QED
    BY <2>1 DEF Forgotten
<1> QED
  BY <1>3, <1>4, <1>11, <1>12, <1>13 DEF UsbHostIInv

(* /dev/bus comes: the directories are tried again.                        *)
LEMMA BusCame ==
  ASSUME UsbHostIInv, pc = "read", queue # <<>>, BusChanged(Head(queue)),
         Head(queue).mask = "IN_CREATE"
  PROVE  UsbHostIInv'
<1>1. /\ Read(Head(queue)) /\ queue' = Unread /\ pc' = "watch" /\ slot' = 0
      /\ UNCHANGED <<tree, watch, lastWd, changes, wds, busNames,
                     nodeNames, done, discovered, known, unseen>>
      /\ Head(queue).wd = wdd
  BY DEF BusChanged, Goto
<1>2. Typed /\ Watching /\ Forgotten
  BY DEF UsbHostIInv
<1>3. /\ Watching' /\ Named' /\ Told'
      /\ queue' \in Seq(Events) /\ missed' \in BOOLEAN
      /\ \A j \in 1 .. Len(queue') : queue'[j].wd \in 1 .. lastWd
      /\ Head(queue) = queue[1]
      /\ Clean' => Reading(1)
  BY <1>1, Taken
<1>4. 0 \in Slots /\ \A i \in BusSlots : i \in Slots /\ 0 <= i
  BY UsbHostAssumption DEF Slots, BusSlots
<1>5. Typed'
  BY <1>1, <1>2, <1>3, <1>4 DEF Typed
<1>6. Covered' /\ Reported'
  BY <1>1, <1>4 DEF Covered, Reported, ToList
<1>7. Forgotten'
  <2>1. ASSUME Clean' PROVE Forgotten'
    <3>1. \A j \in 1 .. 1, i \in BusSlots : queue[j].wd # wds[i]
      BY <1>1, <1>2, <1>3, <1>4 DEF Watching
    <3>2. Slotting
      BY <1>1 DEF Slotting
    <3> QED
      BY <1>1, <1>2, <1>3, <2>1, <3>1, <3>2, ForgottenAfter
  <2> QED
    BY <2>1 DEF Forgotten
<1> QED
  BY <1>3, <1>5, <1>6, <1>7 DEF UsbHostIInv

(* A device comes or goes: what else is queued about it tells more.        *)
LEMMA DeviceCame ==
  ASSUME UsbHostIInv, pc = "read", queue # <<>>, DeviceChanged(Head(queue))
  PROVE  UsbHostIInv'
<1> PICK d0 : d0 = Head(queue).name
  OBVIOUS
<1>1. PICK s \in BusSlots :
        /\ Head(queue).wd = wds[s]
        /\ \/ /\ Head(queue).mask = "IN_CREATE"
              /\ known' = known \cup {Node(s, d0)}
           \/ /\ Head(queue).mask = "IN_DELETE"
              /\ known' = known \ {Node(s, d0)}
  BY DEF DeviceChanged, BusSlots
<1>2. /\ Read(Head(queue)) /\ queue' = Unread
      /\ done' \in Answers /\ pc' = IF done' THEN "returned" ELSE "read"
      /\ UNCHANGED <<tree, watch, lastWd, changes, wds, slot, busNames,
                     nodeNames, discovered, unseen>>
  BY DEF DeviceChanged, Goto
<1>3. /\ Typed /\ Watching /\ Named /\ Told /\ Covered /\ Reported
      /\ Forgotten
  BY DEF UsbHostIInv
<1>4. /\ Watching' /\ Named' /\ Told'
      /\ queue' \in Seq(Events) /\ missed' \in BOOLEAN
      /\ \A j \in 1 .. Len(queue') : queue'[j].wd \in 1 .. lastWd
      /\ Len(queue) \in Nat /\ 1 \in 1 .. Len(queue)
      /\ Head(queue) = queue[1]
      /\ Clean' => Reading(1) /\ Clean
      /\ \A i : \/ ~Clean' \/ ~Announced(i) \/ Announced(i)'
                \/ /\ queue[1].wd = wds[0] /\ queue[1].name = i
                   /\ queue[1].mask = "IN_CREATE"
      /\ \A i \in Slots : \A d, j :
           Clean' /\ About(j, wds[i], d) => j = 1 \/ Pending(i, d)'
  BY <1>2, Taken
<1>5. 0 \in Slots /\ \A i \in BusSlots : i \in Slots /\ i # 0
  BY UsbHostAssumption DEF Slots, BusSlots
<1>6. /\ queue[1].wd = wds[s] /\ queue[1].mask # "IN_IGNORED"
      /\ \A i \in Slots : queue[1].wd = wds[i] => i = s
  BY <1>1, <1>3, <1>4, <1>5, OneSlot
<1>7. wds[s] # NoWatch /\ s \in Busses
  <2>1. wds[s] # NoWatch
    BY <1>3, <1>4, <1>6 DEF Typed, NoWatch
  <2> QED
    BY <1>3, <1>5, <2>1 DEF Watching
<1>8. d0 \in Devices /\ About(1, wds[s], d0)
  BY <1>3, <1>4, <1>6, <1>7 DEF Named, About
<1>9. Node(s, d0) \in Nodes
  BY <1>7, <1>8 DEF Nodes
<1>10. Typed'
  <2>1. done' \in BOOLEAN
    BY <1>2, UsbHostAssumption
  <2>2. pc' \in {"returned", "read"} /\ (pc' = "read" => ~done')
    BY <1>2
  <2>3. known' \subseteq Nodes
    BY <1>1, <1>3, <1>9 DEF Typed
  <2> QED
    BY <1>2, <1>3, <1>4, <2>1, <2>2, <2>3 DEF Typed
<1>11. \A i : Clean' /\ Announced(i) => Announced(i)'
  BY <1>4, <1>5, <1>6
<1>12. \A p : Live(p) <=> Live(p)'
  BY <1>2 DEF Live
<1>13. ASSUME NEW i \in BusSlots, NEW d, NEW j, Clean', About(j, wds[i], d)
       PROVE  Pending(i, d)' \/ (i = s /\ d = d0)
  BY <1>4, <1>5, <1>6, <1>13 DEF About
(* Of two about the same device the first is not the last.                 *)
<1>14. ASSUME Clean', \/ /\ queue[1].mask = "IN_CREATE"
                         /\ ~(Live(BusDir(s)) /\ Node(s, d0) \in tree)
                      \/ /\ queue[1].mask # "IN_CREATE"
                         /\ Live(BusDir(s)) /\ Node(s, d0) \in tree
       PROVE  Pending(s, d0)'
  <2>1. ~ \A k \in 1 .. Len(queue) : About(k, wds[s], d0) => k <= 1
    BY <1>3, <1>4, <1>7, <1>8, <1>14 DEF Told
  <2>2. PICK k \in 1 .. Len(queue) : About(k, wds[s], d0) /\ k # 1
    BY <2>1
  <2> QED
    BY <1>4, <1>5, <1>14, <2>2
<1>15. Covered'
  <2> SUFFICES ASSUME Clean', Live(UsbFs)', NEW i \in BusSlots,
                      BusDir(i) \in tree
               PROVE  Live(BusDir(i))' \/ Announced(i)'
    BY <1>2 DEF Covered
  <2>1. Live(BusDir(i)) \/ Announced(i)
    BY <1>3, <1>4, <1>12 DEF Covered
  <2> QED
    BY <1>11, <1>12, <2>1
<1>16. Reported'
  <2> SUFFICES ASSUME Clean', Live(UsbFs)', NEW i \in BusSlots,
                      NEW d \in Devices, Node(i, d) \in tree
               PROVE  \/ Node(i, d) \in known' \/ ToList(i, d)'
                      \/ Live(BusDir(i))' /\ Pending(i, d)'
    BY <1>2 DEF Reported
  <2>1. \/ Node(i, d) \in known \/ ToList(i, d)
        \/ Live(BusDir(i)) /\ Pending(i, d)
    BY <1>3, <1>4, <1>12 DEF Reported
  <2>2. ToList(i, d) => Announced(i)
    BY <1>3 DEF ToList, Typed
  <2>3. Announced(i) => ToList(i, d)'
    BY <1>11 DEF ToList
  <2>4. CASE i = s /\ d = d0
    <3>1. CASE Node(i, d) \in known'
      BY <3>1
    <3>2. CASE Node(i, d) \notin known'
      <4>1. queue[1].mask # "IN_CREATE"
        BY <1>1, <1>4, <2>4, <3>2
      <4>2. BusDir(s) \in tree
        <5>1. /\ Node(i, d) \in Paths /\ Parent(Node(i, d)) = BusDir(i)
              /\ BusDir(i) # Dev
          BY <1>9, <2>4, Parents, Apart DEF Paths
        <5> QED
          BY <1>3, <2>4, <5>1 DEF Typed
      <4>3. CASE Live(BusDir(s))
        BY <1>12, <1>14, <2>4, <4>1, <4>3
      <4>4. CASE ~Live(BusDir(s))
        <5>1. Announced(s)
          BY <1>3, <1>4, <1>12, <4>2, <4>4 DEF Covered
        <5> QED
          BY <2>3, <2>4, <5>1
      <4> QED
        BY <4>3, <4>4
    <3> QED
      BY <3>1, <3>2
  <2>5. CASE ~(i = s /\ d = d0)
    <3>1. Node(i, d) # Node(s, d0)
      BY <2>5, SameBus
    <3>2. Node(i, d) \in known => Node(i, d) \in known'
      BY <1>1, <3>1
    <3>3. Pending(i, d) => Pending(i, d)'
      BY <1>13, <2>5 DEF Pending
    <3> QED
      BY <1>12, <2>1, <2>2, <2>3, <3>2, <3>3
  <2> QED
    BY <2>4, <2>5
<1>17. Forgotten'
  <2> SUFFICES ASSUME Clean', NEW b \in Busses, NEW d \in Devices,
                      Node(b, d) \in (known' \cup nodeNames') \ (tree \cup unseen)
               PROVE  b \in Slots /\ wds[b] # NoWatch /\ Pending(b, d)'
    BY <1>2 DEF Forgotten
  <2>1. Node(b, d) \in known'
    BY <1>2, <1>3 DEF Typed
  <2>2. CASE b = s /\ d = d0
    <3>1. queue[1].mask = "IN_CREATE"
      BY <1>1, <1>4, <2>1, <2>2
    <3> QED
      BY <1>5, <1>7, <1>14, <2>2, <3>1
  <2>3. CASE ~(b = s /\ d = d0)
    <3>1. Node(b, d) # Node(s, d0)
      BY <2>3, SameBus
    <3>2. Node(b, d) \in known
      BY <1>1, <2>1, <3>1
    <3>3. b \in Slots /\ wds[b] # NoWatch /\ Pending(b, d)
      BY <1>3, <1>4, <3>2 DEF Forgotten
    <3>4. b \in BusSlots
      BY <3>3, UsbHostAssumption DEF BusSlots
    <3> QED
      BY <1>13, <2>3, <3>3, <3>4 DEF Pending
  <2> QED
    BY <2>2, <2>3
<1> QED
  BY <1>4, <1>10, <1>15, <1>16, <1>17 DEF UsbHostIInv

(* A finite set, one element after the other.                              *)
LEMMA OnceEach ==
  ASSUME NEW S, IsFiniteSet(S)
  PROVE  /\ SetToSeq(S) \in Seq(S)
         /\ Len(SetToSeq(S)) = 0 <=> S = {}
<1> PICK n : n = Cardinality(S)
  OBVIOUS
<1>1. n \in Nat /\ ExistsBijection(1 .. n, S) /\ (n = 0 <=> S = {})
  BY FS_CardinalityType, FS_EmptySet
<1>2. PICK f \in [1 .. n -> S] : IsInjective(f)
  BY <1>1 DEF ExistsBijection, Bijection, Injection
<1>3. SetToSeq(S) \in [1 .. n -> S]
  BY <1>2 DEF SetToSeq
<1>4. SetToSeq(S) \in Seq(S) /\ Len(SetToSeq(S)) = n
  <2> DEFINE s == SetToSeq(S)
  <2> HIDE DEF s
  <2>1. s \in [1 .. n -> S]
    BY <1>3 DEF s
  <2>2. s \in Seq(S) /\ Len(s) = n
    BY <1>1, <2>1, SeqDef, LenProperties
  <2> QED
    BY <2>2 DEF s
<1> QED
  BY <1>1, <1>4

(* The ends of the watches in gone, as the kernel announces them.          *)
Ends(gone) == {Ignored(watch[p]) : p \in {q \in DOMAIN watch : watch[q] \in gone}}

LEMMA EndsOf ==
  ASSUME Typed, Watching, NEW gone
  PROVE  /\ IsFiniteSet(Ends(gone))
         /\ \A e \in Ends(gone) :
              /\ e \in Events /\ e.mask = "IN_IGNORED"
              /\ e.wd \in 1 .. lastWd /\ e.wd \in gone
         /\ Ends(gone) = {} <=> \A p : Live(p) => watch[p] \notin gone
<1> DEFINE live == {q \in DOMAIN watch : watch[q] \in gone}
           f == [p \in live |-> Ignored(watch[p])]
           T == Ends(gone)
<1>1. IsFiniteSet(live)
  BY FS_Subset DEF Watching
<1>2. f \in Surjection(live, T)
  <2>1. f \in [live -> T]
    BY DEF Ends
  <2>2. \A t \in T : \E p \in live : f[p] = t
    BY DEF Ends
  <2> HIDE DEF f, live, T
  <2> QED
    BY <2>1, <2>2 DEF Surjection
<1>3. IsFiniteSet(T)
  <2> HIDE DEF f, live, T
  <2> QED
    BY <1>1, <1>2, FS_Surjection
<1>4. ASSUME NEW e \in T
      PROVE  /\ e \in Events /\ e.mask = "IN_IGNORED"
             /\ e.wd \in 1 .. lastWd /\ e.wd \in gone
  <2>1. PICK p \in live : e = Ignored(watch[p])
    BY DEF Ends
  <2>2. watch[p] \in 1 .. lastWd /\ watch[p] \in gone /\ watch[p] \in Nat
    BY DEF Watching, Typed
  <2> QED
    BY <2>1, <2>2 DEF Ignored, Event, Events, Masks
<1>5. T = {} <=> \A p : Live(p) => watch[p] \notin gone
  BY DEF Ends, Live
<1> QED
  BY <1>3, <1>4, <1>5

(* Slots are given up, and the watches with their descriptors.             *)
LEMMA Drops ==
  ASSUME Typed, Watching, pc = "read", pc' = pc, queue # <<>>,
         Read(Head(queue)),
         UNCHANGED <<tree, lastWd>>, NEW gone \in SUBSET Range(wds),
         RmWatches(gone),
         wds' = [i \in Slots |-> IF wds[i] \in gone THEN NoWatch ELSE wds[i]]
  PROVE  /\ Watching' /\ Slotting /\ queue' \in Seq(Events)
         /\ \A j \in 1 .. Len(queue') :
              \/ \E k \in 1 .. Len(queue) : queue'[j] = queue[k]
              \/ /\ queue'[j].mask = "IN_IGNORED"
                 /\ queue'[j].wd \in 1 .. lastWd
         /\ \A p : Live(p)' <=> Live(p) /\ watch[p] \notin gone
         /\ Clean' => /\ queue' = Unread
                      /\ \A p : Live(p) => Live(p)' /\ watch[p] \notin gone
<1>1. /\ watch' = [p \in DOMAIN watch \ {q \in DOMAIN watch : watch[q] \in gone}
                     |-> watch[p]]
      /\ queue' = Unread \o SetToSeq(Ends(gone))
  BY DEF RmWatches, Ends
<1>2. \A p : Live(p)' <=> Live(p) /\ watch[p] \notin gone
  BY <1>1 DEF Live
<1>3. \A p : Live(p)' => watch'[p] = watch[p]
  BY <1>1 DEF Live
<1>4. Slotting
  BY DEF Slotting
<1>5. \A i \in Slots : /\ wds[i] \in gone => wds'[i] = NoWatch
                       /\ wds[i] \notin gone => wds'[i] = wds[i]
  OBVIOUS
<1>6. wdd \notin gone
  BY InRange DEF Watching
<1>7. Watching'
  <2>1. IsFiniteSet(DOMAIN watch')
    BY <1>1, FS_Subset DEF Watching
  <2>2. \A p \in DOMAIN watch' :
          /\ p = Dev \/ (p \in tree /\ \E i \in Slots : p = Dir(i))
          /\ watch'[p] \in 1 .. lastWd
    BY <1>2, <1>3 DEF Watching, Live
  <2>3. wds' \in [Slots -> {NoWatch} \cup 1 .. lastWd]
    BY DEF Watching
  <2>4. \A i \in Slots : Live(Dir(i))' => watch'[Dir(i)] = wds'[i]
    BY <1>2, <1>3, <1>5 DEF Watching
  <2>5. \A i \in Slots :
          /\ wds'[i] # wdd
          /\ wds'[i] # NoWatch => i \in Busses \cup {0}
    BY <1>5 DEF Watching, NoWatch, wdd
  <2>6. \A i, j \in Slots : wds'[i] = wds'[j] => i = j \/ wds'[i] = NoWatch
    BY <1>5 DEF Watching
  <2>7. Live(Dev) /\ watch[Dev] = wdd
    BY DEF Watching
  <2>8. Live(Dev)' /\ watch'[Dev] = wdd
    BY <1>2, <1>3, <1>6, <2>7
  <2> QED
    BY <2>1, <2>2, <2>3, <2>4, <2>5, <2>6, <2>8 DEF Watching
<1>8. /\ Unread \in Seq(Events)
      /\ \A j \in 1 .. Len(Unread) : \E k \in 1 .. Len(queue) :
           Unread[j] = queue[k]
  BY Reads
<1> PICK ends : ends = SetToSeq(Ends(gone))
  OBVIOUS
<1>9. /\ ends \in Seq(Events)
      /\ \A j \in 1 .. Len(ends) :
           ends[j].mask = "IN_IGNORED" /\ ends[j].wd \in 1 .. lastWd
      /\ \A j \in 1 .. Len(ends) : ends[j].wd \in gone
      /\ Len(ends) = 0 <=> \A p : Live(p) => watch[p] \notin gone
  <2>1. ends \in Seq(Ends(gone)) /\ (Len(ends) = 0 <=> Ends(gone) = {})
    BY EndsOf, OnceEach
  <2>2. /\ \A e \in Ends(gone) :
             /\ e \in Events /\ e.mask = "IN_IGNORED"
             /\ e.wd \in 1 .. lastWd /\ e.wd \in gone
        /\ Ends(gone) = {} <=> \A p : Live(p) => watch[p] \notin gone
    BY EndsOf
  <2>3. \A j \in 1 .. Len(ends) : ends[j] \in Ends(gone)
    BY <2>1, ElementOfSeq
  <2>4. ends \in Seq(Events)
    <3>1. PICK n \in Nat : ends \in [1 .. n -> Ends(gone)]
      BY <2>1, SeqDef
    <3>2. ends \in [1 .. n -> Events]
      BY <2>2, <3>1
    <3> QED
      BY <3>2, SeqDef
  <2>5. Len(ends) = 0 <=> \A p : Live(p) => watch[p] \notin gone
    BY <2>1, <2>2
  <2> QED
    BY <2>2, <2>3, <2>4, <2>5
<1> PICK left : left = Unread
  OBVIOUS
<1>10. /\ queue' \in Seq(Events) /\ Len(queue') = Len(left) + Len(ends)
       /\ \A i \in 1 .. Len(left) + Len(ends) :
            queue'[i] = IF i <= Len(left) THEN left[i] ELSE ends[i - Len(left)]
       /\ Len(left) \in Nat /\ Len(ends) \in Nat
  <2>1. left \in Seq(Events) /\ queue' = left \o ends
    BY <1>1, <1>8
  <2> QED
    BY <1>9, <2>1, ConcatProperties, LenProperties
<1>11. ASSUME NEW j \in 1 .. Len(queue')
       PROVE  \/ \E k \in 1 .. Len(queue) : queue'[j] = queue[k]
              \/ /\ queue'[j].mask = "IN_IGNORED"
                 /\ queue'[j].wd \in 1 .. lastWd
  <2>1. CASE j <= Len(left)
    BY <1>8, <1>10, <2>1
  <2>2. CASE ~(j <= Len(left))
    <3>1. j - Len(left) \in 1 .. Len(ends)
      BY <1>10, <2>2
    <3> QED
      BY <1>9, <1>10, <2>2, <3>1
  <2> QED
    BY <2>1, <2>2
<1>12. ASSUME Clean'
       PROVE  /\ queue' = left
              /\ \A p : Live(p) => watch[p] \notin gone
  <2>1. Len(ends) = 0
    <3> SUFFICES ASSUME Len(ends) # 0 PROVE FALSE
      OBVIOUS
    <3> PICK m : m = Len(left) + 1
      OBVIOUS
    <3>1. m \in 1 .. Len(queue') /\ queue'[m] = ends[1] /\ 1 \in 1 .. Len(ends)
      BY <1>10
    <3>2. queue'[m].wd \in gone /\ queue'[m].wd \in 1 .. lastWd
      BY <1>9, <3>1
    <3>3. queue'[m].wd \in {wdd} \cup Range(wds')
      BY <1>12, <3>1 DEF Clean
    <3>4. PICK i \in Slots : queue'[m].wd = wds'[i]
      BY <1>6, <1>7, <3>2, <3>3, InRange DEF Range
    <3>5. queue'[m].wd # NoWatch
      BY <3>2 DEF NoWatch, Typed
    <3> QED
      BY <1>5, <3>2, <3>4, <3>5
  <2>2. queue' = left
    BY <1>8, <1>9, <1>10, <2>1, SeqEqual
  <2> QED
    BY <1>9, <2>1, <2>2
<1> QED
  BY <1>2, <1>4, <1>7, <1>10, <1>11, <1>12

(* A bus goes: its watch is gone with the directory, unless it is back.    *)
LEMMA RemovedBus ==
  ASSUME UsbHostIInv, pc = "read", queue # <<>>, BusRemoved(Head(queue))
  PROVE  UsbHostIInv'
<1> PICK s : s = Head(queue).name
  OBVIOUS
<1> PICK gone : gone = {wds[s]}
  OBVIOUS
<1>1. /\ Read(Head(queue)) /\ RmWatches(gone) /\ wds' = [wds EXCEPT ![s] = NoWatch]
      /\ Head(queue).wd = wds[0] /\ Head(queue).mask = "IN_DELETE"
      /\ UNCHANGED <<tree, lastWd, changes, pc, slot, busNames, nodeNames, done,
                     discovered, known, unseen>>
      /\ s \in BusSlots
  BY DEF BusRemoved, Slotted, BusSlots
<1>2. /\ Typed /\ Watching /\ Named /\ Told /\ Covered /\ Reported
      /\ Forgotten
  BY DEF UsbHostIInv
<1>3. 0 \in Slots /\ \A i \in BusSlots : i \in Slots /\ i # 0
  BY UsbHostAssumption DEF Slots, BusSlots
<1>4. /\ gone \in SUBSET Range(wds)
      /\ wds' = [i \in Slots |-> IF wds[i] \in gone THEN NoWatch ELSE wds[i]]
  <2>1. gone \in SUBSET Range(wds)
    BY <1>1, <1>2, <1>3, InRange
  <2>2. \A i \in Slots : wds[i] = wds[s] => i = s \/ wds[i] = NoWatch
    BY <1>1, <1>2, <1>3 DEF Watching
  <2>3. wds \in [Slots -> {NoWatch} \cup 1 .. lastWd]
    BY <1>2 DEF Watching
  <2>4. \A i \in Slots :
          wds'[i] = IF wds[i] \in gone THEN NoWatch ELSE wds[i]
    BY <1>1, <1>3, <2>2, <2>3
  <2> QED
    BY <1>1, <2>1, <2>3, <2>4
<1>5. /\ Watching' /\ Slotting /\ queue' \in Seq(Events)
      /\ \A j \in 1 .. Len(queue') :
           \/ \E k \in 1 .. Len(queue) : queue'[j] = queue[k]
           \/ /\ queue'[j].mask = "IN_IGNORED"
              /\ queue'[j].wd \in 1 .. lastWd
      /\ \A p : Live(p)' <=> Live(p) /\ watch[p] \notin gone
      /\ Clean' => /\ queue' = Unread
                   /\ \A p : Live(p) => Live(p)' /\ watch[p] \notin gone
  BY <1>1, <1>2, <1>4, Drops
<1>6. /\ Len(queue) \in Nat /\ 1 \in 1 .. Len(queue)
      /\ Head(queue) = queue[1]
      /\ ~missed' /\ queue' = Unread => Reading(1)
  BY <1>1, <1>2, Reads
<1>7. Clean' => Reading(1) /\ Clean
  BY <1>2, <1>5, <1>6, CleanBefore DEF Clean
<1>8. Typed'
  <2>1. \A j \in 1 .. Len(queue') : queue'[j].wd \in 1 .. lastWd'
    BY <1>1, <1>2, <1>5 DEF Typed
  <2>2. missed' \in BOOLEAN
    BY <1>1 DEF Read
  <2> QED
    BY <1>1, <1>2, <1>5, <2>1, <2>2 DEF Typed
<1>9. Named'
  BY <1>2, <1>5, NamedAfter
<1>10. Told'
  <2>1. Clean' => Told'
    BY <1>1, <1>2, <1>5, <1>7, ToldAfter
  <2> QED
    BY <2>1 DEF Told
<1>11. \A i \in BusSlots : queue[1].wd # wds[i]
  BY <1>1, <1>2, <1>3, <1>6, OneSlot
<1>12. ASSUME Clean', NEW i, Announced(i) PROVE Announced(i)'
  <2>1. \A j \in 1 .. 1 : queue[j].mask # "IN_CREATE"
    BY <1>1, <1>6
  <2> QED
    BY <1>2, <1>5, <1>7, <1>12, <2>1, AnnouncedStays
<1>13. Covered'
  BY <1>1, <1>2, <1>5, <1>7, <1>12 DEF Covered
<1>14. Reported'
  <2> SUFFICES ASSUME Clean', Live(UsbFs)', NEW i \in BusSlots,
                      NEW d \in Devices, Node(i, d) \in tree
               PROVE  \/ Node(i, d) \in known' \/ ToList(i, d)'
                      \/ Live(BusDir(i))' /\ Pending(i, d)'
    BY <1>1 DEF Reported
  <2>1. \/ Node(i, d) \in known \/ ToList(i, d)
        \/ Live(BusDir(i)) /\ Pending(i, d)
    BY <1>2, <1>5, <1>7 DEF Reported
  <2>2. ToList(i, d) => ToList(i, d)'
    BY <1>1, <1>12 DEF ToList
  <2>3. ASSUME Pending(i, d) PROVE Pending(i, d)'
    <3>1. PICK j \in 1 .. Len(queue) : About(j, wds[i], d)
      BY <2>3 DEF Pending
    <3>2. j \in 1 + 1 .. Len(queue)
      BY <1>6, <1>11, <3>1 DEF About
    <3> QED
      BY <1>2, <1>3, <1>5, <1>7, <3>1, <3>2, PendingStays
  <2> QED
    BY <1>1, <1>5, <2>1, <2>2, <2>3
<1>15. Forgotten'
  <2>1. ASSUME Clean' PROVE Forgotten'
    <3>1. \A j \in 1 .. 1, i \in BusSlots :
            queue[j].wd # wds[i] \/ queue[j].mask = "IN_IGNORED"
      BY <1>11
    <3> QED
      BY <1>1, <1>2, <1>5, <1>7, <2>1, <3>1, ForgottenAfter
  <2> QED
    BY <2>1 DEF Forgotten
<1> QED
  BY <1>5, <1>8, <1>9, <1>10, <1>13, <1>14, <1>15 DEF UsbHostIInv

(* /dev/bus goes, and every slot with it.                                  *)
LEMMA BusWent ==
  ASSUME UsbHostIInv, pc = "read", queue # <<>>, BusChanged(Head(queue)),
         Head(queue).mask = "IN_DELETE"
  PROVE  UsbHostIInv'
<1> PICK gone : gone = Range(wds)
  OBVIOUS
<1>1. /\ Read(Head(queue)) /\ RmWatches(gone) /\ wds' = [i \in Slots |-> NoWatch]
      /\ Head(queue).wd = wdd
      /\ UNCHANGED <<tree, lastWd, changes, pc, slot, busNames, nodeNames, done,
                     discovered, known, unseen>>
  BY DEF BusChanged
<1>2. Typed /\ Watching /\ Forgotten
  BY DEF UsbHostIInv
<1>3. 0 \in Slots /\ \A i \in BusSlots : i \in Slots
  BY UsbHostAssumption DEF Slots, BusSlots
<1>4. \A i \in Slots : wds[i] \in gone /\ wds'[i] = NoWatch
  BY <1>1, <1>2, InRange
<1>5. wds' = [i \in Slots |-> IF wds[i] \in gone THEN NoWatch ELSE wds[i]]
  BY <1>1, <1>4
<1>6. /\ Watching' /\ Slotting /\ queue' \in Seq(Events)
      /\ \A j \in 1 .. Len(queue') :
           \/ \E k \in 1 .. Len(queue) : queue'[j] = queue[k]
           \/ /\ queue'[j].mask = "IN_IGNORED"
              /\ queue'[j].wd \in 1 .. lastWd
      /\ \A p : Live(p)' <=> Live(p) /\ watch[p] \notin gone
      /\ Clean' => /\ queue' = Unread
                   /\ \A p : Live(p) => Live(p)' /\ watch[p] \notin gone
  BY <1>1, <1>2, <1>5, Drops
<1>7. /\ Head(queue) = queue[1]
      /\ ~missed' /\ queue' = Unread => Reading(1)
  BY <1>1, <1>2, Reads
<1>8. Typed'
  <2>1. \A j \in 1 .. Len(queue') : queue'[j].wd \in 1 .. lastWd'
    BY <1>1, <1>2, <1>6 DEF Typed
  <2>2. missed' \in BOOLEAN
    BY <1>1 DEF Read
  <2> QED
    BY <1>1, <1>2, <1>6, <2>1, <2>2 DEF Typed
<1>9. Named' /\ Told'
  BY <1>3, <1>4 DEF Named, Told
<1>10. ~Live(UsbFs)'
  <2>1. Live(UsbFs) => watch[UsbFs] = wds[0]
    BY <1>2, <1>3, Dirs DEF Watching
  <2> QED
    BY <1>3, <1>4, <1>6, <2>1
<1>11. Covered' /\ Reported'
  BY <1>10 DEF Covered, Reported
<1>12. Forgotten'
  <2>1. ASSUME Clean' PROVE Forgotten'
    <3>1. \A j \in 1 .. 1, i \in BusSlots : queue[j].wd # wds[i]
      BY <1>1, <1>2, <1>3, <1>7 DEF Watching
    <3>2. Reading(1)
      BY <1>6, <1>7, <2>1 DEF Clean
    <3> QED
      BY <1>1, <1>2, <1>6, <2>1, <3>1, <3>2, ForgottenAfter
  <2> QED
    BY <2>1 DEF Forgotten
<1> QED
  BY <1>6, <1>8, <1>9, <1>11, <1>12 DEF UsbHostIInv

-----------------------------------------------------------------------------
(* Initially, and then always.                                             *)

(* A prefix's parent is a prefix.                                          *)
LEMMA ParentOfPrefix ==
  ASSUME NEW p \in Paths, NEW n \in Paths, IsPrefix(p, n)
  PROVE  IsPrefix(Parent(p), n)
<1> DEFINE S == {"bus", "usb"} \cup Busses \cup Devices
<1>1. /\ p \in Seq(S) /\ Len(p) \in 1 .. 4
      /\ n \in Seq(S) /\ Len(n) \in 1 .. 4
  BY PathSeq
<1> HIDE DEF S
<1> PICK k : k = Len(p) - 1
  OBVIOUS
<1>2. k \in Nat /\ k <= Len(p) /\ k <= Len(n) /\ Len(p) <= Len(n)
  BY <1>1 DEF IsPrefix
<1>3. /\ Parent(p) \in Seq(S) /\ Len(Parent(p)) = k
      /\ \A i \in 1 .. k : Parent(p)[i] = p[i]
  <2>1. Len(p) > 0
    BY <1>1
  <2>2. /\ Front(p) \in Seq(S) /\ Len(Front(p)) = Len(p) - 1
        /\ \A i \in 1 .. Len(p) - 1 : Front(p)[i] = p[i]
    BY <1>1, <2>1, FrontOf
  <2> QED
    BY <2>2 DEF Parent
<1>4. \A i \in 1 .. k : p[i] = n[i]
  <2>1. p = SubSeq(n, 1, Len(p))
    BY <1>1, SubSeqFull DEF IsPrefix
  <2>2. \A i \in 1 .. Len(p) : SubSeq(n, 1, Len(p))[i] = n[i]
    BY <1>1, <1>2
  <2> QED
    BY <1>2, <2>1, <2>2
<1>5. /\ SubSeq(n, 1, k) \in Seq(S) /\ Len(SubSeq(n, 1, k)) = k
      /\ \A i \in 1 .. k : SubSeq(n, 1, k)[i] = n[i]
  BY <1>1, <1>2
<1> PICK s : s = SubSeq(n, 1, k)
  OBVIOUS
<1>6. Parent(p) = s
  BY <1>3, <1>4, <1>5, SeqEqual
<1>7. SubSeq(Parent(p), 1, Len(Parent(p))) = Parent(p)
  BY <1>3, SubSeqFull
<1> QED
  BY <1>2, <1>3, <1>6, <1>7 DEF IsPrefix

LEMMA Initially ==
  UsbHostInit => UsbHostIInv
<1> SUFFICES ASSUME UsbHostInit PROVE UsbHostIInv
  OBVIOUS
<1>1. /\ watch = <<>> /\ lastWd = 0 /\ queue = <<>> /\ changes = 0
      /\ pc = "start" /\ slot = 0 /\ wds = [i \in Slots |-> NoWatch]
      /\ busNames = {} /\ nodeNames = {} /\ done = FALSE /\ discovered = FALSE
      /\ known = {} /\ unseen = {} /\ missed = FALSE
  BY DEF UsbHostInit
<1>2. tree \subseteq Paths /\ \A p \in tree : Parent(p) \in tree \cup {Dev}
  <2>1. PICK nodes \in SUBSET Paths :
          tree = {p \in Paths : \E n \in nodes : IsPrefix(p, n)}
    BY DEF UsbHostInit
  <2>2. ASSUME NEW p \in tree PROVE Parent(p) \in tree \cup {Dev}
    <3>1. PICK n \in nodes : IsPrefix(p, n)
      BY <2>1
    <3>2. p \in Paths /\ n \in Paths
      BY <2>1
    <3>3. IsPrefix(Parent(p), n) /\ Parent(p) \in Paths \cup {Dev}
      BY <3>1, <3>2, ParentOfPrefix, ParentIs
    <3> QED
      BY <2>1, <3>3
  <2> QED
    BY <2>1, <2>2
<1>3. Len(queue) = 0 /\ queue \in Seq(Events)
  BY <1>1, EmptySeq
<1>4. 0 \in Slots /\ 0 \in 0 .. MaxChanges
  BY UsbHostAssumption DEF Slots
<1>5. Typed
  BY <1>1, <1>2, <1>3, <1>4 DEF Typed
<1>6. DOMAIN watch = {}
  BY <1>1
<1>7. Watching
  <2>1. IsFiniteSet(DOMAIN watch)
    BY <1>6, FS_EmptySet
  <2>2. \A p : ~Live(p)
    BY <1>6 DEF Live
  <2>3. \A i \in Slots : wds[i] = NoWatch /\ NoWatch # wdd
    BY <1>1 DEF NoWatch, wdd
  <2> QED
    BY <1>1, <1>6, <2>1, <2>2, <2>3 DEF Watching
<1>8. \A i \in BusSlots : wds[i] = NoWatch
  BY <1>1 DEF BusSlots
<1>9. Named /\ Told
  BY <1>8 DEF Named, Told
<1>10. Covered /\ Reported /\ Forgotten
  BY <1>1, <1>6 DEF Covered, Reported, Forgotten, Live
<1> QED
  BY <1>5, <1>7, <1>9, <1>10 DEF UsbHostIInv

LEMMA Stutters ==
  UsbHostIInv /\ UNCHANGED usbHostVars => UsbHostIInv'
<1> SUFFICES ASSUME UsbHostIInv, UNCHANGED usbHostVars PROVE UsbHostIInv'
  OBVIOUS
<1>1. UNCHANGED <<tree, watch, lastWd, queue, changes, pc, wds, slot,
                  busNames, nodeNames, done, discovered, known, unseen,
                  missed>>
  BY DEF usbHostVars, kernel, locals, history
<1>2. Typed' /\ Watching' /\ (Clean' <=> Clean)
  BY <1>1 DEF UsbHostIInv, Typed, Watching, Clean, Live
<1>3. Named' /\ Told'
  BY <1>1, <1>2 DEF UsbHostIInv, Named, Told, About, Live
<1>4. Covered' /\ Reported' /\ Forgotten'
  BY <1>1, <1>2 DEF UsbHostIInv, Covered, Reported, Forgotten, Announced,
                    ToList, Pending, About, Live
<1> QED
  BY <1>2, <1>3, <1>4 DEF UsbHostIInv

LEMMA Handled ==
  ASSUME UsbHostIInv, HandleEvent
  PROVE  UsbHostIInv'
<1>1. /\ pc = "read" /\ queue # <<>>
      /\ \/ BusChanged(Head(queue)) \/ BusAdded(Head(queue))
         \/ BusRemoved(Head(queue)) \/ DeviceChanged(Head(queue))
         \/ Disregard(Head(queue))
  BY DEF HandleEvent
<1>2. CASE BusChanged(Head(queue))
  <2>1. Head(queue).mask \in {"IN_CREATE", "IN_DELETE"}
    BY <1>2 DEF BusChanged
  <2> QED
    BY <1>1, <1>2, <2>1, BusCame, BusWent
<1>3. CASE BusAdded(Head(queue))
  BY <1>1, <1>3, AddedBus
<1>4. CASE BusRemoved(Head(queue))
  BY <1>1, <1>4, RemovedBus
<1>5. CASE DeviceChanged(Head(queue))
  BY <1>1, <1>5, DeviceCame
<1>6. CASE Disregard(Head(queue))
  BY <1>1, <1>6, Disregarded
<1> QED
  BY <1>1, <1>2, <1>3, <1>4, <1>5, <1>6

LEMMA Inductive ==
  UsbHostIInv /\ [UsbHostNext]_usbHostVars => UsbHostIInv'
<1> SUFFICES ASSUME UsbHostIInv, [UsbHostNext]_usbHostVars PROVE UsbHostIInv'
  OBVIOUS
<1>1. CASE UNCHANGED usbHostVars
  BY <1>1, Stutters
<1>2. CASE UsbHostRun
  BY <1>2, RootWatched, FailRoot, SlotWatched, FindBusses, FindNodes, Report,
     EndBus, EndUsbFs, Handled DEF UsbHostRun
<1>3. CASE \E p \in Paths : Create(p) \/ Delete(p)
  <2>1. PICK p \in Paths : Create(p) \/ Delete(p)
    BY <1>3
  <2> QED
    BY <2>1, Created, Deleted
<1> QED
  BY <1>1, <1>2, <1>3 DEF UsbHostNext

LEMMA Suffices ==
  UsbHostIInv => UsbHostInv
<1> SUFFICES ASSUME UsbHostIInv PROVE UsbHostInv
  OBVIOUS
<1>1. Typed /\ Watching /\ Reported /\ Forgotten
  BY DEF UsbHostIInv
<1>2. UsbHostTypeOK
  <2>1. DOMAIN queue = 1 .. Len(queue)
    BY <1>1, LenProperties DEF Typed
  <2>2. \A j \in DOMAIN queue :
          /\ queue[j].wd \in 1 .. lastWd
          /\ queue[j].mask \in {"IN_CREATE", "IN_DELETE", "IN_IGNORED"}
    <3> SUFFICES ASSUME NEW j \in 1 .. Len(queue)
                 PROVE  /\ queue[j].wd \in 1 .. lastWd
                        /\ queue[j].mask \in Masks
      BY <2>1 DEF Masks
    <3>1. queue[j] \in Events
      BY <1>1, ElementOfSeq DEF Typed
    <3>2. queue[j].wd \in 1 .. lastWd
      BY <1>1 DEF Typed
    <3> QED
      BY <3>1, <3>2 DEF Events
  <2>3. DOMAIN watch \subseteq {Dev, UsbFs} \cup BusDirs
    <3> SUFFICES ASSUME NEW p \in DOMAIN watch, p # Dev
                 PROVE  p \in {UsbFs} \cup BusDirs
      OBVIOUS
    <3>1. PICK i \in Slots : p = Dir(i) /\ p \in tree
      BY <1>1 DEF Watching
    <3>2. i \in Busses \cup {0}
      BY <1>1, <3>1, BusOfDir
    <3> QED
      BY <3>1, <3>2 DEF Dir, BusDirs
  <2>4. /\ \A p \in DOMAIN watch : watch[p] \in 1 .. lastWd
        /\ wds \in [Slots -> {NoWatch} \cup 1 .. lastWd]
    BY <1>1 DEF Watching
  <2>5. {done, discovered, missed} \subseteq BOOLEAN
    BY <1>1 DEF Typed
  <2> QED
    BY <1>1, <2>2, <2>3, <2>4, <2>5 DEF UsbHostTypeOK, Typed
<1>3. Settled /\ ~missed =>
        /\ Clean /\ nodeNames = {} /\ ~done /\ pc = "read"
        /\ \A i, d : ~Pending(i, d) /\ ~Announced(i)
  <2> SUFFICES ASSUME Settled, ~missed
               PROVE  /\ Clean /\ nodeNames = {} /\ ~done /\ pc = "read"
                      /\ \A i, d : ~Pending(i, d) /\ ~Announced(i)
    OBVIOUS
  <2>1. Len(queue) = 0 /\ pc = "read"
    BY EmptySeq DEF Settled
  <2>2. \A j : j \notin 1 .. Len(queue)
    BY <2>1
  <2>3. nodeNames = {} /\ ~done
    BY <1>1, <2>1 DEF Typed
  <2> QED
    BY <2>1, <2>2, <2>3 DEF Clean, Pending, Announced
<1>4. ASSUME NEW n \in Nodes
      PROVE  \E b \in Busses, d \in Devices : n = Node(b, d) /\ n[3] = b
  BY DEF Nodes, Node
<1>5. NoDeviceSlips
  <2> SUFFICES ASSUME Settled, ~missed, UsbFsWatched,
                      NEW n \in Followed, n \in tree
               PROVE  n \in known
    BY DEF NoDeviceSlips
  <2>1. PICK b \in Busses, d \in Devices : n = Node(b, d) /\ n[3] = b
    BY <1>4 DEF Followed
  <2>2. b \in BusSlots
    BY <2>1, UsbHostAssumption DEF Followed, BusSlots
  <2>3. Live(UsbFs)
    BY DEF UsbFsWatched, Live
  <2> QED
    BY <1>1, <1>3, <2>1, <2>2, <2>3 DEF Reported, ToList
<1>6. GhostsWereUnseen
  <2> SUFFICES ASSUME Settled, ~missed, NEW n \in known, n \notin tree
               PROVE  n \in unseen
    BY DEF GhostsWereUnseen
  <2>1. n \in Nodes
    BY <1>1 DEF Typed
  <2>2. PICK b \in Busses, d \in Devices : n = Node(b, d)
    BY <1>4, <2>1
  <2> QED
    BY <1>1, <1>3, <2>2 DEF Forgotten
<1> QED
  BY <1>2, <1>5, <1>6 DEF UsbHostInv

(* Whatever comes and goes under /dev while usb_host_run watches, lists    *)
(* and reads, the state is well formed, and once the queue is empty and    *)
(* nothing was thrown away the client knows every device of a watched      *)
(* /dev/bus/usb, on a bus with a slot, that is there, and believes in none *)
(* that is gone, unless nobody could see it go (usbhost.c).                *)
THEOREM UsbHostInvHolds ==
  UsbHostSpec => []UsbHostInv
<1>1. UsbHostSpec => []UsbHostIInv
  BY Initially, Inductive, PTL DEF UsbHostSpec
<1> QED
  BY <1>1, Suffices, PTL
=============================================================================
