------------------------------ MODULE UsbHost -------------------------------
(***************************************************************************)
(* The discovery of USB devices (usb_host_run of libusbhost/src/usbhost.c):*)
(* one thread watches /dev, /dev/bus/usb and the directories of the first  *)
(* busses with inotify, lists what is already there, and reports to its    *)
(* client every device that comes and goes.  /dev is external: the kernel  *)
(* makes and removes directories and device files one at a time, and       *)
(* queues a notification for whoever watches the directory.                *)
(***************************************************************************)
EXTENDS Integers, SequencesExt

CONSTANTS
  Busses,         \* numbers of the busses that may appear
  Devices,        \* numbers a device may have on its bus
  WdCount,        \* wd_count: 10 in the code; bus i is watched for i < WdCount
  EventsPerRead,  \* notifications that fit in event_buf: 16 in the code
  Answers,        \* what the client's callbacks may return
  MaxChanges      \* bound: changes of /dev

ASSUME UsbHostAssumption ==
  /\ Busses \subseteq Nat \ {0} /\ Devices \subseteq Nat \ {0}
  /\ WdCount \in Nat \ {0} /\ EventsPerRead \in Nat \ {0}
  /\ Answers \subseteq BOOLEAN /\ FALSE \in Answers
  /\ MaxChanges \in Nat

Dev == <<>>                             \* DEV_DIR
Bus == <<"bus">>
UsbFs == <<"bus", "usb">>               \* USB_FS_DIR
BusDir(b) == <<"bus", "usb", b>>
Node(b, d) == <<"bus", "usb", b, d>>

BusDirs == {BusDir(b) : b \in Busses}
Nodes == {Node(b, d) : b \in Busses, d \in Devices}
Paths == {Bus, UsbFs} \cup BusDirs \cup Nodes
Parent(p) == Front(p)
Name(p) == Last(p)
Slots == 0 .. WdCount - 1
NoWatch == -1

VARIABLES
  tree,       \* external: the paths below /dev that exist
  watch,      \* external: the descriptor of each directory inotify watches
  lastWd,     \* external: the last descriptor the kernel gave
  queue,      \* external: the notifications not read yet
  changes,    \* external, bounded: changes of the tree
  pc,         \* where usb_host_run is
  wds,        \* wds[0] for /dev/bus/usb, wds[i] for bus i
  slot,       \* i in watch_existing_subdirs
  busNames,   \* what busdir has still to give to find_existing_devices
  nodeNames,  \* what devdir has still to give to find_existing_devices_bus
  done,
  discovered, \* discovery_done_cb has been called
  known,      \* history: devices reported as added and not since as removed
  unseen,     \* history: devices removed while nobody watched their bus
  missed      \* history: notifications a read threw away, or that came under a
              \* descriptor wds no longer holds

kernel == <<tree, watch, lastWd, queue>>
locals == <<pc, wds, slot, busNames, nodeNames, done, discovered>>
history == <<known, unseen, missed>>
usbHostVars == <<kernel, changes, locals, history>>

wdd == 1    \* the descriptor of /dev: the first the kernel gives

Event(wd, mask, name) == [wd |-> wd, mask |-> mask, name |-> name]

-----------------------------------------------------------------------------
(* The kernel *)

(* What a change of p tells the watcher of its directory. *)
Notification(p, mask) ==
  IF Parent(p) \in DOMAIN watch
    THEN <<Event(watch[Parent(p)], mask, Name(p))>>
    ELSE <<>>

(* The end of a watch is announced to its owner, without a name. *)
Ignored(wd) == Event(wd, "IN_IGNORED", 0)

Unwatched(p) == [q \in DOMAIN watch \ {p} |-> watch[q]]

Create(p) ==
  /\ changes < MaxChanges
  /\ p \notin tree
  /\ Parent(p) \in tree \cup {Dev}
  /\ tree' = tree \cup {p}
  /\ queue' = queue \o Notification(p, "IN_CREATE")
  /\ changes' = changes + 1
  /\ unseen' = unseen \ {p}
  /\ UNCHANGED <<watch, lastWd, locals, known, missed>>

(* A directory goes after all it held, and its watch with it. *)
Delete(p) ==
  /\ changes < MaxChanges
  /\ p \in tree
  /\ \A q \in tree : q = p \/ ~IsPrefix(p, q)
  /\ tree' = tree \ {p}
  /\ watch' = Unwatched(p)
  /\ queue' = queue \o Notification(p, "IN_DELETE")
                    \o IF p \in DOMAIN watch THEN <<Ignored(watch[p])>>
                                             ELSE <<>>
  /\ unseen' = IF p \in Nodes /\ Parent(p) \notin DOMAIN watch
                 THEN unseen \cup {p} ELSE unseen
  /\ changes' = changes + 1
  /\ UNCHANGED <<lastWd, locals, known, missed>>

(* inotify_add_watch(p): a directory that is watched keeps its descriptor. *)
AddWatch(p) ==
  IF p \in (tree \cup {Dev}) \ DOMAIN watch
    THEN /\ lastWd' = lastWd + 1
         /\ watch' = [q \in DOMAIN watch \cup {p} |->
                        IF q = p THEN lastWd' ELSE watch[q]]
    ELSE UNCHANGED <<watch, lastWd>>

Watched(p) == IF p \in DOMAIN watch' THEN watch'[p] ELSE NoWatch

(* What the read leaves in the queue: it takes as many as fit. *)
Unread == SubSeq(queue, EventsPerRead + 1, Len(queue))

(* inotify_rm_watch of the descriptors in gone: unknown ones are ignored. *)
RmWatches(gone) ==
  LET live == {p \in DOMAIN watch : watch[p] \in gone}
  IN /\ watch' = [p \in DOMAIN watch \ live |-> watch[p]]
     /\ queue' = Unread \o SetToSeq({Ignored(watch[p]) : p \in live})

-----------------------------------------------------------------------------
(* usb_host_run *)

Goto(where) == pc' = where

(* The watch of the root, before anything else. *)
WatchRoot ==
  /\ pc = "start"
  /\ AddWatch(Dev)
  /\ Goto("watch")
  /\ slot' = 0
  /\ UNCHANGED <<tree, queue, changes, wds, busNames, nodeNames, done,
                 discovered, history>>

(* inotify_add_watch(DEV_DIR) fails: done with the discovery, and out. *)
WatchRootFails ==
  /\ pc = "start"
  /\ Goto("returned")
  /\ discovered' = TRUE
  /\ UNCHANGED <<kernel, changes, wds, slot, busNames, nodeNames, done,
                 history>>

(* watch_existing_subdirs, one directory at a time; without /dev/bus/usb   *)
(* the busses are not tried.                                               *)
WatchExistingSubdirs ==
  LET p == IF slot = 0 THEN UsbFs ELSE BusDir(slot)
  IN /\ pc = "watch"
     /\ AddWatch(p)
     /\ wds' = [wds EXCEPT ![slot] =
                  IF slot = 0 \/ Watched(p) # NoWatch THEN Watched(p) ELSE @]
     /\ IF slot + 1 = WdCount \/ wds'[0] = NoWatch
          THEN Goto("opendir") /\ slot' = 0
          ELSE slot' = slot + 1 /\ UNCHANGED pc
     /\ UNCHANGED <<tree, queue, changes, busNames, nodeNames, done,
                    discovered, history>>

\* Mutation of FindExistingDevices: devices that are there already are left
\* to the notifications.
FindExistingDevicesNot ==
  /\ pc = "opendir"
  /\ busNames' = {}
  /\ Goto("busses")
  /\ UNCHANGED <<kernel, changes, wds, slot, nodeNames, done, discovered,
                 history>>

(* opendir(USB_FS_DIR): what is there is listed at once.                   *)
FindExistingDevices ==
  /\ pc = "opendir"
  /\ busNames' = {b \in Busses : BusDir(b) \in tree}
  /\ Goto("busses")
  /\ UNCHANGED <<kernel, changes, wds, slot, nodeNames, done, discovered,
                 history>>

(* opendir(busname), in the order readdir chooses.                         *)
FindExistingDevicesBus ==
  /\ pc = "busses" /\ ~done
  /\ \E b \in busNames :
       /\ busNames' = busNames \ {b}
       /\ nodeNames' = {n \in Nodes \cap tree : Parent(n) = BusDir(b)}
  /\ Goto("nodes")
  /\ UNCHANGED <<kernel, changes, wds, slot, done, discovered, history>>

(* added_cb for the next of them; the device may be gone by now.           *)
ReportExisting ==
  /\ pc = "nodes" /\ ~done
  /\ \E n \in nodeNames, answer \in Answers :
       /\ nodeNames' = nodeNames \ {n}
       /\ known' = known \cup {n}
       /\ done' = answer
  /\ UNCHANGED <<kernel, changes, pc, wds, slot, busNames, discovered, unseen,
                 missed>>

CloseBus ==
  /\ pc = "nodes"
  /\ nodeNames = {} \/ done
  /\ nodeNames' = {}
  /\ Goto("busses")
  /\ UNCHANGED <<kernel, changes, wds, slot, busNames, done, discovered,
                 history>>

(* The end of a listing; discovery_done_cb follows the first, whatever the *)
(* callbacks before it answered.                                           *)
CloseUsbFs ==
  /\ pc = "busses"
  /\ busNames = {} \/ done
  /\ busNames' = {}
  /\ IF discovered THEN UNCHANGED <<done, discovered>>
     ELSE /\ discovered' = TRUE
          /\ \E answer \in Answers : done' = (done \/ answer)
  /\ Goto(IF done' THEN "returned" ELSE "read")
  /\ UNCHANGED <<kernel, changes, wds, slot, nodeNames, history>>

(* One read takes the notifications that fit; the loop looks at the first. *)
Read(event) ==
  /\ missed' = (missed \/ (Len(queue) > 1 /\ EventsPerRead > 1)
                       \/ event.wd \notin {wdd} \cup Range(wds))

(* /dev/bus itself comes or goes. *)
BusChanged(event) ==
  /\ Read(event)
  /\ event.wd = wdd
  /\ \/ /\ event.mask = "IN_CREATE"
        /\ queue' = Unread
        /\ Goto("watch") /\ slot' = 0
        /\ UNCHANGED <<watch, wds>>
     \/ /\ event.mask = "IN_DELETE"
        /\ RmWatches(Range(wds))
        /\ wds' = [i \in Slots |-> NoWatch]
        /\ UNCHANGED <<pc, slot>>
  /\ UNCHANGED <<tree, lastWd, changes, busNames, nodeNames, done, discovered,
                 known, unseen>>

(* A bus comes or goes: one whose number has no slot is not looked at.     *)
Slotted(event) == event.name \in Slots \ {0}

\* Mutation of BusAdded: the new directory is watched and not listed.
BusAddedUnlisted(event) ==
  /\ Read(event)
  /\ event.wd = wds[0] /\ event.mask = "IN_CREATE" /\ Slotted(event)
  /\ AddWatch(BusDir(event.name))
  /\ wds' = IF Watched(BusDir(event.name)) = NoWatch THEN wds
            ELSE [wds EXCEPT ![event.name] = Watched(BusDir(event.name))]
  /\ queue' = Unread
  /\ UNCHANGED <<tree, changes, pc, busNames, slot, nodeNames, done, discovered,
                 known, unseen>>

BusAdded(event) ==
  /\ Read(event)
  /\ event.wd = wds[0] /\ event.mask = "IN_CREATE" /\ Slotted(event)
  /\ AddWatch(BusDir(event.name))
  /\ wds' = IF Watched(BusDir(event.name)) = NoWatch THEN wds
            ELSE [wds EXCEPT ![event.name] = Watched(BusDir(event.name))]
  /\ queue' = Unread
  /\ busNames' = {event.name}
  /\ Goto("busses")
  /\ UNCHANGED <<tree, changes, slot, nodeNames, done, discovered, known,
                 unseen>>

BusRemoved(event) ==
  /\ Read(event)
  /\ event.wd = wds[0] /\ event.mask = "IN_DELETE" /\ Slotted(event)
  /\ RmWatches({wds[event.name]})
  /\ wds' = [wds EXCEPT ![event.name] = NoWatch]
  /\ UNCHANGED <<tree, lastWd, changes, pc, slot, busNames, nodeNames, done,
                 discovered, known, unseen>>

(* A device comes or goes on the bus of slot i, which names it.            *)
DeviceChanged(event) ==
  /\ Read(event)
  /\ \E i \in Slots \ {0} :
       /\ event.wd = wds[i]
       /\ \/ /\ event.mask = "IN_CREATE"
             /\ known' = known \cup {Node(i, event.name)}
          \/ /\ event.mask = "IN_DELETE"
             /\ known' = known \ {Node(i, event.name)}
  /\ done' \in Answers
  /\ Goto(IF done' THEN "returned" ELSE "read")
  /\ queue' = Unread
  /\ UNCHANGED <<tree, watch, lastWd, changes, wds, slot, busNames, nodeNames,
                 discovered, unseen>>

(* Everything else is read and forgotten.                                  *)
Disregard(event) ==
  /\ Read(event)
  /\ \/ event.mask = "IN_IGNORED"
     \/ event.wd \notin {wdd} \cup Range(wds)
     \/ event.wd = wds[0] /\ ~Slotted(event)
  /\ queue' = Unread
  /\ UNCHANGED <<tree, watch, lastWd, changes, locals, known, unseen>>

-----------------------------------------------------------------------------
(* /dev may hold anything when the library starts: nothing, the directories *)
(* or some devices, each with its parents.                                  *)
UsbHostInit ==
  /\ \E nodes \in SUBSET Paths :
       tree = {p \in Paths : \E n \in nodes : IsPrefix(p, n)}
  /\ watch = <<>> /\ lastWd = 0 /\ queue = <<>> /\ changes = 0
  /\ pc = "start" /\ slot = 0
  /\ wds = [i \in Slots |-> NoWatch]
  /\ busNames = {} /\ nodeNames = {}
  /\ done = FALSE /\ discovered = FALSE
  /\ known = {} /\ unseen = {} /\ missed = FALSE

HandleEvent ==
  /\ pc = "read"
  /\ queue # <<>>
  /\ LET event == Head(queue)
     IN BusChanged(event) \/ BusAdded(event) \/ BusRemoved(event)
          \/ DeviceChanged(event) \/ Disregard(event)

UsbHostRun ==
  \/ WatchRoot \/ WatchRootFails \/ WatchExistingSubdirs
  \/ FindExistingDevices \/ FindExistingDevicesBus \/ ReportExisting
  \/ CloseBus \/ CloseUsbFs \/ HandleEvent

UsbHostNext ==
  \/ UsbHostRun
  \/ \E p \in Paths : Create(p) \/ Delete(p)

(* The thread is dedicated to the discovery and runs whenever it can.      *)
UsbHostSpec ==
  UsbHostInit /\ [][UsbHostNext]_usbHostVars /\ WF_usbHostVars(UsbHostRun)

-----------------------------------------------------------------------------
UsbHostTypeOK ==
  /\ tree \subseteq Paths /\ \A p \in tree : Parent(p) \in tree \cup {Dev}
  /\ DOMAIN watch \subseteq {Dev, UsbFs} \cup BusDirs
  /\ \A p \in DOMAIN watch : watch[p] \in 1 .. lastWd
  /\ lastWd \in Nat /\ changes \in 0 .. MaxChanges
  /\ \A i \in DOMAIN queue :
       /\ queue[i].wd \in 1 .. lastWd
       /\ queue[i].mask \in {"IN_CREATE", "IN_DELETE", "IN_IGNORED"}
  /\ pc \in {"start", "watch", "opendir", "busses", "nodes", "read",
             "returned"}
  /\ wds \in [Slots -> {NoWatch} \cup 1 .. lastWd] /\ slot \in Slots
  /\ busNames \subseteq Nat \ {0} /\ nodeNames \subseteq Nodes
  /\ {done, discovered, missed} \subseteq BOOLEAN
  /\ known \subseteq Nodes /\ unseen \subseteq Nodes

(* The loop has read everything and waits. *)
Settled == pc = "read" /\ queue = <<>>

UsbFsWatched == UsbFs \in DOMAIN watch /\ watch[UsbFs] = wds[0]

(* The devices of the busses that have a slot. *)
Followed == {n \in Nodes : n[3] \in Slots}

(* A device never slips between the listing and the watch, in whatever     *)
(* order directories and devices appear while the thread watches, lists    *)
(* and reads: once all notifications are read, one by one, the client has  *)
(* been told of every device of a bus that has a slot.                     *)
NoDeviceSlips ==
  Settled /\ ~missed /\ UsbFsWatched => Followed \cap tree \subseteq known

(* A device the client still believes in was removed while nobody watched  *)
(* its bus: a removal a watch sees reaches the client after the report of  *)
(* the device, even if the listing reports it only once it is gone.        *)
GhostsWereUnseen ==
  Settled /\ ~missed => known \ tree \subseteq unseen

(* The state is well formed, and what the client was told is the tree, but *)
(* for what nobody could see (usbhost.c:197).                              *)
UsbHostInv == UsbHostTypeOK /\ NoDeviceSlips /\ GhostsWereUnseen

(* Every device that stays comes to be reported, unless a notification was *)
(* thrown away or a callback ended the discovery.                          *)
DevicesReported ==
  \A n \in Followed :
    []<>(\/ n \notin tree \/ n \in known
         \/ missed \/ pc = "returned" \/ ~UsbFsWatched)

-----------------------------------------------------------------------------
(* "removed_cb is called when USB devices are removed from the bus"        *)
(* (usbhost.h): a device removed under a watch is forgotten once the queue *)
(* is empty, however many notifications came together.                     *)
WatchedRemovalsReported ==
  Settled => known \ tree \subseteq unseen

(* The same for a device of a bus with a slot, while nothing is thrown     *)
(* away: the listing reports only what a watch will see go.                *)
RemovalsReported ==
  Settled /\ ~missed /\ UsbFsWatched => known \cap Followed \subseteq tree

(* "watch the root for new subdirectories" (usbhost.c): /dev/bus/usb, when *)
(* it comes, is watched.                                                   *)
NewSubdirsWatched == Settled /\ ~missed /\ UsbFs \in tree => UsbFsWatched
=============================================================================
