----------------------------- MODULE UsbDevice ------------------------------
(***************************************************************************)
(* One USB device in the hands of a program: libusbhost's usb_device and   *)
(* usb_request (libusbhost/src/usbhost.c) and what MtpDevice::open, close  *)
(* and its destructor (src/MtpDevice.cpp) make of them.  A device file is  *)
(* opened, the interfaces it describes are searched for one that speaks    *)
(* MTP, requests are queued on it and reaped, and everything is closed.    *)
(* The kernel is external: behind the name of the file devices come and    *)
(* go, and udev opens its permissions some time after it appears.          *)
(***************************************************************************)
EXTENDS Integers, Sequences, FiniteSets

CONSTANTS
  Fds,          \* file descriptors the program may hold
  NoFd,         \* none of them
  Layouts,      \* the interfaces a device may describe
  Requests,     \* the usb_requests of an MtpDevice
  MaxPlugs,     \* bound: devices that come under the name
  MaxCalls      \* bound: calls that open something

(* An interface by its class, and the descriptors up to the next one.      *)
Classes == {"still", "mtp", "vendor", "other"}
Followers == {"bulk_in", "bulk_out", "intr_in", "no_endpoint"}
Interface == [class : Classes, following : Seq(Followers)]

ASSUME UsbDeviceAssumption ==
  /\ NoFd \notin Fds
  /\ Layouts \subseteq Seq(Interface) /\ Layouts # {}
  /\ MaxPlugs \in Nat /\ MaxCalls \in Nat

VARIABLES
  plugged,      \* external: the device behind the name, 0 for none
  plugs,        \* external, bounded: devices so far
  granted,      \* external: what udev lets the program do with the file
  interfaces,   \* external: what the device describes
  files,        \* per descriptor: the device and mode it was opened with
  pc,           \* where the call that opens is
  fd,           \* its descriptor
  didRetry,     \* did_retry of usb_device_open
  writeable,    \* writeable of usb_device_open
  at,           \* the interface MtpDevice::open looks at
  device,       \* the usb_device
  mInterface,   \* the interface an MtpDevice has claimed, 0 for none
  object,       \* the MtpDevice exists
  request,      \* per request: freed, idle, queued with the kernel or done
  cancelled,    \* history: requests cancelled since they were queued
  calls         \* bounded: calls so far

external == <<plugged, plugs, granted, interfaces>>
opening == <<pc, fd, didRetry, writeable, at>>
mtp == <<mInterface, object, request, cancelled>>
usbDeviceVars == <<external, files, opening, device, mtp, calls>>

Closed == [device |-> 0, mode |-> "closed"]
File == [device : 1 .. MaxPlugs, mode : {"read", "write"}]
NoDevice == [fd |-> NoFd, describes |-> 0, writeable |-> FALSE]

Free == {f \in Fds : files[f] = Closed}
Opened(f, mode) ==
  [files EXCEPT ![f] = [device |-> plugged, mode |-> mode]]
Closing(f) == [files EXCEPT ![f] = Closed]
(* The device a descriptor was opened for is still plugged in.             *)
Reachable(f) == files[f] # Closed /\ files[f].device = plugged

Goto(where) == pc' = where

-----------------------------------------------------------------------------
(* The kernel and udev *)

Plug ==
  /\ plugged = 0 /\ plugs < MaxPlugs
  /\ plugged' = plugs + 1 /\ plugs' = plugs + 1
  /\ granted' = "none"
  /\ UNCHANGED <<interfaces, files, opening, device, mtp, calls>>

Unplug ==
  /\ plugged # 0
  /\ plugged' = 0 /\ granted' = "none"
  /\ UNCHANGED <<plugs, interfaces, files, opening, device, mtp, calls>>

Grant ==
  /\ plugged # 0
  /\ \/ granted = "none" /\ granted' \in {"read", "write"}
     \/ granted = "read" /\ granted' = "write"
  /\ UNCHANGED <<plugged, plugs, interfaces, files, opening, device, mtp,
                 calls>>

-----------------------------------------------------------------------------
(* usb_device_open *)

Open ==
  /\ pc = "idle" /\ device = NoDevice /\ ~object /\ calls < MaxCalls
  /\ calls' = calls + 1
  /\ Goto("open_write") /\ didRetry' = FALSE
  /\ UNCHANGED <<external, files, fd, writeable, at, device, mtp>>

OpenForWriting ==
  /\ pc = "open_write"
  /\ \/ /\ plugged # 0 /\ granted = "write"
        /\ \E f \in Free : fd' = f /\ files' = Opened(f, "write")
        /\ writeable' = TRUE /\ Goto("new")
     \/ UNCHANGED <<fd, files, writeable>> /\ Goto("open_read")
  /\ UNCHANGED <<external, didRetry, at, device, mtp, calls>>

(* One more try, a second later, if the file or the permission is missing. *)
OpenForReading ==
  /\ pc = "open_read"
  /\ \/ /\ plugged # 0 /\ granted # "none"
        /\ \E f \in Free : fd' = f /\ files' = Opened(f, "read")
        /\ writeable' = FALSE /\ Goto("new")
     \/ /\ UNCHANGED <<fd, files, writeable>>
        /\ \/ (plugged = 0 \/ granted = "none") /\ ~didRetry /\ Goto("sleep")
           \/ (plugged = 0 \/ granted = "none") /\ didRetry /\ Goto("idle")
           \/ Goto("idle")      \* any other error
  /\ UNCHANGED <<external, didRetry, at, device, mtp, calls>>

\* Mutation of Retry: did_retry is never set.
RetryAgain ==
  /\ pc = "sleep"
  /\ Goto("open_write")
  /\ UNCHANGED <<external, files, fd, didRetry, writeable, at, device, mtp,
                 calls>>

Retry ==
  /\ pc = "sleep"
  /\ didRetry' = TRUE /\ Goto("open_write")
  /\ UNCHANGED <<external, files, fd, writeable, at, device, mtp, calls>>

\* Mutation of New: the file is not closed on failure.
NewLeaks(next) ==
  \/ /\ Reachable(fd)
     /\ device' = [fd |-> fd, describes |-> files[fd].device,
                   writeable |-> writeable]
     /\ Goto(next)
     /\ UNCHANGED files
  \/ /\ Goto("idle")
     /\ UNCHANGED <<files, device>>

(* usb_device_new reads the descriptors; on failure it closes the file.    *)
New(next) ==
  \/ /\ Reachable(fd)
     /\ device' = [fd |-> fd, describes |-> files[fd].device,
                   writeable |-> writeable]
     /\ Goto(next)
     /\ UNCHANGED files
  \/ /\ files' = Closing(fd)
     /\ Goto("idle")
     /\ UNCHANGED device

DeviceNew ==
  /\ pc = "new"
  /\ New("idle")
  /\ fd' = NoFd
  /\ UNCHANGED <<external, didRetry, writeable, at, mtp, calls>>

\* Mutation of ReopenWriteable: the new file is closed in place of the old.
ReopenWriteableSwapped ==
  /\ pc = "idle" /\ device # NoDevice /\ ~device.writeable
  /\ plugged # 0 /\ granted = "write"
  /\ \E f \in Free : device' = [device EXCEPT !.fd = f, !.writeable = TRUE]
  /\ UNCHANGED <<external, files, opening, mtp, calls>>

(* usb_device_reopen_writeable, called by usb_device_get_fd and by every   *)
(* control transfer: the name is opened again.                             *)
ReopenWriteable ==
  /\ pc = "idle" /\ device # NoDevice /\ ~device.writeable
  /\ plugged # 0 /\ granted = "write"
  /\ \E f \in Free :
       /\ files' = [Opened(f, "write") EXCEPT ![device.fd] = Closed]
       /\ device' = [device EXCEPT !.fd = f, !.writeable = TRUE]
  /\ UNCHANGED <<external, opening, mtp, calls>>

DeviceClose ==
  /\ pc = "idle" /\ device # NoDevice /\ ~object
  /\ files' = Closing(device.fd)
  /\ device' = NoDevice
  /\ UNCHANGED <<external, opening, mtp, calls>>

-----------------------------------------------------------------------------
(* MtpDevice::open *)

(* The caller has opened the file and hands it over.                       *)
MtpOpen ==
  /\ pc = "idle" /\ device = NoDevice /\ ~object /\ calls < MaxCalls
  /\ plugged # 0 /\ granted = "write"
  /\ calls' = calls + 1
  /\ \E f \in Free : fd' = f /\ files' = Opened(f, "write")
  /\ writeable' = TRUE /\ at' = 1
  /\ Goto("mtp_new")
  /\ UNCHANGED <<external, didRetry, device, mtp>>

MtpDeviceNew ==
  /\ pc = "mtp_new"
  /\ New("search")
  /\ fd' = NoFd
  /\ UNCHANGED <<external, didRetry, writeable, at, mtp, calls>>

(* Every way out with NULL closes the device.                              *)
Fail ==
  /\ files' = Closing(device.fd)
  /\ device' = NoDevice
  /\ Goto("idle")

\* Mutation of Search: the name a vendor's interface gives is not compared.
SearchAnyName ==
  /\ pc = "search"
  /\ \/ /\ at > Len(interfaces)
        /\ Fail
     \/ /\ at <= Len(interfaces)
        /\ Goto("endpoints")
        /\ UNCHANGED <<files, device>>
  /\ UNCHANGED <<external, fd, didRetry, writeable, at, mtp, calls>>

(* The next interface: a still image camera; a vendor's, if the name it    *)
(* gives can be read and is MTP; or, the list of special devices being     *)
(* compiled out, any other.                                                *)
Search ==
  /\ pc = "search"
  /\ \/ /\ at > Len(interfaces)
        /\ Fail
        /\ UNCHANGED at
     \/ /\ at <= Len(interfaces)
        /\ \/ /\ interfaces[at].class \in {"still", "other"}
              /\ Goto("endpoints") /\ UNCHANGED at
           \/ /\ interfaces[at].class = "mtp" /\ Reachable(device.fd)
              /\ Goto("endpoints") /\ UNCHANGED at
           \/ /\ interfaces[at].class \in {"mtp", "vendor"}
              /\ at' = at + 1 /\ UNCHANGED pc
        /\ UNCHANGED <<files, device>>
  /\ UNCHANGED <<external, fd, didRetry, writeable, mtp, calls>>

(* "interface should be followed by three endpoints": one of each kind.    *)
Endpoints(i) == {interfaces[i].following[k] :
                   k \in 1 .. 3 \cap DOMAIN interfaces[i].following}

FindEndpoints ==
  /\ pc = "endpoints"
  /\ \/ /\ Endpoints(at) = {"bulk_in", "bulk_out", "intr_in"}
        /\ Goto("claim")
        /\ UNCHANGED <<files, device>>
     \/ /\ Endpoints(at) # {"bulk_in", "bulk_out", "intr_in"}
        /\ Fail
  /\ UNCHANGED <<external, fd, didRetry, writeable, at, mtp, calls>>

(* usb_device_claim_interface: another driver may have it.                 *)
ClaimInterface ==
  /\ pc = "claim"
  /\ \/ /\ Reachable(device.fd)
        /\ mInterface' = at /\ object' = TRUE
        /\ request' = [r \in Requests |-> "idle"]
        /\ Goto("idle")
        /\ UNCHANGED <<files, device>>
     \/ /\ Fail
        /\ UNCHANGED <<mInterface, object, request>>
  /\ UNCHANGED <<external, fd, didRetry, writeable, at, cancelled, calls>>

-----------------------------------------------------------------------------
(* usb_request_queue, _wait and _cancel on the requests of an MtpDevice    *)

QueueRequest(r) ==
  /\ object /\ request[r] = "idle"
  /\ device # NoDevice /\ Reachable(device.fd)
  /\ request' = [request EXCEPT ![r] = "queued"]
  /\ cancelled' = cancelled \ {r}
  /\ UNCHANGED <<external, files, opening, device, mInterface, object, calls>>

(* External: data came, or the device is gone.                             *)
Complete(r) ==
  /\ request[r] = "queued"
  /\ request' = [request EXCEPT ![r] = "done"]
  /\ UNCHANGED <<external, files, opening, device, mInterface, object,
                 cancelled, calls>>

(* The kernel gives back any request that is done.                         *)
WaitRequest(r) ==
  /\ device # NoDevice /\ request[r] = "done"
  /\ request' = [request EXCEPT ![r] = "idle"]
  /\ UNCHANGED <<external, files, opening, device, mInterface, object,
                 cancelled, calls>>

(* USBDEVFS_DISCARDURB gets the address of a local variable, which the     *)
(* kernel knows of no request.                                             *)
CancelRequest(r) ==
  /\ device # NoDevice /\ request[r] = "queued"
  /\ cancelled' = cancelled \cup {r}
  /\ UNCHANGED <<external, files, opening, device, mInterface, object,
                 request, calls>>

-----------------------------------------------------------------------------
(* MtpDevice::close: with the file the kernel drops what was queued.       *)
Dropped ==
  [r \in Requests |-> IF request[r] \in {"queued", "done"} THEN "idle"
                                                           ELSE request[r]]

MtpClose ==
  /\ pc = "idle" /\ object /\ device # NoDevice
  /\ files' = Closing(device.fd)
  /\ device' = NoDevice /\ mInterface' = 0
  /\ request' = Dropped /\ cancelled' = {}
  /\ UNCHANGED <<external, opening, object, calls>>

\* Mutation of MtpDestroy: the MtpDevice goes while its device is still open.
MtpDestroyFirst ==
  /\ pc = "idle" /\ object
  /\ object' = FALSE /\ mInterface' = 0
  /\ UNCHANGED <<external, files, opening, device, request, cancelled, calls>>

(* The destructor frees the requests of a device that is closed.           *)
MtpDestroy ==
  /\ pc = "idle" /\ object /\ device = NoDevice
  /\ object' = FALSE
  /\ request' = [r \in Requests |-> "freed"]
  /\ UNCHANGED <<external, files, opening, device, mInterface, cancelled,
                 calls>>

-----------------------------------------------------------------------------
UsbDeviceInit ==
  /\ plugged = 0 /\ plugs = 0 /\ granted = "none" /\ interfaces \in Layouts
  /\ files = [f \in Fds |-> Closed]
  /\ pc = "idle" /\ fd = NoFd /\ didRetry = FALSE /\ writeable = FALSE
  /\ at = 1
  /\ device = NoDevice
  /\ mInterface = 0 /\ object = FALSE
  /\ request = [r \in Requests |-> "freed"] /\ cancelled = {}
  /\ calls = 0

Kernel == Plug \/ Unplug \/ Grant \/ \E r \in Requests : Complete(r)

(* A call that has begun.                                                  *)
Proceed ==
  \/ OpenForWriting \/ OpenForReading \/ Retry \/ DeviceNew
  \/ MtpDeviceNew \/ Search \/ FindEndpoints \/ ClaimInterface

Client ==
  \/ Open \/ ReopenWriteable \/ DeviceClose \/ MtpOpen \/ MtpClose
  \/ MtpDestroy
  \/ \E r \in Requests : QueueRequest(r) \/ WaitRequest(r) \/ CancelRequest(r)

UsbDeviceNext == Kernel \/ Proceed \/ Client

UsbDeviceSpec ==
  /\ UsbDeviceInit /\ [][UsbDeviceNext]_usbDeviceVars
  /\ WF_usbDeviceVars(Proceed)

-----------------------------------------------------------------------------
UsbDeviceTypeOK ==
  /\ plugged \in 0 .. MaxPlugs /\ plugs \in 0 .. MaxPlugs
  /\ plugged <= plugs
  /\ granted \in {"none", "read", "write"} /\ interfaces \in Layouts
  /\ files \in [Fds -> File \cup {Closed}]
  /\ pc \in {"idle", "open_write", "open_read", "sleep", "new", "mtp_new",
             "search", "endpoints", "claim"}
  /\ fd \in Fds \cup {NoFd}
  /\ didRetry \in BOOLEAN /\ writeable \in BOOLEAN /\ object \in BOOLEAN
  /\ at \in Nat /\ mInterface \in Nat
  /\ device \in [fd : Fds \cup {NoFd}, describes : 0 .. MaxPlugs,
                 writeable : BOOLEAN]
  /\ request \in [Requests -> {"freed", "idle", "queued", "done"}]
  /\ cancelled \subseteq Requests
  /\ calls \in 0 .. MaxCalls

(* The descriptor the library is responsible for, if any.                  *)
Owned == {fd, device.fd} \ {NoFd}

(* No file is lost or closed twice: whatever fails, and wherever, the open *)
(* files are exactly the one the call in progress or the handle holds.     *)
FilesOwned ==
  /\ \A f \in Fds : files[f] # Closed <=> f \in Owned
  /\ fd = NoFd \/ device = NoDevice

(* A handle that says it may write holds a file opened for writing, across *)
(* the two attempts, the retry and the reopening.                          *)
WriteableTrue ==
  device # NoDevice =>
    files[device.fd].mode = IF device.writeable THEN "write" ELSE "read"

(* A request the kernel holds is never freed, and never outlives the file  *)
(* it was queued on.                                                       *)
QueuedAlive ==
  \A r \in Requests :
    request[r] \in {"queued", "done"} => object /\ device # NoDevice

(* An interface is claimed while its device is open, and it is the first   *)
(* that passes for MTP: those before it gave a name other than MTP, or     *)
(* none.                                                                   *)
FirstLikely ==
  mInterface # 0 =>
    /\ object /\ device # NoDevice
    /\ Endpoints(mInterface) = {"bulk_in", "bulk_out", "intr_in"}
    /\ interfaces[mInterface].class # "vendor"
    /\ \A i \in 1 .. mInterface - 1 :
         interfaces[i].class \in {"mtp", "vendor"}

(* The state is well formed, and what is claimed is the first that passes. *)
UsbDeviceInv == UsbDeviceTypeOK /\ FirstLikely

(* A call that opens returns: one retry, and every interface once.         *)
OpenReturns == pc # "idle" ~> pc = "idle"

-----------------------------------------------------------------------------
(* The file of a handle is open on the device whose descriptors it read:   *)
(* what usb_device_get_vendor_id and the like say is true of what          *)
(* usb_device_get_fd returns.                                              *)
SameDevice ==
  device # NoDevice => files[device.fd].device = device.describes

(* "if we got here, then we have a likely MTP or PTP device"               *)
(* (MtpDevice.cpp): what is claimed is a camera's or an MTP interface.     *)
ClaimedIsMtp ==
  mInterface # 0 => interfaces[mInterface].class \in {"still", "mtp"}

(* "Cancels a pending usb_request_queue() operation" (usbhost.h).          *)
CancelCancels ==
  \A r \in Requests : r \in cancelled ~> request[r] # "queued"
=============================================================================
