-------------------------- MODULE UsbDeviceProofs ---------------------------
(* Proofs about UsbDevice: for any number of descriptors, requests,        *)
(* layouts, devices and calls.                                             *)
EXTENDS UsbDevice, TLAPS

(* Where the call that opens is decides who holds the file.                *)
InCall ==
  /\ pc \in {"new", "mtp_new"} <=> fd # NoFd
  /\ pc \in {"search", "endpoints", "claim"} => device # NoDevice
  /\ pc \in {"open_write", "open_read", "sleep", "new", "mtp_new"} =>
       device = NoDevice
  /\ pc # "idle" => ~object
  /\ fd # NoFd =>
       /\ files[fd].mode = IF writeable THEN "write" ELSE "read"
       /\ files[fd] # Closed

(* A handle is made from a file, and holds one.                            *)
Handle ==
  /\ device # NoDevice => device.fd # NoFd /\ files[device.fd] # Closed
  /\ device.fd = NoFd => device = NoDevice

(* The invariant of the proofs: what is stated of the handle, and where    *)
(* each file is on its way to it.                                          *)
Holdings ==
  /\ UsbDeviceTypeOK /\ FilesOwned /\ WriteableTrue
  /\ QueuedAlive /\ InCall /\ Handle
  /\ ~object => \A r \in Requests : request[r] = "freed"

(* At first nothing is open.                                               *)
LEMMA HoldingsInit == UsbDeviceInit => Holdings
<1> SUFFICES ASSUME UsbDeviceInit PROVE Holdings
  OBVIOUS
<1> USE UsbDeviceAssumption DEF UsbDeviceInit, NoDevice, Closed, File
<1>1. didRetry \in BOOLEAN /\ writeable \in BOOLEAN /\ object \in BOOLEAN
  BY Zenon
<1>2. device \in [fd : Fds \cup {NoFd}, describes : 0 .. MaxPlugs,
                 writeable : BOOLEAN]
  OBVIOUS
<1>3. UsbDeviceTypeOK
  BY <1>1, <1>2 DEF UsbDeviceTypeOK
<1>4. FilesOwned /\ WriteableTrue /\ QueuedAlive
  BY DEF FilesOwned, Owned, WriteableTrue, QueuedAlive
<1>5. InCall /\ Handle
  BY DEF InCall, Handle
<1> QED
  BY <1>3, <1>4, <1>5 DEF Holdings

(* No call, no failure and no change of the kernel's breaks it.            *)
LEMMA HoldingsNext == Holdings /\ [UsbDeviceNext]_usbDeviceVars => Holdings'
<1> SUFFICES ASSUME Holdings, [UsbDeviceNext]_usbDeviceVars PROVE Holdings'
  OBVIOUS
<1> USE UsbDeviceAssumption
    DEF Holdings, UsbDeviceTypeOK, FilesOwned, Owned, WriteableTrue,
        QueuedAlive, InCall, Handle, NoDevice, Closed,
        File, Free, Opened, Closing, Reachable, Goto, external, opening, mtp
<1>0. NoDevice \in [fd : Fds \cup {NoFd}, describes : 0 .. MaxPlugs,
                   writeable : BOOLEAN]
  OBVIOUS
<1>1. CASE Plug
  BY <1>1 DEF Plug
<1>2. CASE Unplug
  BY <1>2 DEF Unplug
<1>3. CASE Grant
  BY <1>3 DEF Grant
<1>4. CASE Open
  <2>1. didRetry' \in BOOLEAN /\ writeable' \in BOOLEAN /\ object' \in BOOLEAN
    BY <1>4, Zenon DEF Open
  <2>2. UsbDeviceTypeOK'
    BY <1>4, <2>1 DEF Open
  <2>3. FilesOwned' /\ WriteableTrue'
    BY <1>4 DEF Open
  <2>4. QueuedAlive' /\ (~object => \A r \in Requests : request[r] = "freed")'
    BY <1>4 DEF Open
  <2>5. InCall' /\ Handle'
    BY <1>4 DEF Open
  <2> QED
    BY <2>2, <2>3, <2>4, <2>5
<1>5. CASE OpenForWriting
  <2>1. didRetry' \in BOOLEAN /\ writeable' \in BOOLEAN /\ object' \in BOOLEAN
    BY <1>5, Zenon DEF OpenForWriting
  <2>2. UsbDeviceTypeOK'
    <3>1. ASSUME NEW f \in Fds, plugged # 0, files' = Opened(f, "write")
          PROVE  files' \in [Fds -> File \cup {Closed}]
      BY <3>1
    <3>2. files' \in [Fds -> File \cup {Closed}]
      BY <1>5, <3>1 DEF OpenForWriting
    <3> QED
      BY <1>5, <2>1, <3>2 DEF OpenForWriting
  <2>3. FilesOwned' /\ WriteableTrue'
    BY <1>5 DEF OpenForWriting
  <2>4. QueuedAlive' /\ (~object => \A r \in Requests : request[r] = "freed")'
    BY <1>5 DEF OpenForWriting
  <2>5. InCall' /\ Handle'
    BY <1>5, SMTT(40) DEF OpenForWriting
  <2> QED
    BY <2>2, <2>3, <2>4, <2>5
<1>6. CASE OpenForReading
  <2>1. didRetry' \in BOOLEAN /\ writeable' \in BOOLEAN /\ object' \in BOOLEAN
    BY <1>6, Zenon DEF OpenForReading
  <2>2. UsbDeviceTypeOK'
    <3>1. files' \in [Fds -> File \cup {Closed}]
      <4>1. ASSUME NEW f \in Fds, plugged # 0, files' = Opened(f, "read")
            PROVE  files' \in [Fds -> File \cup {Closed}]
        BY <4>1
      <4>2. CASE files' = files
        BY <4>2
      <4> QED
        BY <1>6, <4>1, <4>2 DEF OpenForReading
    <3>2. device' \in [fd : Fds \cup {NoFd}, describes : 0 .. MaxPlugs,
                      writeable : BOOLEAN]
      BY <1>6 DEF OpenForReading
    <3>3. request' \in [Requests -> {"freed", "idle", "queued", "done"}]
      BY <1>6 DEF OpenForReading
    <3> QED
      BY <1>6, <2>1, <3>1, <3>2, <3>3 DEF OpenForReading
  <2>3. FilesOwned' /\ WriteableTrue'
    BY <1>6 DEF OpenForReading
  <2>4. QueuedAlive' /\ (~object => \A r \in Requests : request[r] = "freed")'
    BY <1>6 DEF OpenForReading
  <2>5. InCall' /\ Handle'
    BY <1>6, SMTT(30) DEF OpenForReading
  <2> QED
    BY <2>2, <2>3, <2>4, <2>5
<1>7. CASE Retry
  <2>1. didRetry' \in BOOLEAN /\ writeable' \in BOOLEAN /\ object' \in BOOLEAN
    BY <1>7, Zenon DEF Retry
  <2>2. UsbDeviceTypeOK'
    BY <1>7, <2>1 DEF Retry
  <2>3. FilesOwned' /\ WriteableTrue'
    BY <1>7 DEF Retry
  <2>4. QueuedAlive' /\ (~object => \A r \in Requests : request[r] = "freed")'
    BY <1>7 DEF Retry
  <2>5. InCall' /\ Handle'
    BY <1>7 DEF Retry
  <2> QED
    BY <2>2, <2>3, <2>4, <2>5
<1>8. CASE DeviceNew
  BY <1>8, SMTT(30) DEF DeviceNew, New
<1>9. CASE MtpDeviceNew
  <2>1. CASE device' = device
    <3>1. /\ files' = [g \in Fds |-> IF g = fd THEN Closed ELSE files[g]]
          /\ device' = NoDevice /\ fd' = NoFd /\ pc' = "idle"
          /\ UNCHANGED <<external, didRetry, writeable, at, mtp, calls>>
      BY <1>9, <2>1 DEF MtpDeviceNew, New
    <3>2. UsbDeviceTypeOK'
      BY <1>0, <3>1
    <3>3. FilesOwned' /\ WriteableTrue' /\ QueuedAlive'
      BY <1>9, <3>1 DEF MtpDeviceNew
    <3>4. InCall' /\ Handle'
      BY <1>9, <3>1 DEF MtpDeviceNew
    <3> QED
      BY <3>1, <3>2, <3>3, <3>4
  <2>2. CASE device' # device
    BY <1>9, <2>2 DEF MtpDeviceNew, New
  <2> QED
    BY <2>1, <2>2
<1>10. CASE Search
  <2>1. didRetry' \in BOOLEAN /\ writeable' \in BOOLEAN /\ object' \in BOOLEAN
    BY <1>10, Zenon DEF Search, Fail
  <2>2. UsbDeviceTypeOK'
    <3>1. files' \in [Fds -> File \cup {Closed}]
      BY <1>10 DEF Search, Fail
    <3>2. device' \in [fd : Fds \cup {NoFd}, describes : 0 .. MaxPlugs,
                      writeable : BOOLEAN]
      BY <1>0, <1>10 DEF Search, Fail
    <3>3. request' \in [Requests -> {"freed", "idle", "queued", "done"}]
      BY <1>10 DEF Search, Fail
    <3> QED
      BY <1>10, <2>1, <3>1, <3>2, <3>3 DEF Search, Fail
  <2>3. FilesOwned' /\ WriteableTrue'
    BY <1>10 DEF Search, Fail
  <2>4. QueuedAlive' /\ (~object => \A r \in Requests : request[r] = "freed")'
    BY <1>10 DEF Search, Fail
  <2>5. InCall' /\ Handle'
    BY <1>10 DEF Search, Fail
  <2> QED
    BY <2>2, <2>3, <2>4, <2>5
<1>11. CASE FindEndpoints
  <2>1. didRetry' \in BOOLEAN /\ writeable' \in BOOLEAN /\ object' \in BOOLEAN
    BY <1>11, Zenon DEF FindEndpoints, Fail
  <2>2. UsbDeviceTypeOK'
    <3>1. files' \in [Fds -> File \cup {Closed}]
      BY <1>11 DEF FindEndpoints, Fail
    <3>2. device' \in [fd : Fds \cup {NoFd}, describes : 0 .. MaxPlugs,
                      writeable : BOOLEAN]
      BY <1>0, <1>11 DEF FindEndpoints, Fail
    <3>3. request' \in [Requests -> {"freed", "idle", "queued", "done"}]
      BY <1>11 DEF FindEndpoints, Fail
    <3> QED
      BY <1>11, <2>1, <3>1, <3>2, <3>3 DEF FindEndpoints, Fail
  <2>3. FilesOwned' /\ WriteableTrue'
    BY <1>11 DEF FindEndpoints, Fail
  <2>4. QueuedAlive' /\ (~object => \A r \in Requests : request[r] = "freed")'
    BY <1>11 DEF FindEndpoints, Fail
  <2>5. InCall'
    BY <1>11 DEF FindEndpoints, Fail
  <2>6. Handle'
    BY <1>11 DEF FindEndpoints, Fail
  <2> QED
    BY <2>2, <2>3, <2>4, <2>5, <2>6
<1>12. CASE ClaimInterface
  <2>1. didRetry' \in BOOLEAN /\ writeable' \in BOOLEAN /\ object' \in BOOLEAN
    BY <1>12, Zenon DEF ClaimInterface, Fail
  <2>2. UsbDeviceTypeOK'
    <3>1. files' \in [Fds -> File \cup {Closed}]
      BY <1>12 DEF ClaimInterface, Fail
    <3>2. device' \in [fd : Fds \cup {NoFd}, describes : 0 .. MaxPlugs,
                      writeable : BOOLEAN]
      BY <1>0, <1>12 DEF ClaimInterface, Fail
    <3>3. request' \in [Requests -> {"freed", "idle", "queued", "done"}]
      BY <1>12 DEF ClaimInterface, Fail
    <3> QED
      BY <1>12, <2>1, <3>1, <3>2, <3>3 DEF ClaimInterface, Fail
  <2>3. FilesOwned' /\ WriteableTrue'
    BY <1>12 DEF ClaimInterface, Fail
  <2>4. QueuedAlive' /\ (~object => \A r \in Requests : request[r] = "freed")'
    BY <1>12 DEF ClaimInterface, Fail
  <2>5. InCall' /\ Handle'
    BY <1>12 DEF ClaimInterface, Fail
  <2> QED
    BY <2>2, <2>3, <2>4, <2>5
<1>13. CASE ReopenWriteable
  <2>1. PICK f \in Free :
          /\ files' = [Opened(f, "write") EXCEPT ![device.fd] = Closed]
          /\ device' = [device EXCEPT !.fd = f, !.writeable = TRUE]
    BY <1>13 DEF ReopenWriteable
  <2>2. device.fd \in Fds /\ f \in Fds /\ f # device.fd
    BY <1>13 DEF ReopenWriteable
  <2>3. device' = [fd |-> f, describes |-> device.describes,
                   writeable |-> TRUE]
    BY <2>1
  <2>4. /\ device' # NoDevice
        /\ device' \in [fd : Fds \cup {NoFd}, describes : 0 .. MaxPlugs,
                       writeable : BOOLEAN]
    BY <2>2, <2>3
  <2>5. files' = [g \in Fds |->
          IF g = f THEN [device |-> plugged, mode |-> "write"]
          ELSE IF g = device.fd THEN Closed ELSE files[g]]
    BY <2>1, <2>2
  <2>6. files' \in [Fds -> File \cup {Closed}]
    BY <1>13, <2>2, <2>5 DEF ReopenWriteable
  <2>7. UsbDeviceTypeOK'
    <3>1. didRetry' \in BOOLEAN /\ writeable' \in BOOLEAN /\ object' \in BOOLEAN
      BY <1>13, Zenon DEF ReopenWriteable
    <3> QED
      BY <1>13, <2>4, <2>6, <3>1 DEF ReopenWriteable
  <2>8. FilesOwned'
    BY <1>13, <2>2, <2>3, <2>4, <2>5 DEF ReopenWriteable
  <2>9. WriteableTrue'
    <3>1. files'[device'.fd] = [device |-> plugged, mode |-> "write"]
      BY <2>2, <2>3, <2>5
    <3>2. device'.writeable = TRUE
      BY <2>3
    <3>3. files'[device'.fd].mode = "write"
      BY <3>1
    <3> QED
      BY <3>2, <3>3
  <2>10. QueuedAlive' /\ (~object => \A r \in Requests : request[r] = "freed")'
    BY <1>13, <2>4 DEF ReopenWriteable
  <2>11. InCall' /\ Handle'
    BY <1>13, <2>2, <2>3, <2>4, <2>5, SMTT(60) DEF ReopenWriteable
  <2> QED
    BY <2>7, <2>8, <2>9, <2>10, <2>11
<1>14. CASE DeviceClose
  <2>1. /\ files' = [g \in Fds |-> IF g = device.fd THEN Closed ELSE files[g]]
        /\ device' = NoDevice
        /\ UNCHANGED <<external, opening, mtp, calls>>
    BY <1>14, ZenonT(40) DEF DeviceClose
  <2>2. UsbDeviceTypeOK'
    BY <1>0, <2>1
  <2>3. FilesOwned' /\ WriteableTrue' /\ QueuedAlive'
    BY <1>14, <2>1 DEF DeviceClose
  <2>4. InCall' /\ Handle'
    BY <1>14, <2>1 DEF DeviceClose
  <2> QED
    BY <2>1, <2>2, <2>3, <2>4
<1>15. CASE MtpOpen
  BY <1>15 DEF MtpOpen
<1>16. CASE MtpClose
  BY <1>16 DEF MtpClose, Dropped
<1>17. CASE MtpDestroy
  BY <1>17 DEF MtpDestroy
<1>18. ASSUME NEW r \in Requests, QueueRequest(r) PROVE Holdings'
  BY <1>18 DEF QueueRequest
<1>19. ASSUME NEW r \in Requests, Complete(r) PROVE Holdings'
  BY <1>19 DEF Complete
<1>20. ASSUME NEW r \in Requests, WaitRequest(r) PROVE Holdings'
  BY <1>20 DEF WaitRequest
<1>21. ASSUME NEW r \in Requests, CancelRequest(r) PROVE Holdings'
  BY <1>21 DEF CancelRequest
<1>22. CASE UNCHANGED usbDeviceVars
  BY <1>22 DEF usbDeviceVars
<1> QED
  BY <1>1, <1>2, <1>3, <1>4, <1>5, <1>6, <1>7, <1>8, <1>9, <1>10, <1>11, <1>12, 
     <1>13, <1>14, <1>15, <1>16, <1>17, <1>18, <1>19, <1>20, <1>21, <1>22
     DEF UsbDeviceNext, Kernel, Proceed, Client

(* All of it holds in every state.                                         *)
THEOREM HoldingsHold == UsbDeviceSpec => []Holdings
<1> QED
  BY HoldingsInit, HoldingsNext, PTL DEF UsbDeviceSpec

-----------------------------------------------------------------------------
(* The search for an interface: those passed over gave a name that is not  *)
(* MTP's, or none; the one looked at passed what was tested so far; and    *)
(* while it runs no interface is claimed.                                  *)
Passed(i) ==
  /\ interfaces[i].class # "vendor"
  /\ \A k \in 1 .. i - 1 : interfaces[k].class \in {"mtp", "vendor"}

Searching ==
  /\ pc = "mtp_new" => at = 1
  /\ pc \in {"search", "endpoints", "claim"} =>
       \A k \in 1 .. at - 1 : interfaces[k].class \in {"mtp", "vendor"}
  /\ pc \in {"endpoints", "claim"} => Passed(at)
  /\ pc = "claim" => Endpoints(at) = {"bulk_in", "bulk_out", "intr_in"}

Claimed ==
  mInterface # 0 =>
    /\ object /\ device # NoDevice
    /\ Endpoints(mInterface) = {"bulk_in", "bulk_out", "intr_in"}
    /\ Passed(mInterface)

(* No step lets the search pass over an interface that would have done, or *)
(* leaves an interface claimed without its device.                         *)
LEMMA SearchingNext ==
  Holdings /\ Searching /\ Claimed /\ [UsbDeviceNext]_usbDeviceVars =>
    Searching' /\ Claimed'
<1> SUFFICES ASSUME Holdings, Searching, Claimed,
                    [UsbDeviceNext]_usbDeviceVars
             PROVE  Searching' /\ Claimed'
  OBVIOUS
<1>1. interfaces' = interfaces
  BY DEF UsbDeviceNext, Kernel, Proceed, Client, usbDeviceVars, external,
         Plug, Unplug, Grant, Complete, Open, OpenForWriting, OpenForReading,
         Retry, DeviceNew, MtpDeviceNew, Search, FindEndpoints,
         ClaimInterface, ReopenWriteable, DeviceClose, MtpOpen, MtpClose,
         MtpDestroy, QueueRequest, WaitRequest, CancelRequest
<1>2. at \in Nat /\ (pc # "idle" => ~object) /\ (~object => mInterface = 0)
  BY DEF Holdings, InCall, UsbDeviceTypeOK, Claimed
<1>3. ASSUME UNCHANGED <<pc, at>> \/ pc' \notin {"mtp_new", "search",
                                                "endpoints", "claim"}
      PROVE  Searching'
  BY <1>1, <1>3 DEF Searching, Passed, Endpoints
<1>4. ASSUME UNCHANGED <<mInterface, object>>,
             device # NoDevice /\ object => device' # NoDevice
      PROVE  Claimed'
  BY <1>1, <1>2, <1>4 DEF Claimed, Passed, Endpoints
<1>5. CASE Kernel
  BY <1>3, <1>4, <1>5
     DEF Kernel, Plug, Unplug, Grant, Complete, opening, mtp
<1>6. CASE Open
  BY <1>2, <1>3, <1>4, <1>6 DEF Open, Goto, mtp
<1>7. CASE OpenForWriting
  BY <1>2, <1>3, <1>4, <1>7 DEF OpenForWriting, Goto, mtp
<1>8. CASE OpenForReading
  BY <1>2, <1>3, <1>4, <1>8 DEF OpenForReading, Goto, mtp
<1>9. CASE Retry
  BY <1>2, <1>3, <1>4, <1>9 DEF Retry, Goto, mtp
<1>10. CASE DeviceNew
  BY <1>2, <1>3, <1>4, <1>10 DEF DeviceNew, New, Goto, mtp
<1>11. CASE MtpDeviceNew
  <2>1. Claimed'
    BY <1>2, <1>4, <1>11 DEF MtpDeviceNew, New, Goto, mtp
  <2>2. at' = 1 /\ pc' \in {"search", "idle"}
    BY <1>11 DEF MtpDeviceNew, New, Goto, Searching
  <2> QED
    BY <2>1, <2>2 DEF Searching
<1>12. CASE Search
  <2>1. Claimed'
    BY <1>2, <1>4, <1>12 DEF Search, Fail, Goto, mtp
  <2>2. CASE at > Len(interfaces)
    BY <1>2, <1>3, <1>12, <2>1, <2>2 DEF Search, Fail, Goto
  <2>3. CASE /\ interfaces[at].class # "vendor"
             /\ pc = "search" /\ pc' = "endpoints" /\ at' = at
    BY <1>1, <2>1, <2>3 DEF Searching, Passed
  <2>4. CASE /\ interfaces[at].class \in {"mtp", "vendor"}
             /\ pc = "search" /\ pc' = "search" /\ at' = at + 1
    <3>1. ASSUME NEW k \in 1 .. at' - 1
          PROVE  interfaces[k].class \in {"mtp", "vendor"}
      <4>1. k \in 1 .. at - 1 \/ k = at
        BY <1>2, <2>4
      <4> QED
        BY <2>4, <4>1 DEF Searching
    <3> QED
      BY <1>1, <2>1, <2>4, <3>1 DEF Searching
  <2> QED
    BY <1>2, <1>12, <2>2, <2>3, <2>4 DEF Search, Goto
<1>13. CASE FindEndpoints
  <2>1. Claimed'
    BY <1>2, <1>4, <1>13 DEF FindEndpoints, Fail, Goto, mtp
  <2>2. Searching'
    BY <1>1, <1>13
       DEF FindEndpoints, Fail, Goto, Searching, Passed, Endpoints
  <2> QED
    BY <2>1, <2>2
<1>14. CASE ClaimInterface
  <2>1. Searching'
    BY <1>3, <1>14 DEF ClaimInterface, Fail, Goto
  <2>2. CASE mInterface' = at /\ object' = TRUE /\ device' = device
    <3>1. device' # NoDevice
      BY <1>14, <2>2 DEF ClaimInterface, Holdings, InCall, NoDevice
    <3> QED
      BY <1>1, <1>14, <2>1, <2>2, <3>1
         DEF ClaimInterface, Searching, Claimed, Passed, Endpoints
  <2>3. CASE UNCHANGED <<mInterface, object>>
    BY <1>2, <1>4, <1>14, <2>1, <2>3 DEF ClaimInterface
  <2> QED
    BY <1>14, <2>2, <2>3 DEF ClaimInterface
<1>15. CASE ReopenWriteable
  <2>1. Searching'
    BY <1>3, <1>15 DEF ReopenWriteable, opening
  <2>2. PICK f \in Free : device' = [device EXCEPT !.fd = f, !.writeable = TRUE]
    BY <1>15 DEF ReopenWriteable
  <2>3. device' # NoDevice
    <3>1. f \in Fds /\ f # NoFd
      BY <2>2, UsbDeviceAssumption DEF Free
    <3>2. device'.fd = f
      BY <2>2 DEF Holdings, UsbDeviceTypeOK
    <3> QED
      BY <3>1, <3>2 DEF NoDevice
  <2> QED
    BY <1>4, <1>15, <2>1, <2>3 DEF ReopenWriteable, mtp
<1>16. CASE DeviceClose
  BY <1>2, <1>3, <1>4, <1>16 DEF DeviceClose, opening, mtp
<1>17. CASE MtpOpen
  <2>1. Claimed'
    BY <1>2, <1>4, <1>17 DEF MtpOpen, mtp
  <2>2. at' = 1 /\ pc' = "mtp_new"
    BY <1>17 DEF MtpOpen, Goto
  <2> QED
    BY <2>1, <2>2 DEF Searching
<1>18. CASE MtpClose
  BY <1>3, <1>18 DEF MtpClose, opening, Claimed
<1>19. CASE MtpDestroy
  BY <1>3, <1>18, <1>19 DEF MtpDestroy, opening, Claimed
<1>20. CASE \E r \in Requests :
              QueueRequest(r) \/ WaitRequest(r) \/ CancelRequest(r)
  BY <1>3, <1>4, <1>20 DEF QueueRequest, WaitRequest, CancelRequest, opening
<1>21. CASE UNCHANGED usbDeviceVars
  BY <1>3, <1>4, <1>21 DEF usbDeviceVars, opening, mtp
<1> QED
  BY <1>5, <1>6, <1>7, <1>8, <1>9, <1>10, <1>11, <1>12, <1>13, <1>14, <1>15,
     <1>16, <1>17, <1>18, <1>19, <1>20, <1>21
     DEF UsbDeviceNext, Proceed, Client

(* The state is well formed, and what MtpDevice::open has claimed is the   *)
(* first interface that passes, on a device that is still open.            *)
THEOREM UsbDeviceInvHolds == UsbDeviceSpec => []UsbDeviceInv
<1>1. UsbDeviceInit => Searching /\ Claimed
  BY DEF UsbDeviceInit, Searching, Claimed
<1>2. Holdings /\ Claimed => UsbDeviceInv
  BY DEF Holdings, Claimed, Passed, UsbDeviceInv, FirstLikely
<1> QED
  BY <1>1, <1>2, HoldingsHold, SearchingNext, PTL DEF UsbDeviceSpec

(* usb_device_open, usb_device_new and MtpDevice::open close what they     *)
(* opened on every path that fails, once, and keep it on the others.       *)
THEOREM FilesOwnedHolds == UsbDeviceSpec => []FilesOwned
<1>1. Holdings => FilesOwned
  BY DEF Holdings
<1> QED
  BY <1>1, HoldingsHold, PTL

(* The flag writeable tells the mode of the handle's file, whatever the    *)
(* attempts, the retry and the reopening made of it.                       *)
THEOREM WriteableTrueHolds == UsbDeviceSpec => []WriteableTrue
<1>1. Holdings => WriteableTrue
  BY DEF Holdings
<1> QED
  BY <1>1, HoldingsHold, PTL

(* The destructor of MtpDevice frees no request the kernel still holds.    *)
THEOREM QueuedAliveHolds == UsbDeviceSpec => []QueuedAlive
<1>1. Holdings => QueuedAlive
  BY DEF Holdings
<1> QED
  BY <1>1, HoldingsHold, PTL
=============================================================================
