----------------------------- MODULE MtpDevice ------------------------------
(***************************************************************************)
(* The host's side (src/MtpDevice.cpp over MtpDataPacket, MtpResponse-     *)
(* Packet, MtpPacket::transfer and libusbhost): threads of an application  *)
(* share one MtpDevice and talk to an MTP device through two bulk pipes.   *)
(* A pipe is a sequence of transfers; an object is cut into chunks, the    *)
(* first of which comes with the header of its container.  The device is   *)
(* external: it answers every request in turn, and may refuse it.          *)
(***************************************************************************)
EXTENDS Integers, Sequences

CONSTANTS
  Threads,      \* the application's threads
  NoThread,     \* the mutex is free
  Operations,   \* the operations they call once the session is open
  MaxCalls,     \* bound: calls made in all
  MaxChunks,    \* bound: chunks of an object
  Faults        \* what may go wrong: "unplug", "callback", "refuse"

ASSUME DeviceAssumption ==
  /\ NoThread \notin Threads
  /\ MaxCalls \in Nat /\ MaxChunks \in Nat
  /\ Operations \subseteq {"GetInfo", "DeleteObject", "SendObjectInfo",
                           "SendObject", "ReadObject", "ReadFile"}
  /\ Faults \subseteq {"unplug", "callback", "refuse"}

VARIABLES
  mMutex,             \* the thread that holds it
  mTransactionID,
  mReceivedResponse,
  mData,              \* content of the shared data packet
  mResponse,          \* content of the shared response packet
  call,               \* per thread: its latest call, where it is, its locals
  urb,                \* the read request queued with the kernel
  buffer,             \* the two buffers objects are read into
  pipeOut, pipeIn,    \* transfers on their way to and from the device
  device,             \* external: what the device is doing
  connected,          \* external: the cable is plugged in
  calls,              \* history: calls made
  outOfStep           \* history: the host left, or misread, a transaction the
                      \* device had not finished

shared == <<mTransactionID, mReceivedResponse, mData, mResponse>>
usb == <<urb, buffer>>
pipes == <<pipeOut, pipeIn>>
external == <<device, connected>>
deviceVars ==
  <<mMutex, shared, call, usb, pipes, external, calls, outOfStep>>

Transfer(kind, serial, n) == [kind |-> kind, serial |-> serial, n |-> n]
Nothing == Transfer("none", 0, 0)
Responses == {"OK", "SESSION_ALREADY_OPEN", "ERROR"}
Reads == {"ReadObject", "ReadFile"}

At(t, pc) == call[t].pc = pc
Op(t) == call[t].op
Goto(t, pc) == call' = [call EXCEPT ![t].pc = pc]
Return(t, result) ==
  call' = [call EXCEPT ![t].pc = "unlock", ![t].result = result]

NoCall ==
  [pc |-> "idle", op |-> "none", serial |-> 0, size |-> 0, remaining |-> 0,
   req |-> 1, writeBuffer |-> 0, got |-> <<>>, result |-> FALSE,
   answer |-> Nothing]
NoUrb == [state |-> "none", buffer |-> 0]

Init ==
  /\ mMutex = NoThread
  /\ mTransactionID = 0 /\ mReceivedResponse = FALSE
  /\ mData = Nothing /\ mResponse = Nothing
  /\ call = [t \in Threads |-> NoCall]
  /\ urb = NoUrb /\ buffer = [b \in 1 .. 2 |-> Nothing]
  /\ pipeOut = <<>> /\ pipeIn = <<>>
  /\ device = [mode |-> "idle", serial |-> 0, n |-> 0, total |-> 0]
  /\ connected = TRUE /\ calls = 0 /\ outOfStep = FALSE

-----------------------------------------------------------------------------
(* Calls, requests and responses.                                          *)

\* A call starts: of an object to read or send the caller names the size.
NewCall(t) ==
  /\ At(t, "idle") /\ calls < MaxCalls
  /\ calls' = calls + 1
  /\ \E op \in Operations \cup {"OpenSession"}, size \in 0 .. MaxChunks :
       /\ (op = "OpenSession") = (calls = 0)
       /\ size = 0 \/ op \in {"ReadObject", "SendObject"}
       /\ call' = [call EXCEPT ![t] = [NoCall EXCEPT
            !.pc = "request", !.op = op, !.serial = calls + 1, !.size = size,
            !.remaining = size]]

\* Mutation of Lock: the mutex is not waited for.
LockNot(t) ==
  /\ mMutex' = t
  /\ NewCall(t)
  /\ UNCHANGED <<shared, usb, pipes, external, outOfStep>>

\* MtpAutolock autoLock(mMutex) at the head of every operation.
Lock(t) ==
  /\ mMutex = NoThread /\ mMutex' = t
  /\ NewCall(t)
  /\ UNCHANGED <<shared, usb, pipes, external, outOfStep>>

Unlock(t) ==
  /\ At(t, "unlock")
  /\ mMutex' = NoThread
  /\ Goto(t, "idle")
  /\ UNCHANGED <<shared, usb, pipes, external, calls, outOfStep>>

\* What an operation does once its request is out.
AfterRequest ==
  [OpenSession |-> "response", DeleteObject |-> "response",
   GetInfo |-> "data", SendObjectInfo |-> "send_data",
   SendObject |-> "send_header", ReadObject |-> "read_header",
   ReadFile |-> "read_header"]

\* Only sendObject goes on to the response when the request was not written.
SendRequest(t) ==
  /\ At(t, "request")
  /\ mReceivedResponse' = FALSE
  /\ mTransactionID' = IF Op(t) = "OpenSession" THEN 0
                       ELSE IF mTransactionID > 0 THEN mTransactionID + 1
                       ELSE 0
  /\ \/ /\ connected
        /\ pipeOut' = Append(pipeOut, Transfer(Op(t), call[t].serial, 0))
        /\ Goto(t, AfterRequest[Op(t)])
     \/ /\ ~connected
        /\ IF Op(t) = "SendObject" THEN Goto(t, "response") ELSE Return(t, FALSE)
        /\ UNCHANGED pipeOut
  /\ UNCHANGED <<mMutex, mData, mResponse, usb, pipeIn, external, calls,
                 outOfStep>>

\* The calls that only ask: a data container is expected.  A response in its
\* place ends the call.  What is left of an object has any header: it may pass
\* for a data container, and its length may span any number of transfers.
ReadData(t) ==
  /\ At(t, "data")
  /\ \/ /\ ~connected
        /\ mData' = Nothing /\ Return(t, FALSE)
        /\ UNCHANGED <<mReceivedResponse, mResponse, pipeIn>>
     \/ /\ connected /\ pipeIn # <<>>
        /\ mData' = Head(pipeIn)
        /\ mReceivedResponse' = (mData'.kind \in Responses)
        /\ mResponse' = IF mData'.kind \in Responses THEN mData' ELSE mResponse
        /\ \E span \in IF mData'.kind = "chunk" THEN DOMAIN pipeIn ELSE {1} :
             pipeIn' = SubSeq(pipeIn, span + 1, Len(pipeIn))
        /\ \/ mData'.kind \in {"data", "chunk"} /\ Goto(t, "response")
           \/ /\ mData'.kind # "data"
              /\ call' = [call EXCEPT ![t].pc = "unlock", ![t].answer = mData']
  /\ UNCHANGED <<mMutex, mTransactionID, usb, pipeOut, external, calls,
                 outOfStep>>

\* How an operation reads its result off the response.
Finished(t, r) ==
  call' = [call EXCEPT ![t].pc = "unlock", ![t].answer = r, ![t].result =
    \/ r.kind = "OK" /\ (Op(t) = "SendObject" => call[t].remaining = 0)
    \/ r.kind = "SESSION_ALREADY_OPEN" /\ Op(t) = "OpenSession"]

\* Mutation of ReadResponse: a zero-length packet is taken for the response.
ReadResponseOnce(t) ==
  /\ At(t, "response") /\ connected /\ pipeIn # <<>>
  /\ mResponse' = Head(pipeIn) /\ pipeIn' = Tail(pipeIn)
  /\ Finished(t, mResponse')
  /\ UNCHANGED <<mMutex, mTransactionID, mReceivedResponse, mData, usb,
                 pipeOut, external, calls, outOfStep>>

\* "handle zero length packets": one is skipped, a second one is a failure.
\* openSession starts counting transactions when it succeeds.
ReadResponse(t) ==
  /\ call[t].pc \in {"response", "response_again"}
  /\ \/ /\ ~connected
        /\ Return(t, FALSE)
        /\ UNCHANGED <<mTransactionID, mResponse, pipeIn>>
     \/ /\ connected /\ pipeIn # <<>>
        /\ mResponse' = Head(pipeIn) /\ pipeIn' = Tail(pipeIn)
        /\ IF mResponse'.kind = "zlp" /\ At(t, "response")
           THEN Goto(t, "response_again") /\ UNCHANGED mTransactionID
           ELSE /\ Finished(t, mResponse')
                /\ mTransactionID' =
                     IF Op(t) = "OpenSession" /\ call'[t].result THEN 1
                     ELSE mTransactionID
  /\ UNCHANGED <<mMutex, mReceivedResponse, mData, usb, pipeOut, external,
                 calls, outOfStep>>

-----------------------------------------------------------------------------
(* Sending.                                                                *)

\* sendObjectInfo writes its dataset.  MtpDataPacket::write returns 0 when all
\* went well, sendData asks for more than 0: the call always ends here, with
\* -1, and never reads the response.
SendData(t) ==
  /\ At(t, "send_data")
  /\ mData' = Transfer("data", call[t].serial, 1)
  /\ pipeOut' = IF connected
       THEN Append(pipeOut, Transfer("data", call[t].serial, 0)) ELSE pipeOut
  /\ outOfStep' = TRUE
  /\ Return(t, FALSE)
  /\ UNCHANGED <<mMutex, mTransactionID, mReceivedResponse, mResponse, usb,
                 pipeIn, external, calls>>

\* Mutation of SendHeader: the header is not sent.
SendHeaderNot(t) ==
  /\ At(t, "send_header")
  /\ Goto(t, "send_chunk")
  /\ UNCHANGED <<mMutex, mTransactionID, mReceivedResponse, mData, mResponse,
                 usb, pipes, external, calls, outOfStep>>

\* The header takes the length field of mData, whose content stays.
SendHeader(t) ==
  /\ At(t, "send_header")
  /\ mData' = [mData EXCEPT !.n = call[t].size]
  /\ pipeOut' = IF connected
       THEN Append(pipeOut, Transfer("data", call[t].serial, call[t].size))
       ELSE pipeOut
  /\ Goto(t, "send_chunk")
  /\ UNCHANGED <<mMutex, mTransactionID, mReceivedResponse, mResponse, usb,
                 pipeIn, external, calls, outOfStep>>

\* One turn of sendObject's loop; the file may end before the size it was said
\* to have, and whether the chunk was written is not looked at.
SendChunk(t) ==
  /\ At(t, "send_chunk")
  /\ \/ /\ call[t].remaining > 0
        /\ pipeOut' = IF connected
             THEN Append(pipeOut, Transfer("chunk", call[t].serial,
                                           call[t].size - call[t].remaining))
             ELSE pipeOut
        /\ call' = [call EXCEPT ![t].remaining = @ - 1]
     \/ Goto(t, "response") /\ UNCHANGED pipeOut
  /\ UNCHANGED <<mMutex, shared, usb, pipeIn, external, calls, outOfStep>>

-----------------------------------------------------------------------------
(* readObject: an object is read with two buffers, the next read queued     *)
(* while the last chunk is handed to the callback or written to the file.  *)

\* A call that gives up before the device has finished its answer.
Abandon(t) == Return(t, FALSE) /\ outOfStep' = TRUE

\* What the header packet brought: nothing, or the object's first chunk, which
\* the callback may refuse.
InitialData(t) ==
  IF mData'.n = 0
  THEN /\ call' = [call EXCEPT ![t].pc = "loop", ![t].remaining = 0]
       /\ outOfStep' = (outOfStep \/ mData'.kind # "data")
  ELSE \/ /\ call' = [call EXCEPT ![t].pc = "loop",
                      ![t].remaining = mData'.n - 1, ![t].size = mData'.n,
                      ![t].got = <<<<mData'.serial, 0>>>>]
          /\ UNCHANGED outOfStep
       \/ "callback" \in Faults /\ Abandon(t)

\* readDataHeader: -1 counts as success, and mData is then what it was; a
\* response passes for a header without data.  readObject with a callback
\* leaves if the length is not the object's, readObject to a file if it is
\* shorter than a header.
ReadDataHeader(t) ==
  /\ At(t, "read_header")
  /\ IF connected
     THEN /\ pipeIn # <<>>
          /\ mData' = Head(pipeIn) /\ pipeIn' = Tail(pipeIn)
     ELSE UNCHANGED <<mData, pipeIn>>
  /\ IF \/ mData'.kind \in {"zlp", "none"}
        \/ Op(t) = "ReadObject" /\ mData'.n # call[t].size
     THEN IF mData'.kind \in Responses THEN Return(t, FALSE) /\ UNCHANGED outOfStep
          ELSE Abandon(t)
     ELSE InitialData(t)
  /\ UNCHANGED <<mMutex, mTransactionID, mReceivedResponse, mResponse, usb,
                 pipeOut, external, calls>>

\* The head of the loop: a read is queued while something remains.
QueueRead(t) ==
  /\ At(t, "loop")
  /\ \/ /\ call[t].remaining > 0 /\ connected
        /\ urb' = [state |-> "queued", buffer |-> call[t].req]
        /\ Goto(t, "write")
        /\ UNCHANGED outOfStep
     \/ /\ call[t].remaining > 0 /\ ~connected
        /\ Abandon(t) /\ UNCHANGED urb
     \/ /\ call[t].remaining = 0
        /\ IF call[t].writeBuffer = 0 THEN Goto(t, "response")
           ELSE Goto(t, "write")
        /\ UNCHANGED <<urb, outOfStep>>
  /\ UNCHANGED <<mMutex, shared, buffer, pipes, external, calls>>

\* The previous chunk is handed over as the buffer holds it now.  When that is
\* refused, the queued read is waited for and the rest is left in the pipe.
WriteBuffer(t) ==
  LET b == call[t].writeBuffer IN
  /\ At(t, "write")
  /\ \/ b = 0 /\ Goto(t, "wait") /\ UNCHANGED outOfStep
     \/ /\ b # 0
        /\ call' = [call EXCEPT ![t].pc = "wait", ![t].writeBuffer = 0,
             ![t].got = Append(@, <<buffer[b].serial, buffer[b].n>>)]
        /\ UNCHANGED outOfStep
     \/ /\ b # 0 /\ "callback" \in Faults
        /\ IF urb.state = "none" THEN Return(t, FALSE) ELSE Goto(t, "drain")
        /\ outOfStep' = TRUE
  /\ UNCHANGED <<mMutex, shared, usb, pipes, external, calls>>

Drain(t) ==
  /\ At(t, "drain") /\ (urb.state = "done" \/ ~connected)
  /\ urb' = NoUrb
  /\ Return(t, FALSE)
  /\ UNCHANGED <<mMutex, shared, buffer, pipes, external, calls, outOfStep>>

\* Mutation of ReadDataWait: the same request is used for every read.
ReadDataWaitOneBuffer(t) ==
  /\ At(t, "wait") /\ urb.state = "done"
  /\ urb' = NoUrb
  /\ call' = [call EXCEPT ![t].pc = "loop",
       ![t].writeBuffer = call[t].req, ![t].remaining = @ - 1]
  /\ UNCHANGED <<mMutex, shared, buffer, pipes, external, calls, outOfStep>>

\* The queued read is waited for; what it brought is written in the next turn,
\* from its buffer, while the other buffer is read into.
ReadDataWait(t) ==
  /\ At(t, "wait")
  /\ \/ urb.state = "none" /\ Goto(t, "loop") /\ UNCHANGED <<urb, outOfStep>>
     \/ /\ urb.state = "queued" /\ ~connected
        /\ urb' = NoUrb /\ Abandon(t)
     \/ /\ urb.state = "done"
        /\ urb' = NoUrb
        /\ IF buffer[call[t].req].kind = "zlp" THEN Goto(t, "loop")
           ELSE call' = [call EXCEPT ![t].pc = "loop",
                  ![t].writeBuffer = call[t].req, ![t].req = 3 - @,
                  ![t].remaining = @ - 1]
        /\ UNCHANGED outOfStep
  /\ UNCHANGED <<mMutex, shared, buffer, pipes, external, calls>>

\* The kernel completes the queued read with the next transfer.
CompleteRead ==
  /\ urb.state = "queued" /\ connected /\ pipeIn # <<>>
  /\ urb' = [urb EXCEPT !.state = "done"]
  /\ buffer' = [buffer EXCEPT ![urb.buffer] = Head(pipeIn)]
  /\ pipeIn' = Tail(pipeIn)
  /\ UNCHANGED <<mMutex, shared, call, pipeOut, external, calls, outOfStep>>

HostStep(t) ==
  \/ Unlock(t) \/ SendRequest(t) \/ ReadData(t) \/ ReadResponse(t)
  \/ SendData(t) \/ SendHeader(t) \/ SendChunk(t)
  \/ ReadDataHeader(t) \/ QueueRead(t) \/ WriteBuffer(t) \/ Drain(t)
  \/ ReadDataWait(t)

-----------------------------------------------------------------------------
(* External: the device and the cable.                                     *)

Respond(serial) ==
  \E kind \in {"OK"} \cup (IF "refuse" \in Faults THEN {"ERROR"} ELSE {}) :
    pipeIn' = Append(pipeIn, Transfer(kind, serial, 0))

\* The next request: answered at once, or with data to come or to receive.
DeviceRequest ==
  LET c == Head(pipeOut) IN
  /\ device.mode = "idle" /\ pipeOut # <<>> /\ c.kind \in DOMAIN AfterRequest
  /\ pipeOut' = Tail(pipeOut)
  /\ \/ /\ c.kind = "OpenSession"
        /\ \E kind \in {"OK", "SESSION_ALREADY_OPEN"} :
             pipeIn' = Append(pipeIn, Transfer(kind, c.serial, 0))
        /\ UNCHANGED device
     \/ /\ c.kind = "DeleteObject"
        /\ Respond(c.serial) /\ UNCHANGED device
     \/ /\ c.kind \in {"SendObjectInfo", "SendObject"}
        /\ device' = [device EXCEPT !.mode = "receiving", !.serial = c.serial]
        /\ UNCHANGED pipeIn
     \/ /\ c.kind \in Reads \cup {"GetInfo"}
        /\ "refuse" \in Faults
        /\ pipeIn' = Append(pipeIn, Transfer("ERROR", c.serial, 0))
        /\ UNCHANGED device
     \/ /\ c.kind \in Reads \cup {"GetInfo"}
        /\ \E total \in IF c.kind = "GetInfo" THEN {1} ELSE 0 .. MaxChunks :
             /\ pipeIn' = Append(pipeIn, Transfer("data", c.serial, total))
             /\ device' = [mode |-> "sending", serial |-> c.serial, n |-> 1,
                           total |-> total]

\* The rest of an object, then perhaps a zero-length packet, then the response.
DeviceSend ==
  /\ device.mode = "sending"
  /\ UNCHANGED pipeOut
  /\ IF device.n < device.total
     THEN /\ pipeIn' = Append(pipeIn, Transfer("chunk", device.serial, device.n))
          /\ device' = [device EXCEPT !.n = @ + 1]
     ELSE \E zlp \in {<<>>, <<Transfer("zlp", device.serial, 0)>>} :
          /\ pipeIn' = pipeIn \o zlp \o <<Transfer("OK", device.serial, 0)>>
          /\ device' = [device EXCEPT !.mode = "idle"]

\* Data is taken in, or thrown away when none is expected.
DeviceReceive ==
  LET d == Head(pipeOut) IN
  /\ pipeOut # <<>> /\ d.kind \in {"data", "chunk"}
  /\ pipeOut' = Tail(pipeOut) /\ UNCHANGED pipeIn
  /\ device' =
       IF device.mode = "receiving" /\ d.kind = "data"
         THEN [device EXCEPT !.mode = "taking", !.n = 0, !.total = d.n]
       ELSE IF device.mode = "taking" THEN [device EXCEPT !.n = @ + 1]
       ELSE device

\* An object that came whole is accepted or refused; the device refuses one it
\* does not want, or that ends early, at any time after its header.
DeviceAnswer ==
  /\ device.mode = "taking"
  /\ \/ device.n = device.total /\ Respond(device.serial)
     \/ device.n < device.total
          /\ pipeIn' = Append(pipeIn, Transfer("ERROR", device.serial, 0))
  /\ device' = [device EXCEPT !.mode = "idle"]
  /\ UNCHANGED pipeOut

Device ==
  /\ connected
  /\ DeviceRequest \/ DeviceSend \/ DeviceReceive \/ DeviceAnswer
  /\ UNCHANGED <<mMutex, shared, call, usb, connected, calls, outOfStep>>

Unplug ==
  /\ "unplug" \in Faults /\ connected
  /\ connected' = FALSE
  /\ UNCHANGED <<mMutex, shared, call, usb, pipes, device, calls, outOfStep>>

Next ==
  \/ \E t \in Threads : Lock(t) \/ HostStep(t)
  \/ CompleteRead \/ Device \/ Unplug

DeviceSpec ==
  /\ Init /\ [][Next]_deviceVars
  /\ \A t \in Threads : WF_deviceVars(HostStep(t))
  /\ WF_deviceVars(CompleteRead) /\ WF_deviceVars(Device)

-----------------------------------------------------------------------------
(* Properties.                                                             *)

Kinds == Responses \cup {"none", "data", "chunk", "zlp"} \cup DOMAIN AfterRequest
Transfers == [kind : Kinds, serial : 0 .. MaxCalls, n : 0 .. MaxChunks + 1]

DeviceTypeOK ==
  /\ mMutex \in Threads \cup {NoThread}
  /\ mTransactionID \in 0 .. MaxCalls /\ mReceivedResponse \in BOOLEAN
  /\ mData \in Transfers /\ mResponse \in Transfers
  /\ pipeOut \in Seq(Transfers) /\ pipeIn \in Seq(Transfers)
  /\ \A t \in Threads : call[t].remaining \in 0 .. MaxChunks

\* Between calls nothing of the last answer is left in the pipe, nothing more of
\* it will come and no read is queued: whatever the device sends next belongs
\* to the next call.
PipesClean ==
  mMutex = NoThread /\ connected /\ ~outOfStep =>
    pipeIn = <<>> /\ urb = NoUrb /\ device.mode = "idle"

\* A call takes its result from the device's answer to its own request, however
\* the threads' calls follow each other.
OwnResponse ==
  ~outOfStep => \A t \in Threads :
    call[t].answer # Nothing => call[t].answer.serial = call[t].serial

\* The library's state is well formed and no call takes another's answer.
DeviceInv == DeviceTypeOK /\ OwnResponse

\* What the callback or the file gets are the object's chunks from the first on,
\* none lost, repeated or overwritten in its buffer, and all of them when
\* readObject says so.
ReadInOrder ==
  ~outOfStep /\ connected => \A t \in Threads : Op(t) \in Reads =>
    /\ call[t].got = [i \in DOMAIN call[t].got |-> <<call[t].serial, i - 1>>]
    /\ call[t].result => Len(call[t].got) = call[t].size

\* Every call returns, unless host and device got out of step.
CallsReturn ==
  \A t \in Threads : call[t].pc # "idle" ~> call[t].pc = "idle" \/ outOfStep

-----------------------------------------------------------------------------
(* What comments say and the code does not do.                             *)

\* "to ensure only one MTP transaction at a time": a call never takes its result
\* from the answer to another request.
OneTransactionAtATime ==
  \A t \in Threads :
    call[t].answer # Nothing => call[t].answer.serial = call[t].serial

\* "reads the object's data and writes it to the specified file path": nothing
\* else is written there.
OnlyTheObject ==
  \A t \in Threads : \A i \in DOMAIN call[t].got :
    call[t].got[i][1] = call[t].serial

\* The same comment: readObject comes to an end.
EveryCallReturns ==
  \A t \in Threads : call[t].pc # "idle" ~> call[t].pc = "idle"
=============================================================================
