--------------------------- MODULE MtpDeviceProofs ---------------------------
(* Proofs about MtpDevice: for any threads, operations, numbers of calls   *)
(* and chunks, and faults.                                                 *)
EXTENDS MtpDevice, TLAPS

Ops == {"OpenSession", "GetInfo", "DeleteObject", "SendObjectInfo", "SendObject",
        "ReadObject", "ReadFile"}

Calls ==
  [pc : {"idle", "request", "data", "send_data", "send_header", "send_chunk",
         "read_header", "loop", "write", "wait", "drain", "response",
         "response_again", "unlock"},
   op : Ops \cup {"none"}, serial : 0 .. MaxCalls,
   size : 0 .. MaxChunks + 1, remaining : 0 .. MaxChunks, req : {1, 2},
   writeBuffer : {0, 1, 2}, got : Seq(Nat \X Nat), result : BOOLEAN,
   answer : Transfers]

(* The types of everything, in step or not.                                *)
Typed ==
  /\ mMutex \in Threads \cup {NoThread}
  /\ calls \in 0 .. MaxCalls /\ mTransactionID \in 0 .. calls
  /\ mReceivedResponse \in BOOLEAN
  /\ mData \in Transfers /\ mResponse \in Transfers
  /\ pipeOut \in Seq(Transfers) /\ pipeIn \in Seq(Transfers)
  /\ call \in [Threads -> Calls]
  /\ urb \in [state : {"none", "queued", "done"}, buffer : {0, 1, 2}]
  /\ buffer \in [{1, 2} -> Transfers]
  /\ device \in [mode : {"idle", "sending", "receiving", "taking"},
                 serial : 0 .. MaxCalls, n : Nat, total : 0 .. MaxChunks + 1]
  /\ connected \in BOOLEAN /\ outOfStep \in BOOLEAN

(* A call at a place its operation comes to, with what it has there.       *)
Place(c) ==
  /\ c.pc = "data" => c.op = "GetInfo"
  /\ c.pc = "send_data" => c.op = "SendObjectInfo"
  /\ c.pc \in {"send_header", "send_chunk"} => c.op = "SendObject"
  /\ c.pc \in {"read_header", "loop", "write", "wait", "drain"} => c.op \in Reads
  /\ c.pc \in {"request", "read_header"} =>
       /\ c.got = <<>> /\ c.writeBuffer = 0
       /\ c.op = "ReadFile" => c.size = 0
  /\ c.pc \notin {"idle", "unlock"} => c.answer = Nothing /\ c.result = FALSE
  /\ c.op = "SendObject" => c.remaining <= c.size

(* Only the thread with the mutex is in a call, the latest.                *)
Held ==
  \A t \in Threads :
    /\ At(t, "idle") <=> mMutex # t
    /\ mMutex = t => call[t].serial = calls /\ calls > 0 /\ Op(t) # "none"
    /\ At(t, "request") => mTransactionID < calls
    /\ At(t, "drain") => outOfStep
    /\ Place(call[t])

(* A read is queued by a call that waits for it.                           *)
Queued ==
  /\ urb.state = "none" => urb = NoUrb
  /\ urb.state # "none" =>
       \E t \in Threads :
         /\ mMutex = t /\ call[t].pc \in {"write", "wait", "drain"}
         /\ call[t].remaining > 0 /\ urb.buffer = call[t].req

TypeInv == Typed /\ Held /\ Queued

-----------------------------------------------------------------------------
(* The pipes, while host and device are in step.                           *)

Chunks(q) == \A i \in 1 .. Len(q) : q[i].kind = "chunk"

(* Between requests only chunks of objects the device has refused are on   *)
(* their way.                                                              *)
Silent == pipeIn = <<>> /\ device.mode = "idle" /\ Chunks(pipeOut)

(* The device has yet to take the request.                                 *)
Ahead(t) ==
  /\ pipeIn = <<>> /\ device.mode = "idle"
  /\ \E j \in 1 .. Len(pipeOut) :
       /\ pipeOut[j] = Transfer(Op(t), calls, 0)
       /\ \A i \in 1 .. j - 1 : pipeOut[i].kind = "chunk"
       /\ IF Op(t) = "SendObject" /\ ~At(t, "send_header")
          THEN /\ j < Len(pipeOut) /\ pipeOut[j + 1].kind = "data"
               /\ \A i \in j + 2 .. Len(pipeOut) : pipeOut[i].kind = "chunk"
          ELSE j = Len(pipeOut)

(* It waits for the object, or takes it.                                   *)
Receiving(t) ==
  /\ pipeIn = <<>> /\ device.mode = "receiving" /\ device.serial = calls
  /\ IF At(t, "send_header") THEN pipeOut = <<>>
     ELSE /\ Len(pipeOut) > 0 /\ pipeOut[1].kind = "data"
          /\ \A i \in 2 .. Len(pipeOut) : pipeOut[i].kind = "chunk"

Taking ==
  pipeIn = <<>> /\ device.mode = "taking" /\ device.serial = calls
    /\ Chunks(pipeOut)

(* It has answered with a response alone.                                  *)
Replied ==
  /\ Chunks(pipeOut) /\ device.mode = "idle"
  /\ \E kind \in Responses : pipeIn = <<Transfer(kind, calls, 0)>>

Refused ==
  /\ Chunks(pipeOut) /\ device.mode = "idle"
  /\ pipeIn = <<Transfer("ERROR", calls, 0)>>

(* An answer with data: as many pieces as the object has chunks, or one,   *)
(* then perhaps a zero-length packet, then the response.                   *)
Pieces(total) == IF total = 0 THEN 1 ELSE total

Piece(serial, total, zlp, i) ==
  IF i = 0 THEN Transfer("data", serial, total)
  ELSE IF i < total THEN Transfer("chunk", serial, i)
  ELSE IF zlp /\ i = Pieces(total) THEN Transfer("zlp", serial, 0)
  ELSE Transfer("OK", serial, 0)

(* The host has read k pieces of it, and the device has sent p.            *)
Answer(out, in, dev, serial, total, k) ==
  /\ Chunks(out)
  /\ \E p \in Nat, zlp \in BOOLEAN :
       /\ 0 < p /\ k <= p /\ Len(in) = p - k
       /\ \A i \in 1 .. Len(in) : in[i] = Piece(serial, total, zlp, k + i - 1)
       /\ \/ /\ dev.mode = "sending" /\ dev.serial = serial
             /\ dev.n = p /\ dev.total = total /\ p <= Pieces(total)
          \/ /\ dev.mode = "idle"
             /\ p = Pieces(total) + (IF zlp THEN 2 ELSE 1)

Coming(total, k) == Answer(pipeOut, pipeIn, device, calls, total, k)

Total(t) == IF Op(t) = "GetInfo" THEN 1 ELSE call[t].size

(* The pieces the host has read in the loop.                               *)
Taken(t) ==
  Pieces(call[t].size) - call[t].remaining + (IF urb.state = "done" THEN 1 ELSE 0)

Data == Reads \cup {"GetInfo"}

InStep(t) ==
  /\ call[t].pc \in {"request", "unlock"} => Silent
  /\ At(t, "data") => Ahead(t) \/ Refused \/ Coming(1, 0)
  /\ At(t, "read_header") =>
       \/ Ahead(t) \/ Refused
       \/ \E total \in 0 .. MaxChunks : Coming(total, 0)
  /\ At(t, "send_header") => Ahead(t) \/ Receiving(t)
  /\ At(t, "send_chunk") \/ (At(t, "response") /\ Op(t) \notin Data)
       => /\ Op(t) # "SendObjectInfo"
          /\ Ahead(t) \/ Receiving(t) \/ Taking \/ Replied
  /\ call[t].pc \in {"loop", "write", "wait"} => Coming(call[t].size, Taken(t))
  /\ At(t, "response") /\ Op(t) \in Data =>
       Coming(Total(t), Pieces(Total(t)))
  /\ At(t, "response_again") =>
       Op(t) \in Data /\ Coming(Total(t), Pieces(Total(t)) + 1)

(* The chunks a call has read: handed over, in the buffer to be written,   *)
(* in the buffer that is read into, and to come.                           *)
Buffered(t) ==
  Op(t) \in Reads /\ call[t].pc \in {"loop", "write", "wait", "response",
                                     "response_again"} =>
    /\ Len(call[t].got) + (IF call[t].writeBuffer = 0 THEN 0 ELSE 1)
         + call[t].remaining = call[t].size
    /\ call[t].size > 0 => Len(call[t].got) > 0
    /\ call[t].writeBuffer # 0 =>
         /\ call[t].pc \in {"loop", "write"}
         /\ call[t].writeBuffer # call[t].req
         /\ buffer[call[t].writeBuffer]
              = Transfer("chunk", calls, Len(call[t].got))
    /\ urb.state = "done" =>
         buffer[call[t].req]
           = Transfer("chunk", calls, call[t].size - call[t].remaining)
    /\ call[t].pc \in {"write", "wait"} /\ urb.state = "none" =>
         call[t].remaining = 0
    /\ call[t].pc \in {"response", "response_again"} => call[t].remaining = 0

(* What has been handed over is the object from its start.                 *)
InOrder(t) ==
  Op(t) \in Reads =>
    /\ call[t].got = [i \in 1 .. Len(call[t].got) |-> <<call[t].serial, i - 1>>]
    /\ call[t].result => Len(call[t].got) = call[t].size

Agreed ==
  /\ mMutex = NoThread => Silent
  /\ \A t \in Threads : InOrder(t) /\ (mMutex = t => InStep(t) /\ Buffered(t))

Synchronous == ~outOfStep /\ connected => Agreed

-----------------------------------------------------------------------------
(* Types.                                                                  *)

LEMMA After ==
  /\ DOMAIN AfterRequest = Ops
  /\ AfterRequest["OpenSession"] = "response"
  /\ AfterRequest["DeleteObject"] = "response"
  /\ AfterRequest["GetInfo"] = "data"
  /\ AfterRequest["SendObjectInfo"] = "send_data"
  /\ AfterRequest["SendObject"] = "send_header"
  /\ AfterRequest["ReadObject"] = "read_header"
  /\ AfterRequest["ReadFile"] = "read_header"
BY DEF AfterRequest, Ops

LEMMA KindsAre ==
  Kinds = {"OK", "SESSION_ALREADY_OPEN", "ERROR", "none", "data", "chunk", "zlp"}
            \cup Ops
BY After DEF Kinds, Responses

LEMMA TransferType ==
  ASSUME NEW kind \in Kinds, NEW serial \in 0 .. MaxCalls,
         NEW n \in 0 .. MaxChunks + 1
  PROVE  Transfer(kind, serial, n) \in Transfers
BY DEF Transfer, Transfers

LEMMA Fields ==
  ASSUME NEW c \in Calls
  PROVE  /\ c.op \in Ops \cup {"none"} /\ c.serial \in 0 .. MaxCalls
         /\ c.size \in 0 .. MaxChunks + 1 /\ c.remaining \in 0 .. MaxChunks
         /\ c.req \in {1, 2} /\ c.writeBuffer \in {0, 1, 2}
         /\ c.got \in Seq(Nat \X Nat) /\ c.result \in BOOLEAN
         /\ c.answer \in Transfers
         /\ c.pc \in {"idle", "request", "data", "send_data", "send_header",
                      "send_chunk", "read_header", "loop", "write", "wait",
                      "drain", "response", "response_again", "unlock"}
BY DEF Calls

LEMMA Numbers == MaxCalls \in Nat /\ MaxChunks \in Nat /\ NoThread \notin Threads
BY DeviceAssumption

LEMMA TypeInit == Init => TypeInv
<1> SUFFICES ASSUME Init PROVE TypeInv
  OBVIOUS
<1>1. Nothing \in Transfers
  BY Numbers, KindsAre, TransferType DEF Nothing
<1>2. NoCall \in Calls
  BY <1>1, Numbers DEF NoCall, Calls
<1>3. Typed
  <2>1. call \in [Threads -> Calls]
    BY <1>2 DEF Init
  <2>2. <<>> \in Seq(Transfers)
    OBVIOUS
  <2>3. urb \in [state : {"none", "queued", "done"}, buffer : {0, 1, 2}]
    BY DEF Init, NoUrb
  <2>4. buffer \in [{1, 2} -> Transfers]
    <3>1. 1 .. 2 = {1, 2}
      OBVIOUS
    <3> QED
      BY <1>1, <3>1 DEF Init
  <2>5. device \in [mode : {"idle", "sending", "receiving", "taking"},
                    serial : 0 .. MaxCalls, n : Nat, total : 0 .. MaxChunks + 1]
    BY Numbers DEF Init
  <2>6. /\ mMutex \in Threads \cup {NoThread} /\ calls \in 0 .. MaxCalls
        /\ mTransactionID \in 0 .. calls
    BY Numbers DEF Init
  <2>8. /\ mReceivedResponse \in BOOLEAN /\ connected \in BOOLEAN
        /\ outOfStep \in BOOLEAN
    BY DEF Init
  <2>7. /\ mData \in Transfers /\ mResponse \in Transfers
        /\ pipeOut \in Seq(Transfers) /\ pipeIn \in Seq(Transfers)
    BY <1>1, <2>2 DEF Init
  <2> QED
    BY <2>1, <2>3, <2>4, <2>5, <2>6, <2>7, <2>8 DEF Typed
<1>4. Held
  BY Numbers DEF Init, Held, At, Op, Place, NoCall
<1>5. Queued
  BY DEF Init, Queued, NoUrb
<1> QED
  BY <1>3, <1>4, <1>5 DEF TypeInv

(* A thread in a call has the mutex, and no other is in one.               *)
LEMMA InCall ==
  ASSUME TypeInv, NEW t \in Threads, ~At(t, "idle")
  PROVE  /\ mMutex = t /\ call[t] \in Calls /\ call[t].serial = calls
         /\ Op(t) \in Ops /\ Place(call[t])
         /\ calls \in 0 .. MaxCalls /\ calls > 0
         /\ \A u \in Threads \ {t} : At(u, "idle")
         /\ call[t].pc \notin {"write", "wait", "drain"} => urb = NoUrb
<1>1. mMutex = t
  BY DEF TypeInv, Held
<1>2. call[t] \in Calls /\ call[t].serial = calls /\ Op(t) # "none"
      /\ Place(call[t]) /\ calls \in 0 .. MaxCalls /\ calls > 0
  BY <1>1 DEF TypeInv, Typed, Held
<1>3. Op(t) \in Ops
  BY <1>2, Fields DEF Op
<1>4. \A u \in Threads \ {t} : At(u, "idle")
  BY <1>1 DEF TypeInv, Held
<1>5. call[t].pc \notin {"write", "wait", "drain"} => urb = NoUrb
  BY <1>1 DEF TypeInv, Queued
<1> QED
  BY <1>1, <1>2, <1>3, <1>4, <1>5

(* A step of the thread in a call.                                         *)
LEMMA Moved ==
  ASSUME TypeInv, NEW t \in Threads, NEW c \in Calls,
         call' = [call EXCEPT ![t] = c]
  PROVE  /\ call' \in [Threads -> Calls] /\ call'[t] = c
         /\ \A u \in Threads \ {t} : call'[u] = call[u]
BY DEF TypeInv, Typed

LEMMA HeldStep ==
  ASSUME TypeInv, NEW t \in Threads, ~At(t, "idle"), NEW c \in Calls,
         call' = [call EXCEPT ![t] = c],
         calls' = calls, c.op = Op(t), c.serial = call[t].serial,
         IF c.pc = "idle" THEN mMutex' = NoThread ELSE mMutex' = t,
         c.pc # "request", c.pc = "drain" => outOfStep', Place(c)
  PROVE  Held' /\ call' \in [Threads -> Calls] /\ call'[t] = c
         /\ mMutex' \in Threads \cup {NoThread}
<1>1. /\ call' \in [Threads -> Calls] /\ call'[t] = c
      /\ \A u \in Threads \ {t} : call'[u] = call[u]
  BY Moved
<1>2. /\ mMutex = t /\ call[t].serial = calls /\ Op(t) \in Ops /\ calls > 0
      /\ \A u \in Threads \ {t} : At(u, "idle")
  BY InCall
<1>3. ASSUME NEW u \in Threads \ {t}
      PROVE  /\ At(u, "idle")' /\ mMutex' # u /\ Place(call[u])'
  <2>1. call'[u] = call[u] /\ call[u].pc = "idle" /\ Place(call[u])
    BY <1>1, <1>2 DEF TypeInv, Held, At
  <2>2. mMutex' # u
    BY Numbers
  <2> QED
    BY <2>1, <2>2 DEF At, Place
<1>4. /\ At(t, "idle")' <=> mMutex' # t
      /\ mMutex' = t =>
           call'[t].serial = calls' /\ calls' > 0 /\ Op(t)' # "none"
      /\ ~At(t, "request")' /\ (At(t, "drain")' => outOfStep')
  BY <1>1, <1>2, Numbers DEF At, Op, Ops
<1>5. Place(call[t])'
  BY <1>1 DEF Place
<1>6. Held'
  BY <1>3, <1>4, <1>5 DEF Held, At
<1> QED
  BY <1>1, <1>6

LEMMA Sequences ==
  ASSUME NEW S, NEW q \in Seq(S)
  PROVE  /\ \A e \in S : Append(q, e) \in Seq(S)
         /\ q # <<>> => Head(q) \in S /\ Tail(q) \in Seq(S) /\ Len(q) > 0
         /\ \A m \in 1 .. Len(q) : SubSeq(q, m + 1, Len(q)) \in Seq(S)
<1>1. /\ \A e \in S : Append(q, e) \in Seq(S)
      /\ q # <<>> => Head(q) \in S /\ Tail(q) \in Seq(S) /\ Len(q) > 0
  OBVIOUS
<1>2. ASSUME NEW m \in 1 .. Len(q)
      PROVE  SubSeq(q, m + 1, Len(q)) \in Seq(S)
  <2>1. \A i \in m + 1 .. Len(q) : q[i] \in S
    OBVIOUS
  <2> QED
    BY <2>1
<1> QED
  BY <1>1, <1>2

(* What a step leaves of a call.                                           *)
Same(t) ==
  /\ call'[t].op = call[t].op /\ call'[t].serial = call[t].serial
  /\ call'[t].size = call[t].size /\ call'[t].remaining = call[t].remaining
  /\ call'[t].req = call[t].req /\ call'[t].writeBuffer = call[t].writeBuffer
  /\ call'[t].got = call[t].got /\ call'[t].answer = call[t].answer

LEMMA GotoStep ==
  ASSUME TypeInv, NEW t \in Threads, call[t].pc \notin {"idle", "unlock"},
         NEW pc \in {"data", "send_data", "send_header", "send_chunk",
                     "read_header", "loop", "write", "wait", "drain",
                     "response", "response_again"},
         Goto(t, pc), mMutex' = mMutex, calls' = calls,
         pc = "data" => Op(t) = "GetInfo",
         pc = "send_data" => Op(t) = "SendObjectInfo",
         pc \in {"send_header", "send_chunk"} => Op(t) = "SendObject",
         pc \in {"read_header", "loop", "write", "wait", "drain"} =>
           Op(t) \in Reads,
         pc = "read_header" => At(t, "request"),
         pc = "drain" => outOfStep'
  PROVE  /\ Held' /\ call' \in [Threads -> Calls]
         /\ mMutex' \in Threads \cup {NoThread}
         /\ call'[t].pc = pc /\ Same(t) /\ call'[t].result = call[t].result
         /\ \A u \in Threads \ {t} : call'[u] = call[u]
<1> DEFINE c == [call[t] EXCEPT !.pc = pc]
<1>1. mMutex = t /\ call[t] \in Calls /\ Place(call[t])
  BY InCall DEF At
<1>2. /\ c \in Calls /\ c.pc = pc /\ c.op = call[t].op
      /\ c.serial = call[t].serial /\ c.size = call[t].size
      /\ c.remaining = call[t].remaining /\ c.req = call[t].req
      /\ c.writeBuffer = call[t].writeBuffer /\ c.got = call[t].got
      /\ c.answer = call[t].answer /\ c.result = call[t].result
  BY <1>1 DEF Calls
<1>3. call' = [call EXCEPT ![t] = c]
  BY DEF Goto
<1> HIDE DEF c
<1>4. Place(c)
  BY <1>1, <1>2 DEF Place, Op, At
<1>5. /\ Held' /\ call' \in [Threads -> Calls] /\ call'[t] = c
      /\ mMutex' \in Threads \cup {NoThread}
  BY <1>1, <1>2, <1>3, <1>4, HeldStep DEF At, Op
<1> QED
  BY <1>2, <1>3, <1>5, Moved DEF Same

LEMMA ReturnStep ==
  ASSUME TypeInv, NEW t \in Threads, ~At(t, "idle"), NEW result \in BOOLEAN,
         Return(t, result), mMutex' = mMutex, calls' = calls
  PROVE  /\ Held' /\ call' \in [Threads -> Calls]
         /\ mMutex' \in Threads \cup {NoThread}
         /\ call'[t].pc = "unlock" /\ Same(t) /\ call'[t].result = result
         /\ \A u \in Threads \ {t} : call'[u] = call[u]
<1> DEFINE c == [call[t] EXCEPT !.pc = "unlock", !.result = result]
<1>1. mMutex = t /\ call[t] \in Calls /\ Place(call[t])
  BY InCall DEF At
<1>2. /\ c \in Calls /\ c.pc = "unlock" /\ c.op = call[t].op
      /\ c.serial = call[t].serial /\ c.size = call[t].size
      /\ c.remaining = call[t].remaining /\ c.req = call[t].req
      /\ c.writeBuffer = call[t].writeBuffer /\ c.got = call[t].got
      /\ c.answer = call[t].answer /\ c.result = result
  BY <1>1 DEF Calls
<1>3. call' = [call EXCEPT ![t] = c]
  BY DEF Return
<1> HIDE DEF c
<1>4. Place(c)
  BY <1>1, <1>2 DEF Place
<1>5. /\ Held' /\ call' \in [Threads -> Calls] /\ call'[t] = c
      /\ mMutex' \in Threads \cup {NoThread}
  BY <1>1, <1>2, <1>3, <1>4, HeldStep DEF At, Op
<1> QED
  BY <1>2, <1>3, <1>5, Moved DEF Same

LEMMA Pipes ==
  ASSUME TypeInv
  PROVE  /\ pipeOut \in Seq(Transfers) /\ pipeIn \in Seq(Transfers)
         /\ \A e \in Transfers :
              /\ Append(pipeOut, e) \in Seq(Transfers)
              /\ Append(pipeIn, e) \in Seq(Transfers)
         /\ pipeOut # <<>> =>
              Head(pipeOut) \in Transfers /\ Tail(pipeOut) \in Seq(Transfers)
         /\ pipeIn # <<>> =>
              Head(pipeIn) \in Transfers /\ Tail(pipeIn) \in Seq(Transfers)
<1>1. pipeOut \in Seq(Transfers) /\ pipeIn \in Seq(Transfers)
  BY DEF TypeInv, Typed
<1> QED
  BY <1>1

LEMMA TypeLock == ASSUME TypeInv, NEW t \in Threads, Lock(t) PROVE TypeInv'
<1>1. /\ mMutex = NoThread /\ mMutex' = t /\ At(t, "idle") /\ calls < MaxCalls
      /\ calls' = calls + 1
      /\ UNCHANGED <<shared, usb, pipes, external, outOfStep>>
  BY DEF Lock, NewCall
<1>2. PICK op \in Operations \cup {"OpenSession"}, size \in 0 .. MaxChunks :
        /\ size = 0 \/ op \in {"ReadObject", "SendObject"}
        /\ call' = [call EXCEPT ![t] = [NoCall EXCEPT
             !.pc = "request", !.op = op, !.serial = calls + 1, !.size = size,
             !.remaining = size]]
  BY DEF Lock, NewCall
<1> DEFINE c == [NoCall EXCEPT !.pc = "request", !.op = op, !.serial = calls + 1,
                               !.size = size, !.remaining = size]
<1>3. op \in Ops /\ calls \in 0 .. MaxCalls /\ mTransactionID \in 0 .. calls
  BY DeviceAssumption DEF Ops, TypeInv, Typed
<1>4. Nothing \in Transfers
  BY Numbers, KindsAre, TransferType DEF Nothing
<1>5. calls + 1 \in 0 .. MaxCalls /\ size \in 0 .. MaxChunks + 1
  BY <1>1, <1>3, Numbers
<1>6. /\ c.pc = "request" /\ c.op = op /\ c.serial = calls + 1
      /\ c.size = size /\ c.remaining = size /\ c.got = <<>>
      /\ c.writeBuffer = 0 /\ c.answer = Nothing /\ c.result = FALSE
      /\ c.req = 1
  BY DEF NoCall
<1>7. c \in Calls
  <2>1. NoCall \in Calls
    BY <1>4, Numbers DEF NoCall, Calls
  <2> QED
    BY <1>3, <1>5, <2>1 DEF Calls
<1>8. call' = [call EXCEPT ![t] = c]
  BY <1>2
<1> HIDE DEF c
<1>9. /\ call' \in [Threads -> Calls] /\ call'[t] = c
      /\ \A u \in Threads \ {t} : call'[u] = call[u]
  BY <1>7, <1>8, Moved
<1>10. Place(c)
  BY <1>2, <1>6 DEF Place
<1>11. Held'
  <2>1. ASSUME NEW u \in Threads \ {t}
        PROVE  At(u, "idle")' /\ mMutex' # u /\ Place(call[u])'
    <3>1. call'[u] = call[u] /\ call[u].pc = "idle" /\ Place(call[u])
      BY <1>1, <1>9, Numbers DEF TypeInv, Held, At
    <3> QED
      BY <1>1, <3>1 DEF At, Place
  <2>2. /\ At(t, "idle")' <=> mMutex' # t
        /\ mMutex' = t =>
             call'[t].serial = calls' /\ calls' > 0 /\ Op(t)' # "none"
        /\ mTransactionID' < calls' /\ ~At(t, "drain")'
    BY <1>1, <1>3, <1>6, <1>9, Numbers DEF At, Op, Ops, shared
  <2>3. Place(call[t])'
    BY <1>9, <1>10 DEF Place
  <2> QED
    BY <2>1, <2>2, <2>3 DEF Held, At
<1>12. Queued'
  BY <1>1, Numbers DEF TypeInv, Queued, usb
<1>13. Typed'
  <2>1. mTransactionID \in 0 .. calls + 1
    BY <1>3, Numbers
  <2> QED
    BY <1>1, <1>5, <1>9, <2>1
       DEF TypeInv, Typed, shared, usb, pipes, external
<1> QED
  BY <1>11, <1>12, <1>13 DEF TypeInv

LEMMA TypeUnlock == ASSUME TypeInv, NEW t \in Threads, Unlock(t) PROVE TypeInv'
<1>1. /\ call[t].pc = "unlock" /\ mMutex' = NoThread
      /\ UNCHANGED <<shared, usb, pipes, external, calls, outOfStep>>
  BY DEF Unlock, At
<1> DEFINE c == [call[t] EXCEPT !.pc = "idle"]
<1>2. /\ call[t] \in Calls /\ Place(call[t]) /\ urb = NoUrb
  BY <1>1, InCall DEF At
<1>3. /\ c \in Calls /\ c.pc = "idle" /\ c.op = Op(t)
      /\ c.serial = call[t].serial /\ c.size = call[t].size
      /\ c.remaining = call[t].remaining
  BY <1>2 DEF Calls, Op
<1>4. call' = [call EXCEPT ![t] = c]
  BY DEF Unlock, Goto
<1> HIDE DEF c
<1>5. Place(c)
  BY <1>2, <1>3 DEF Place, Op
<1>6. Held' /\ call' \in [Threads -> Calls] /\ mMutex' \in Threads \cup {NoThread}
  BY <1>1, <1>3, <1>4, <1>5, HeldStep DEF At
<1>7. Queued'
  BY <1>1, <1>2 DEF Queued, usb, NoUrb
<1> QED
  BY <1>1, <1>6, <1>7 DEF TypeInv, Typed, shared, usb, pipes, external

LEMMA TypeSendRequest ==
  ASSUME TypeInv, NEW t \in Threads, SendRequest(t) PROVE TypeInv'
<1>1. /\ call[t].pc = "request" /\ mReceivedResponse' = FALSE
      /\ mTransactionID' = IF Op(t) = "OpenSession" THEN 0
                           ELSE IF mTransactionID > 0 THEN mTransactionID + 1
                           ELSE 0
      /\ UNCHANGED <<mMutex, mData, mResponse, usb, pipeIn, external, calls,
                     outOfStep>>
  BY DEF SendRequest, At
<1>2. /\ mMutex = t /\ call[t] \in Calls /\ Op(t) \in Ops /\ urb = NoUrb
      /\ calls \in 0 .. MaxCalls /\ call[t].serial = calls
  BY <1>1, InCall DEF At
<1>3. mTransactionID' \in 0 .. calls'
  <2>1. mTransactionID \in 0 .. calls /\ mTransactionID < calls
    BY <1>1 DEF TypeInv, Typed, Held, At
  <2> QED
    BY <1>1, <1>2, <2>1
<1>4. pipeOut' \in Seq(Transfers)
  <2>1. Transfer(Op(t), call[t].serial, 0) \in Transfers
    <3>1. Op(t) \in Kinds /\ call[t].serial \in 0 .. MaxCalls
          /\ 0 \in 0 .. MaxChunks + 1
      BY <1>2, Numbers, KindsAre
    <3> QED
      BY <3>1, TransferType
  <2>2. pipeOut' = pipeOut
        \/ pipeOut' = Append(pipeOut, Transfer(Op(t), call[t].serial, 0))
    BY DEF SendRequest
  <2> QED
    BY <2>1, <2>2, Pipes
<1>5. Held' /\ call' \in [Threads -> Calls] /\ mMutex' \in Threads \cup {NoThread}
  <2>1. CASE Goto(t, AfterRequest[Op(t)])
    <3> DEFINE pc == AfterRequest[Op(t)]
    <3>1. /\ pc \in {"data", "send_data", "send_header", "read_header",
                     "response"}
          /\ pc = "data" => Op(t) = "GetInfo"
          /\ pc = "send_data" => Op(t) = "SendObjectInfo"
          /\ pc = "send_header" => Op(t) = "SendObject"
          /\ pc = "read_header" => Op(t) \in Reads
      BY <1>2, After DEF Ops, Reads
    <3> HIDE DEF pc
    <3> QED
      BY <1>1, <2>1, <3>1, GotoStep DEF At, pc
  <2>2. CASE Goto(t, "response")
    BY <1>1, <2>2, GotoStep DEF At
  <2>3. CASE Return(t, FALSE)
    BY <1>1, <2>3, ReturnStep DEF At
  <2> QED
    BY <2>1, <2>2, <2>3 DEF SendRequest
<1>6. Queued'
  BY <1>1, <1>2 DEF Queued, usb, NoUrb
<1> QED
  BY <1>1, <1>3, <1>4, <1>5, <1>6 DEF TypeInv, Typed, usb, external

(* A call that has its answer.                                             *)
LEMMA AnswerStep ==
  ASSUME TypeInv, NEW t \in Threads, ~At(t, "idle"), NEW a \in Transfers,
         NEW b \in BOOLEAN,
         \/ call' = [call EXCEPT ![t].pc = "unlock", ![t].answer = a]
            /\ b = call[t].result
         \/ call' = [call EXCEPT ![t].pc = "unlock", ![t].answer = a,
                                 ![t].result = b],
         mMutex' = mMutex, calls' = calls
  PROVE  /\ Held' /\ call' \in [Threads -> Calls]
         /\ mMutex' \in Threads \cup {NoThread}
         /\ call'[t].pc = "unlock" /\ call'[t].answer = a /\ call'[t].result = b
         /\ call'[t].op = Op(t) /\ call'[t].serial = call[t].serial
         /\ call'[t].size = call[t].size /\ call'[t].got = call[t].got
         /\ \A u \in Threads \ {t} : call'[u] = call[u]
<1>1. mMutex = t /\ call[t] \in Calls /\ Place(call[t])
  BY InCall DEF At
<1> DEFINE c == [call[t] EXCEPT !.pc = "unlock", !.answer = a, !.result = b]
           d == [call[t] EXCEPT !.pc = "unlock", !.answer = a]
<1>2. ASSUME NEW e \in Calls, e.pc = "unlock", e.op = call[t].op,
             e.serial = call[t].serial, e.size = call[t].size,
             e.remaining = call[t].remaining, e.got = call[t].got,
             e.answer = a, e.result = b, call' = [call EXCEPT ![t] = e]
      PROVE  /\ Held' /\ call' \in [Threads -> Calls] /\ call'[t] = e
             /\ mMutex' \in Threads \cup {NoThread}
             /\ \A u \in Threads \ {t} : call'[u] = call[u]
  <2>1. Place(e)
    BY <1>1, <1>2 DEF Place
  <2> QED
    BY <1>1, <1>2, <2>1, HeldStep, Moved DEF At, Op
<1>3. /\ c \in Calls /\ c.pc = "unlock" /\ c.op = call[t].op
      /\ c.serial = call[t].serial /\ c.size = call[t].size
      /\ c.remaining = call[t].remaining /\ c.got = call[t].got
      /\ c.answer = a /\ c.result = b
  BY <1>1 DEF Calls
<1>4. /\ d \in Calls /\ d.pc = "unlock" /\ d.op = call[t].op
      /\ d.serial = call[t].serial /\ d.size = call[t].size
      /\ d.remaining = call[t].remaining /\ d.got = call[t].got
      /\ d.answer = a /\ d.result = call[t].result
  BY <1>1 DEF Calls
<1>5. call' = [call EXCEPT ![t] = c]
      \/ (call' = [call EXCEPT ![t] = d] /\ b = call[t].result)
  OBVIOUS
<1> HIDE DEF c, d
<1> QED
  BY <1>2, <1>3, <1>4, <1>5 DEF Op

LEMMA TypeReadData ==
  ASSUME TypeInv, NEW t \in Threads, ReadData(t) PROVE TypeInv'
<1>1. /\ call[t].pc = "data"
      /\ UNCHANGED <<mMutex, mTransactionID, usb, pipeOut, external, calls,
                     outOfStep>>
  BY DEF ReadData, At
<1>2. Op(t) = "GetInfo" /\ urb = NoUrb /\ call[t] \in Calls
  BY <1>1, InCall DEF Place, Op, At
<1>3. Nothing \in Transfers
  BY Numbers, KindsAre, TransferType DEF Nothing
<1>4. pipeIn \in Seq(Transfers) /\ mResponse \in Transfers
      /\ mReceivedResponse \in BOOLEAN
  BY DEF TypeInv, Typed
<1>5. /\ mData' \in Transfers /\ mResponse' \in Transfers
      /\ mReceivedResponse' \in BOOLEAN /\ pipeIn' \in Seq(Transfers)
      /\ Held' /\ call' \in [Threads -> Calls]
      /\ mMutex' \in Threads \cup {NoThread}
  <2>1. CASE ~connected
    <3>1. /\ mData' = Nothing /\ Return(t, FALSE)
          /\ UNCHANGED <<mReceivedResponse, mResponse, pipeIn>>
      BY <2>1 DEF ReadData
    <3> QED
      BY <1>1, <1>3, <1>4, <3>1, ReturnStep DEF At
  <2>2. CASE connected
    <3>1. /\ pipeIn # <<>> /\ mData' = Head(pipeIn)
          /\ mReceivedResponse' = (mData'.kind \in Responses)
          /\ mResponse' = IF mData'.kind \in Responses THEN mData' ELSE mResponse
          /\ \E span \in IF mData'.kind = "chunk" THEN DOMAIN pipeIn ELSE {1} :
               pipeIn' = SubSeq(pipeIn, span + 1, Len(pipeIn))
          /\ \/ Goto(t, "response")
             \/ call' = [call EXCEPT ![t].pc = "unlock", ![t].answer = mData']
      BY <2>2 DEF ReadData
    <3>2. mData' \in Transfers /\ mResponse' \in Transfers
      BY <1>4, <3>1
    <3>3. mReceivedResponse' \in BOOLEAN
      BY <3>1
    <3>4. pipeIn' \in Seq(Transfers)
      <4>1. PICK span \in IF mData'.kind = "chunk" THEN DOMAIN pipeIn ELSE {1} :
              pipeIn' = SubSeq(pipeIn, span + 1, Len(pipeIn))
        BY <3>1
      <4>2. span \in 1 .. Len(pipeIn)
        BY <1>4, <3>1
      <4> QED
        BY <1>4, <4>1, <4>2, Sequences
    <3>5. CASE Goto(t, "response")
      BY <1>1, <3>2, <3>3, <3>4, <3>5, GotoStep DEF At
    <3>6. CASE call' = [call EXCEPT ![t].pc = "unlock", ![t].answer = mData']
      <4>1. call[t].result \in BOOLEAN
        BY <1>2, Fields
      <4> QED
        BY <1>1, <3>2, <3>3, <3>4, <3>6, <4>1, AnswerStep DEF At
    <3> QED
      BY <3>1, <3>5, <3>6
  <2> QED
    BY <2>1, <2>2
<1>6. Queued'
  BY <1>1, <1>2 DEF Queued, usb, NoUrb
<1> QED
  BY <1>1, <1>5, <1>6 DEF TypeInv, Typed, usb, external

LEMMA TypeReadResponse ==
  ASSUME TypeInv, NEW t \in Threads, ReadResponse(t) PROVE TypeInv'
<1>1. /\ call[t].pc \in {"response", "response_again"}
      /\ UNCHANGED <<mMutex, mReceivedResponse, mData, usb, pipeOut, external,
                     calls, outOfStep>>
  BY DEF ReadResponse
<1>2. /\ urb = NoUrb /\ call[t] \in Calls /\ mMutex = t
      /\ calls \in 0 .. MaxCalls
  BY <1>1, InCall DEF At
<1>3. /\ mResponse' \in Transfers /\ pipeIn' \in Seq(Transfers)
      /\ mTransactionID' \in 0 .. calls
      /\ Held' /\ call' \in [Threads -> Calls]
      /\ mMutex' \in Threads \cup {NoThread}
  <2>1. /\ mResponse \in Transfers /\ mTransactionID \in 0 .. calls
        /\ pipeIn \in Seq(Transfers)
    BY DEF TypeInv, Typed
  <2>2. CASE ~connected
    <3>1. Return(t, FALSE) /\ UNCHANGED <<mTransactionID, mResponse, pipeIn>>
      BY <2>2 DEF ReadResponse
    <3> QED
      BY <1>1, <2>1, <3>1, ReturnStep DEF At
  <2>3. CASE connected
    <3>1. /\ pipeIn # <<>> /\ mResponse' = Head(pipeIn) /\ pipeIn' = Tail(pipeIn)
          /\ \/ Goto(t, "response_again") /\ UNCHANGED mTransactionID
             \/ /\ Finished(t, mResponse')
                /\ mTransactionID' =
                     IF Op(t) = "OpenSession" /\ call'[t].result THEN 1
                     ELSE mTransactionID
      BY <2>3 DEF ReadResponse
    <3>2. mResponse' \in Transfers /\ pipeIn' \in Seq(Transfers)
      BY <2>1, <3>1
    <3>3. CASE Goto(t, "response_again") /\ UNCHANGED mTransactionID
      BY <1>1, <2>1, <3>2, <3>3, GotoStep DEF At
    <3>4. CASE Finished(t, mResponse') /\ (mTransactionID' =
                 IF Op(t) = "OpenSession" /\ call'[t].result THEN 1
                 ELSE mTransactionID)
      <4> DEFINE b == \/ mResponse'.kind = "OK" /\ (Op(t) = "SendObject" =>
                                                   call[t].remaining = 0)
                      \/ mResponse'.kind = "SESSION_ALREADY_OPEN"
                         /\ Op(t) = "OpenSession"
      <4>1. call' = [call EXCEPT ![t].pc = "unlock", ![t].answer = mResponse',
                                 ![t].result = b]
        BY <3>4 DEF Finished
      <4>2. b \in BOOLEAN
        OBVIOUS
      <4> HIDE DEF b
      <4>3. /\ Held' /\ call' \in [Threads -> Calls]
            /\ mMutex' \in Threads \cup {NoThread}
        BY <1>1, <3>2, <4>1, <4>2, AnswerStep DEF At
      <4>4. mTransactionID' \in 0 .. calls
        <5>1. Op(t) = "OpenSession" => calls > 0
          BY <1>1, InCall DEF At
        <5> QED
          BY <1>2, <2>1, <3>4, <5>1
      <4> QED
        BY <3>2, <4>3, <4>4
    <3> QED
      BY <3>1, <3>3, <3>4
  <2> QED
    BY <2>2, <2>3
<1>4. Queued'
  BY <1>1, <1>2 DEF Queued, usb, NoUrb
<1> QED
  BY <1>1, <1>3, <1>4 DEF TypeInv, Typed, usb, external

LEMMA TypeSends ==
  ASSUME TypeInv, NEW t \in Threads, SendData(t) \/ SendHeader(t)
  PROVE  TypeInv'
<1>1. /\ call[t].pc \in {"send_data", "send_header"}
      /\ UNCHANGED <<mMutex, mTransactionID, mReceivedResponse, mResponse, usb,
                     pipeIn, external, calls>>
  BY DEF SendData, SendHeader, At
<1>2. /\ urb = NoUrb /\ call[t] \in Calls /\ Place(call[t])
      /\ call[t].serial \in 0 .. MaxCalls /\ call[t].size \in 0 .. MaxChunks + 1
  BY <1>1, InCall, Fields DEF At
<1>3. "data" \in Kinds /\ 0 \in 0 .. MaxChunks + 1 /\ 1 \in 0 .. MaxChunks + 1
  BY Numbers, KindsAre
<1>4. mData' \in Transfers
  <2>1. mData \in Transfers
    BY DEF TypeInv, Typed
  <2>2. Transfer("data", call[t].serial, 1) \in Transfers
    BY <1>2, <1>3, TransferType
  <2>3. [mData EXCEPT !.n = call[t].size] \in Transfers
    BY <1>2, <2>1 DEF Transfers
  <2> QED
    BY <2>2, <2>3 DEF SendData, SendHeader
<1>5. pipeOut' \in Seq(Transfers)
  <2>1. /\ Transfer("data", call[t].serial, 0) \in Transfers
        /\ Transfer("data", call[t].serial, call[t].size) \in Transfers
    BY <1>2, <1>3, TransferType
  <2> QED
    BY <2>1, Pipes DEF SendData, SendHeader
<1>6. Goto(t, "send_chunk") \/ Return(t, FALSE)
  BY DEF SendData, SendHeader
<1>7. /\ Held' /\ call' \in [Threads -> Calls]
      /\ mMutex' \in Threads \cup {NoThread}
  <2>1. CASE SendHeader(t)
    <3>1. Op(t) = "SendObject" /\ Goto(t, "send_chunk")
      BY <1>2, <2>1 DEF SendHeader, Place, At, Op
    <3> QED
      BY <1>1, <3>1, GotoStep DEF At
  <2>2. CASE SendData(t)
    BY <1>1, <2>2, ReturnStep DEF SendData, At
  <2> QED
    BY <2>1, <2>2
<1>8. outOfStep' \in BOOLEAN
  BY DEF SendData, SendHeader, TypeInv, Typed
<1>9. Queued'
  BY <1>1, <1>2 DEF Queued, usb, NoUrb
<1> QED
  BY <1>1, <1>4, <1>5, <1>7, <1>8, <1>9 DEF TypeInv, Typed, usb, external

LEMMA TypeSendChunk ==
  ASSUME TypeInv, NEW t \in Threads, SendChunk(t) PROVE TypeInv'
<1>1. /\ call[t].pc = "send_chunk"
      /\ UNCHANGED <<mMutex, shared, usb, pipeIn, external, calls, outOfStep>>
  BY DEF SendChunk, At
<1>2. /\ urb = NoUrb /\ call[t] \in Calls /\ Place(call[t]) /\ mMutex = t
      /\ call[t].serial \in 0 .. MaxCalls /\ call[t].size \in 0 .. MaxChunks + 1
      /\ call[t].remaining \in 0 .. MaxChunks /\ call[t].op = "SendObject"
      /\ call[t].remaining <= call[t].size
  BY <1>1, InCall, Fields DEF At, Place
<1>3. /\ Held' /\ call' \in [Threads -> Calls] /\ pipeOut' \in Seq(Transfers)
      /\ mMutex' \in Threads \cup {NoThread}
  <2>1. CASE call[t].remaining > 0 /\ call' = [call EXCEPT ![t].remaining = @ - 1]
             /\ pipeOut' = IF connected
                  THEN Append(pipeOut, Transfer("chunk", call[t].serial,
                                                call[t].size - call[t].remaining))
                  ELSE pipeOut
    <3> DEFINE c == [call[t] EXCEPT !.remaining = @ - 1]
    <3>1. call[t].remaining - 1 \in 0 .. MaxChunks
      BY <1>2, <2>1, Numbers
    <3>2. /\ c \in Calls /\ c.pc = "send_chunk" /\ c.op = call[t].op
          /\ c.serial = call[t].serial /\ c.size = call[t].size
          /\ c.remaining = call[t].remaining - 1 /\ c.answer = call[t].answer
          /\ c.result = call[t].result
      BY <1>1, <1>2, <3>1 DEF Calls
    <3>3. call' = [call EXCEPT ![t] = c]
      BY <2>1
    <3> HIDE DEF c
    <3>4. Place(c)
      BY <1>1, <1>2, <3>2, Numbers DEF Place
    <3>5. /\ Held' /\ call' \in [Threads -> Calls]
          /\ mMutex' \in Threads \cup {NoThread}
      BY <1>1, <1>2, <3>2, <3>3, <3>4, HeldStep DEF At, Op
    <3>6. Transfer("chunk", call[t].serial, call[t].size - call[t].remaining)
            \in Transfers
      <4>1. call[t].size - call[t].remaining \in 0 .. MaxChunks + 1
        BY <1>2, Numbers
      <4>2. "chunk" \in Kinds
        BY KindsAre
      <4> QED
        BY <1>2, <4>1, <4>2, TransferType
    <3>7. pipeOut' \in Seq(Transfers)
      BY <2>1, <3>6, Pipes
    <3> QED
      BY <3>5, <3>7
  <2>2. CASE Goto(t, "response") /\ UNCHANGED pipeOut
    BY <1>1, <2>2, GotoStep, Pipes DEF At
  <2> QED
    BY <2>1, <2>2 DEF SendChunk
<1>4. Queued'
  BY <1>1, <1>2 DEF Queued, usb, NoUrb
<1> QED
  BY <1>1, <1>3, <1>4 DEF TypeInv, Typed, usb, shared, external

(* A turn of the loop that reads.                                          *)
LEMMA LoopStep ==
  ASSUME TypeInv, NEW t \in Threads,
         call[t].pc \in {"read_header", "loop", "write", "wait"},
         NEW c \in Calls, call' = [call EXCEPT ![t] = c],
         c.pc \in {"loop", "wait"}, c.op = call[t].op,
         c.serial = call[t].serial, c.answer = call[t].answer,
         c.result = call[t].result, mMutex' = mMutex, calls' = calls
  PROVE  /\ Held' /\ call' \in [Threads -> Calls] /\ call'[t] = c
         /\ mMutex' \in Threads \cup {NoThread}
         /\ \A u \in Threads \ {t} : call'[u] = call[u]
<1>1. Place(call[t]) /\ mMutex = t
  BY InCall DEF At
<1>2. Place(c)
  BY <1>1 DEF Place, Reads
<1> QED
  BY <1>1, <1>2, HeldStep, Moved DEF At, Op

LEMMA TypeReadDataHeader ==
  ASSUME TypeInv, NEW t \in Threads, ReadDataHeader(t) PROVE TypeInv'
<1>1. /\ call[t].pc = "read_header"
      /\ UNCHANGED <<mMutex, mTransactionID, mReceivedResponse, mResponse, usb,
                     pipeOut, external, calls>>
  BY DEF ReadDataHeader, At
<1>2. /\ urb = NoUrb /\ call[t] \in Calls /\ mMutex = t
  BY <1>1, InCall DEF At
<1>3. mData' \in Transfers /\ pipeIn' \in Seq(Transfers)
  BY Pipes DEF ReadDataHeader, TypeInv, Typed
<1>4. mData'.n \in 0 .. MaxChunks + 1 /\ mData'.serial \in 0 .. MaxCalls
  BY <1>3 DEF Transfers
<1>5. outOfStep' \in BOOLEAN
  <2>1. outOfStep \in BOOLEAN
    BY DEF TypeInv, Typed
  <2>2. \/ outOfStep' = outOfStep \/ outOfStep' = TRUE
        \/ outOfStep' = (outOfStep \/ mData'.kind # "data")
    BY DEF ReadDataHeader, InitialData, Abandon
  <2> QED
    BY <2>1, <2>2
<1>6. /\ Held' /\ call' \in [Threads -> Calls]
      /\ mMutex' \in Threads \cup {NoThread}
  <2>1. CASE Return(t, FALSE)
    BY <1>1, <2>1, ReturnStep DEF At
  <2>2. CASE mData'.n = 0 /\ call' = [call EXCEPT ![t].pc = "loop",
                                                  ![t].remaining = 0]
    <3> DEFINE c == [call[t] EXCEPT !.pc = "loop", !.remaining = 0]
    <3>0. 0 \in 0 .. MaxChunks
      BY Numbers
    <3>1. /\ c \in Calls /\ c.pc = "loop" /\ c.op = call[t].op
          /\ c.serial = call[t].serial /\ c.answer = call[t].answer
          /\ c.result = call[t].result
      BY <1>2, <3>0 DEF Calls
    <3>2. call' = [call EXCEPT ![t] = c]
      BY <2>2
    <3> HIDE DEF c
    <3> QED
      BY <1>1, <3>1, <3>2, LoopStep
  <2>3. CASE mData'.n # 0 /\ call' = [call EXCEPT ![t].pc = "loop",
                  ![t].remaining = mData'.n - 1, ![t].size = mData'.n,
                  ![t].got = <<<<mData'.serial, 0>>>>]
    <3> DEFINE n == mData'.n
               first == <<<<mData'.serial, 0>>>>
               c == [call[t] EXCEPT !.pc = "loop", !.remaining = n - 1,
                                    !.size = n, !.got = first]
    <3>1. n - 1 \in 0 .. MaxChunks /\ n \in 0 .. MaxChunks + 1
          /\ first \in Seq(Nat \X Nat)
      <4>1. n - 1 \in 0 .. MaxChunks /\ n \in 0 .. MaxChunks + 1
        BY <1>4, <2>3, Numbers
      <4>2. mData'.serial \in Nat
        BY <1>4, Numbers
      <4>3. <<mData'.serial, 0>> \in Nat \X Nat
        BY <4>2
      <4>4. first \in Seq(Nat \X Nat)
        BY <4>3
      <4> QED
        BY <4>1, <4>4
    <3>2. call' = [call EXCEPT ![t] = c]
      BY <2>3
    <3> HIDE DEF n, first
    <3>3. /\ c \in Calls /\ c.pc = "loop" /\ c.op = call[t].op
          /\ c.serial = call[t].serial /\ c.answer = call[t].answer
          /\ c.result = call[t].result
      BY <1>2, <3>1 DEF Calls
    <3> HIDE DEF c
    <3> QED
      BY <1>1, <3>2, <3>3, LoopStep
  <2> QED
    BY <2>1, <2>2, <2>3 DEF ReadDataHeader, InitialData, Abandon
<1>7. Queued'
  BY <1>1, <1>2 DEF Queued, usb, NoUrb
<1> QED
  BY <1>1, <1>3, <1>5, <1>6, <1>7 DEF TypeInv, Typed, usb, external

(* A queued read is that of the call, which expects something.             *)
LEMMA QueuedBy ==
  ASSUME TypeInv, NEW t \in Threads, mMutex = t, urb.state # "none"
  PROVE  /\ call[t].pc \in {"write", "wait", "drain"}
         /\ call[t].remaining > 0 /\ urb.buffer = call[t].req
BY DEF TypeInv, Queued

LEMMA TypeQueueRead ==
  ASSUME TypeInv, NEW t \in Threads, QueueRead(t) PROVE TypeInv'
<1>1. /\ call[t].pc = "loop"
      /\ UNCHANGED <<mMutex, shared, buffer, pipes, external, calls>>
  BY DEF QueueRead, At
<1>2. /\ urb = NoUrb /\ call[t] \in Calls /\ mMutex = t /\ Op(t) \in Reads
      /\ call[t].req \in {1, 2}
  BY <1>1, InCall, Fields DEF At, Place, Op
<1>3. CASE /\ call[t].remaining > 0
           /\ urb' = [state |-> "queued", buffer |-> call[t].req]
           /\ Goto(t, "write") /\ UNCHANGED outOfStep
  <2>1. /\ Held' /\ call' \in [Threads -> Calls] /\ Same(t)
        /\ mMutex' \in Threads \cup {NoThread} /\ call'[t].pc = "write"
    BY <1>1, <1>2, <1>3, GotoStep DEF At
  <2>2. urb' \in [state : {"none", "queued", "done"}, buffer : {0, 1, 2}]
        /\ urb'.state = "queued" /\ urb'.buffer = call[t].req
    BY <1>2, <1>3
  <2>3. Queued'
    BY <1>1, <1>2, <1>3, <2>1, <2>2 DEF Queued, Same
  <2> QED
    BY <1>1, <1>3, <2>1, <2>2, <2>3
       DEF TypeInv, Typed, shared, pipes, external
<1>4. CASE UNCHANGED urb /\ ((Abandon(t)) \/ (UNCHANGED outOfStep
             /\ (Goto(t, "response") \/ Goto(t, "write"))))
  <2>1. /\ Held' /\ call' \in [Threads -> Calls]
        /\ mMutex' \in Threads \cup {NoThread}
    BY <1>1, <1>2, <1>4, GotoStep, ReturnStep DEF At, Abandon
  <2>2. outOfStep' \in BOOLEAN
    BY <1>4 DEF Abandon, TypeInv, Typed
  <2>3. Queued'
    BY <1>2, <1>4 DEF Queued, NoUrb
  <2> QED
    BY <1>1, <1>4, <2>1, <2>2, <2>3
       DEF TypeInv, Typed, shared, pipes, external
<1> QED
  BY <1>3, <1>4 DEF QueueRead

LEMMA TypeWriteBuffer ==
  ASSUME TypeInv, NEW t \in Threads, WriteBuffer(t) PROVE TypeInv'
<1> DEFINE b == call[t].writeBuffer
<1>1. /\ call[t].pc = "write"
      /\ UNCHANGED <<mMutex, shared, usb, pipes, external, calls>>
  BY DEF WriteBuffer, At
<1>2. /\ call[t] \in Calls /\ mMutex = t /\ Op(t) \in Reads
      /\ b \in {0, 1, 2} /\ call[t].got \in Seq(Nat \X Nat)
  BY <1>1, InCall, Fields DEF At, Place, Op
<1>3. outOfStep' \in BOOLEAN
  BY DEF WriteBuffer, TypeInv, Typed
<1>4. /\ Held' /\ call' \in [Threads -> Calls]
      /\ mMutex' \in Threads \cup {NoThread}
      /\ call'[t].remaining = call[t].remaining /\ call'[t].req = call[t].req
      /\ urb.state # "none" => call'[t].pc \in {"wait", "drain"}
  <2>1. CASE Goto(t, "wait")
    BY <1>1, <1>2, <2>1, GotoStep DEF At, Same
  <2>2. CASE urb.state = "none" /\ Return(t, FALSE)
    BY <1>1, <1>2, <2>2, ReturnStep DEF At, Same
  <2>3. CASE Goto(t, "drain") /\ outOfStep' = TRUE
    BY <1>1, <1>2, <2>3, GotoStep DEF At, Same
  <2>4. CASE b # 0 /\ call' = [call EXCEPT ![t].pc = "wait",
          ![t].writeBuffer = 0,
          ![t].got = Append(@, <<buffer[b].serial, buffer[b].n>>)]
    <3> DEFINE pair == <<buffer[b].serial, buffer[b].n>>
               got == Append(call[t].got, pair)
               c == [call[t] EXCEPT !.pc = "wait", !.writeBuffer = 0,
                                    !.got = got]
    <3>1. pair \in Nat \X Nat
      <4>1. buffer[b] \in Transfers
        BY <1>2, <2>4 DEF TypeInv, Typed
      <4> QED
        BY <4>1, Numbers DEF Transfers
    <3>2. call' = [call EXCEPT ![t] = c]
      BY <2>4
    <3> HIDE DEF pair
    <3>3. got \in Seq(Nat \X Nat)
      BY <1>2, <3>1
    <3> HIDE DEF got
    <3>4. /\ c \in Calls /\ c.pc = "wait" /\ c.op = call[t].op
          /\ c.serial = call[t].serial /\ c.answer = call[t].answer
          /\ c.result = call[t].result /\ c.remaining = call[t].remaining
          /\ c.req = call[t].req
      BY <1>2, <3>3 DEF Calls
    <3> HIDE DEF c
    <3> QED
      BY <1>1, <3>2, <3>4, LoopStep
  <2> QED
    BY <2>1, <2>2, <2>3, <2>4 DEF WriteBuffer
<1>5. Queued'
  <2>1. CASE urb.state = "none"
    BY <1>1, <2>1 DEF TypeInv, Queued, usb
  <2>2. CASE urb.state # "none"
    BY <1>1, <1>2, <1>4, <2>2, QueuedBy DEF Queued, usb
  <2> QED
    BY <2>1, <2>2
<1> QED
  BY <1>1, <1>3, <1>4, <1>5 DEF TypeInv, Typed, shared, usb, pipes, external

LEMMA TypeDrain == ASSUME TypeInv, NEW t \in Threads, Drain(t) PROVE TypeInv'
<1>1. /\ call[t].pc = "drain" /\ urb' = NoUrb /\ Return(t, FALSE)
      /\ UNCHANGED <<mMutex, shared, buffer, pipes, external, calls, outOfStep>>
  BY DEF Drain, At
<1>2. /\ Held' /\ call' \in [Threads -> Calls]
      /\ mMutex' \in Threads \cup {NoThread}
  BY <1>1, ReturnStep DEF At
<1>3. urb' \in [state : {"none", "queued", "done"}, buffer : {0, 1, 2}]
      /\ Queued'
  BY <1>1 DEF NoUrb, Queued
<1> QED
  BY <1>1, <1>2, <1>3 DEF TypeInv, Typed, shared, pipes, external

LEMMA TypeReadDataWait ==
  ASSUME TypeInv, NEW t \in Threads, ReadDataWait(t) PROVE TypeInv'
<1>1. /\ call[t].pc = "wait"
      /\ UNCHANGED <<mMutex, shared, buffer, pipes, external, calls>>
  BY DEF ReadDataWait, At
<1>2. /\ call[t] \in Calls /\ mMutex = t /\ Op(t) \in Reads
      /\ call[t].remaining \in 0 .. MaxChunks /\ call[t].req \in {1, 2}
  BY <1>1, InCall, Fields DEF At, Place, Op
<1>3. urb' = NoUrb
  BY DEF ReadDataWait, TypeInv, Queued
<1>4. outOfStep' \in BOOLEAN
  BY DEF ReadDataWait, Abandon, TypeInv, Typed
<1>5. /\ Held' /\ call' \in [Threads -> Calls]
      /\ mMutex' \in Threads \cup {NoThread}
  <2>1. CASE Goto(t, "loop")
    BY <1>1, <1>2, <2>1, GotoStep DEF At
  <2>2. CASE Abandon(t)
    BY <1>1, <2>2, ReturnStep DEF At, Abandon
  <2>3. CASE urb.state = "done" /\ call' = [call EXCEPT ![t].pc = "loop",
               ![t].writeBuffer = call[t].req, ![t].req = 3 - @,
               ![t].remaining = @ - 1]
    <3> DEFINE left == call[t].remaining - 1
               other == 3 - call[t].req
               c == [call[t] EXCEPT !.pc = "loop", !.writeBuffer = call[t].req,
                                    !.req = other, !.remaining = left]
    <3>1. left \in 0 .. MaxChunks
      <4>1. call[t].remaining > 0
        BY <1>2, <2>3, QueuedBy
      <4> QED
        BY <1>2, <4>1, Numbers
    <3>2. other \in {1, 2} /\ call[t].req \in {0, 1, 2}
      BY <1>2
    <3>3. call' = [call EXCEPT ![t] = c]
      BY <2>3
    <3> HIDE DEF left, other
    <3>4. /\ c \in Calls /\ c.pc = "loop" /\ c.op = call[t].op
          /\ c.serial = call[t].serial /\ c.answer = call[t].answer
          /\ c.result = call[t].result
      BY <1>2, <3>1, <3>2 DEF Calls
    <3> HIDE DEF c
    <3> QED
      BY <1>1, <3>3, <3>4, LoopStep
  <2> QED
    BY <2>1, <2>2, <2>3 DEF ReadDataWait
<1>6. Queued' /\ urb' \in [state : {"none", "queued", "done"}, buffer : {0, 1, 2}]
  BY <1>3 DEF Queued, NoUrb
<1> QED
  BY <1>1, <1>4, <1>5, <1>6 DEF TypeInv, Typed, shared, pipes, external

(* A step of the kernel, the device or the cable.                          *)
LEMMA HeldSame ==
  ASSUME TypeInv, UNCHANGED <<mMutex, shared, call, calls, outOfStep>>
  PROVE  Held'
BY DEF TypeInv, Held, At, Op, Place, shared

LEMMA TypeCompleteRead == ASSUME TypeInv, CompleteRead PROVE TypeInv'
<1>1. /\ urb.state = "queued" /\ pipeIn # <<>>
      /\ urb' = [urb EXCEPT !.state = "done"]
      /\ buffer' = [buffer EXCEPT ![urb.buffer] = Head(pipeIn)]
      /\ pipeIn' = Tail(pipeIn)
      /\ UNCHANGED <<mMutex, shared, call, pipeOut, external, calls, outOfStep>>
  BY DEF CompleteRead
<1>2. urb \in [state : {"none", "queued", "done"}, buffer : {0, 1, 2}]
      /\ buffer \in [{1, 2} -> Transfers]
  BY DEF TypeInv, Typed
<1>3. /\ urb' \in [state : {"none", "queued", "done"}, buffer : {0, 1, 2}]
      /\ urb'.state = "done" /\ urb'.buffer = urb.buffer
  BY <1>1, <1>2
<1>4. Head(pipeIn) \in Transfers /\ pipeIn' \in Seq(Transfers)
  BY <1>1, Pipes
<1>5. buffer' \in [{1, 2} -> Transfers]
  BY <1>1, <1>2, <1>4
<1>6. Queued'
  BY <1>1, <1>3 DEF TypeInv, Queued
<1> QED
  BY <1>1, <1>3, <1>4, <1>5, <1>6, HeldSame
     DEF TypeInv, Typed, shared, external

(* What the device sends is a transfer, and it stays a device.             *)
LEMMA TypeDevice == ASSUME TypeInv, Device PROVE TypeInv'
<1>1. UNCHANGED <<mMutex, shared, call, usb, connected, calls, outOfStep>>
  BY DEF Device
<1>2. /\ device.mode \in {"idle", "sending", "receiving", "taking"}
      /\ device.serial \in 0 .. MaxCalls /\ device.n \in Nat
      /\ device.total \in 0 .. MaxChunks + 1
  BY DEF TypeInv, Typed
<1> DEFINE Devices ==
      [mode : {"idle", "sending", "receiving", "taking"},
       serial : 0 .. MaxCalls, n : Nat, total : 0 .. MaxChunks + 1]
<1>3. device \in Devices
  BY DEF TypeInv, Typed
<1>4. /\ pipeOut # <<>> => /\ Head(pipeOut).serial \in 0 .. MaxCalls
                           /\ Head(pipeOut).n \in 0 .. MaxChunks + 1
      /\ pipeOut # <<>> => Tail(pipeOut) \in Seq(Transfers)
      /\ pipeOut \in Seq(Transfers) /\ pipeIn \in Seq(Transfers)
  BY Pipes DEF Transfers
<1>5. ASSUME NEW kind \in {"OK", "ERROR", "SESSION_ALREADY_OPEN", "data",
                           "chunk", "zlp"},
             NEW serial \in 0 .. MaxCalls, NEW n \in 0 .. MaxChunks + 1
      PROVE  /\ Transfer(kind, serial, n) \in Transfers
             /\ Append(pipeIn, Transfer(kind, serial, n)) \in Seq(Transfers)
  BY <1>5, KindsAre, TransferType, Pipes
<1>6. 0 \in 0 .. MaxChunks + 1 /\ 0 \in Nat /\ 1 \in Nat /\ 1 \in 0 .. MaxChunks + 1
  BY Numbers
<1>7. ASSUME NEW serial \in 0 .. MaxCalls, Respond(serial)
      PROVE  pipeIn' \in Seq(Transfers)
  <2>1. \/ pipeIn' = Append(pipeIn, Transfer("OK", serial, 0))
        \/ pipeIn' = Append(pipeIn, Transfer("ERROR", serial, 0))
    BY <1>7 DEF Respond
  <2> QED
    BY <1>5, <1>6, <2>1
<1> DEFINE Fine == device' \in Devices /\ pipeOut' \in Seq(Transfers)
                     /\ pipeIn' \in Seq(Transfers)
<1>8. ASSUME DeviceRequest PROVE Fine
  <2> DEFINE c == Head(pipeOut)
  <2>1. pipeOut # <<>> /\ pipeOut' = Tail(pipeOut)
    BY <1>8 DEF DeviceRequest
  <2>2. pipeOut' \in Seq(Transfers) /\ c.serial \in 0 .. MaxCalls
    BY <1>4, <2>1
  <2>3. CASE /\ UNCHANGED device
             /\ \/ \E kind \in {"OK", "SESSION_ALREADY_OPEN"} :
                     pipeIn' = Append(pipeIn, Transfer(kind, c.serial, 0))
                \/ Respond(c.serial)
                \/ pipeIn' = Append(pipeIn, Transfer("ERROR", c.serial, 0))
    BY <1>3, <1>5, <1>6, <1>7, <2>2, <2>3
  <2>4. CASE device' = [device EXCEPT !.mode = "receiving", !.serial = c.serial]
             /\ UNCHANGED pipeIn
    BY <1>3, <1>4, <2>2, <2>4
  <2>5. CASE \E total \in IF c.kind = "GetInfo" THEN {1} ELSE 0 .. MaxChunks :
             /\ pipeIn' = Append(pipeIn, Transfer("data", c.serial, total))
             /\ device' = [mode |-> "sending", serial |-> c.serial, n |-> 1,
                           total |-> total]
    <3>1. PICK total \in IF c.kind = "GetInfo" THEN {1} ELSE 0 .. MaxChunks :
             /\ pipeIn' = Append(pipeIn, Transfer("data", c.serial, total))
             /\ device' = [mode |-> "sending", serial |-> c.serial, n |-> 1,
                           total |-> total]
      BY <2>5
    <3>2. total \in 0 .. MaxChunks + 1
      BY <1>6, <3>1, Numbers
    <3>3. device' \in Devices
      BY <1>6, <2>2, <3>1, <3>2
    <3> QED
      BY <1>5, <2>2, <3>1, <3>2, <3>3
  <2> HIDE DEF Fine
  <2> QED
    BY <1>8, <2>3, <2>4, <2>5 DEF DeviceRequest
<1>9. ASSUME DeviceSend PROVE Fine
  <2>1. pipeOut' \in Seq(Transfers)
    BY <1>4, <1>9 DEF DeviceSend
  <2>2. CASE device.n < device.total
    <3>1. /\ pipeIn' = Append(pipeIn, Transfer("chunk", device.serial, device.n))
          /\ device' = [device EXCEPT !.n = @ + 1]
      BY <1>9, <2>2 DEF DeviceSend
    <3>2. device.n \in 0 .. MaxChunks + 1 /\ device.n + 1 \in Nat
      BY <1>2, <2>2, Numbers
    <3>3. device' \in Devices
      BY <1>3, <3>1, <3>2
    <3> QED
      BY <1>2, <1>5, <2>1, <3>1, <3>2, <3>3
  <2>3. CASE ~(device.n < device.total)
    <3>1. PICK zlp \in {<<>>, <<Transfer("zlp", device.serial, 0)>>} :
          /\ pipeIn' = pipeIn \o zlp \o <<Transfer("OK", device.serial, 0)>>
          /\ device' = [device EXCEPT !.mode = "idle"]
      BY <1>9, <2>3 DEF DeviceSend
    <3>2. /\ Transfer("zlp", device.serial, 0) \in Transfers
          /\ Transfer("OK", device.serial, 0) \in Transfers
      BY <1>2, <1>5, <1>6
    <3>3. /\ zlp \in Seq(Transfers)
          /\ <<Transfer("OK", device.serial, 0)>> \in Seq(Transfers)
      <4>1. \A e \in Transfers : <<e>> \in Seq(Transfers)
        OBVIOUS
      <4>2. <<>> \in Seq(Transfers)
        OBVIOUS
      <4> QED
        BY <3>1, <3>2, <4>1, <4>2
    <3>4. pipeIn' \in Seq(Transfers)
      BY <1>4, <3>1, <3>3
    <3>5. device' \in Devices
      BY <1>3, <3>1
    <3> QED
      BY <2>1, <3>4, <3>5
  <2> QED
    BY <2>2, <2>3
<1>10. ASSUME DeviceReceive PROVE Fine
  <2> DEFINE d == Head(pipeOut)
  <2>1. pipeOut # <<>> /\ pipeOut' = Tail(pipeOut) /\ UNCHANGED pipeIn
    BY <1>10 DEF DeviceReceive
  <2>2. pipeOut' \in Seq(Transfers) /\ d.n \in 0 .. MaxChunks + 1
    BY <1>4, <2>1
  <2>3. \/ device' = [device EXCEPT !.mode = "taking", !.n = 0, !.total = d.n]
        \/ device' = [device EXCEPT !.n = @ + 1]
        \/ device' = device
    BY <1>10 DEF DeviceReceive
  <2>4. device' \in Devices
    <3>1. device.n + 1 \in Nat
      BY <1>2
    <3> HIDE DEF d
    <3> QED
      BY <1>3, <1>6, <2>2, <2>3, <3>1
  <2> QED
    BY <1>4, <2>1, <2>2, <2>4
<1>11. ASSUME DeviceAnswer PROVE Fine
  <2>1. /\ \/ Respond(device.serial)
           \/ pipeIn' = Append(pipeIn, Transfer("ERROR", device.serial, 0))
        /\ device' = [device EXCEPT !.mode = "idle"] /\ UNCHANGED pipeOut
    BY <1>11 DEF DeviceAnswer
  <2>2. pipeIn' \in Seq(Transfers)
    BY <1>2, <1>5, <1>6, <1>7, <2>1
  <2>3. device' \in Devices
    BY <1>3, <2>1
  <2> QED
    BY <1>4, <2>1, <2>2, <2>3
<1>12. Fine
  <2> HIDE DEF Fine
  <2> QED
    BY <1>8, <1>9, <1>10, <1>11 DEF Device
<1>13. Queued'
  BY <1>1 DEF TypeInv, Queued, usb
<1> QED
  BY <1>1, <1>12, <1>13, HeldSame DEF TypeInv, Typed, usb, shared

LEMMA TypeUnplug == ASSUME TypeInv, Unplug PROVE TypeInv'
<1>1. connected' = FALSE
      /\ UNCHANGED <<mMutex, shared, call, usb, pipes, device, calls, outOfStep>>
  BY DEF Unplug
<1>2. Queued'
  BY <1>1 DEF TypeInv, Queued, usb
<1> QED
  BY <1>1, <1>2, HeldSame DEF TypeInv, Typed, shared, usb, pipes

LEMMA TypeNext == TypeInv /\ [Next]_deviceVars => TypeInv'
<1> SUFFICES ASSUME TypeInv, [Next]_deviceVars PROVE TypeInv'
  OBVIOUS
<1>1. ASSUME NEW t \in Threads, Lock(t) \/ HostStep(t) PROVE TypeInv'
  BY <1>1, TypeLock, TypeUnlock, TypeSendRequest, TypeReadData,
     TypeReadResponse, TypeSends, TypeSendChunk, TypeReadDataHeader,
     TypeQueueRead, TypeWriteBuffer, TypeDrain, TypeReadDataWait DEF HostStep
<1>2. CASE UNCHANGED deviceVars
  <2>1. Queued'
    BY <1>2 DEF TypeInv, Queued, deviceVars, usb
  <2> QED
    BY <1>2, <2>1, HeldSame
       DEF TypeInv, Typed, deviceVars, shared, usb, pipes, external
<1> QED
  BY <1>1, <1>2, TypeCompleteRead, TypeDevice, TypeUnplug DEF Next

-----------------------------------------------------------------------------
(* Host and device stay in step.                                           *)

(* The host reads the next piece of an answer with data.                   *)
LEMMA NextPiece ==
  ASSUME TypeInv, NEW total \in Nat, NEW k \in Nat, Coming(total, k),
         pipeIn # <<>>, pipeIn' = Tail(pipeIn),
         UNCHANGED <<pipeOut, device, calls>>
  PROVE  /\ Answer(pipeOut', pipeIn', device', calls', total, k + 1)
         /\ k = 0 => Head(pipeIn) = Transfer("data", calls, total)
         /\ 0 < k /\ k < total => Head(pipeIn) = Transfer("chunk", calls, k)
         /\ k >= Pieces(total) => /\ Head(pipeIn).serial = calls
                                  /\ Head(pipeIn).kind \in {"zlp", "OK"}
         /\ k = Pieces(total) /\ Head(pipeIn).kind # "zlp" => Silent'
         /\ k = Pieces(total) + 1 => Head(pipeIn).kind = "OK" /\ Silent'
<1>1. /\ pipeIn \in Seq(Transfers) /\ Len(pipeIn) > 0 /\ Head(pipeIn) = pipeIn[1]
      /\ Len(pipeIn') = Len(pipeIn) - 1 /\ Len(pipeIn) \in Nat
      /\ \A i \in 1 .. Len(pipeIn) - 1 : pipeIn'[i] = pipeIn[i + 1]
      /\ Len(pipeIn) = 1 => pipeIn' = <<>>
  BY Pipes
<1>2. Chunks(pipeOut)
  BY DEF Coming, Answer
<1>3. PICK p \in Nat, zlp \in BOOLEAN :
        /\ 0 < p /\ k <= p /\ Len(pipeIn) = p - k
        /\ \A i \in 1 .. Len(pipeIn) :
             pipeIn[i] = Piece(calls, total, zlp, k + i - 1)
        /\ \/ /\ device.mode = "sending" /\ device.serial = calls
              /\ device.n = p /\ device.total = total /\ p <= Pieces(total)
           \/ /\ device.mode = "idle"
              /\ p = Pieces(total) + (IF zlp THEN 2 ELSE 1)
  BY DEF Coming, Answer
<1>4. Answer(pipeOut', pipeIn', device', calls', total, k + 1)
  <2>1. k + 1 <= p /\ Len(pipeIn') = p - (k + 1)
    BY <1>1, <1>3
  <2>2. ASSUME NEW i \in 1 .. Len(pipeIn')
        PROVE  pipeIn'[i] = Piece(calls, total, zlp, (k + 1) + i - 1)
    <3>1. i \in 1 .. Len(pipeIn) - 1 /\ i + 1 \in 1 .. Len(pipeIn)
      BY <1>1
    <3>2. k + (i + 1) - 1 = (k + 1) + i - 1
      BY <3>1
    <3> QED
      BY <1>1, <1>3, <3>1, <3>2
  <2> QED
    BY <1>2, <1>3, <2>1, <2>2 DEF Answer
<1>5. Head(pipeIn) = Piece(calls, total, zlp, k)
  <2>1. pipeIn[1] = Piece(calls, total, zlp, k + 1 - 1) /\ k + 1 - 1 = k
    BY <1>1, <1>3
  <2> QED
    BY <1>1, <2>1
<1>6. Pieces(total) \in Nat /\ Pieces(total) > 0 /\ Pieces(total) >= total
      /\ p > k
  BY <1>1, <1>3 DEF Pieces
<1>7. /\ k = 0 => Head(pipeIn) = Transfer("data", calls, total)
      /\ 0 < k /\ k < total => Head(pipeIn) = Transfer("chunk", calls, k)
      /\ k >= Pieces(total) =>
           \/ zlp /\ k = Pieces(total)
                /\ Head(pipeIn) = Transfer("zlp", calls, 0)
           \/ Head(pipeIn) = Transfer("OK", calls, 0)
                /\ ~(zlp /\ k = Pieces(total))
  BY <1>5, <1>6 DEF Piece
<1>8. ASSUME p = k + 1, device.mode = "idle" PROVE Silent'
  BY <1>1, <1>2, <1>3, <1>8 DEF Silent, Chunks
<1>9. k >= Pieces(total) =>
        device.mode = "idle" /\ p = Pieces(total) + (IF zlp THEN 2 ELSE 1)
  BY <1>3, <1>6
<1>10. k = Pieces(total) /\ Head(pipeIn).kind # "zlp" => Silent'
  BY <1>3, <1>6, <1>7, <1>8, <1>9 DEF Transfer
<1>11. k = Pieces(total) + 1 => Head(pipeIn).kind = "OK" /\ Silent'
  BY <1>3, <1>6, <1>7, <1>8, <1>9 DEF Transfer
<1> QED
  BY <1>4, <1>7, <1>10, <1>11 DEF Transfer

(* A step of the thread that has the mutex.                                *)
LEMMA AgreedStep ==
  ASSUME TypeInv, Agreed, NEW t \in Threads, mMutex = t, mMutex' = t,
         \A u \in Threads \ {t} : call'[u] = call[u],
         InOrder(t)', InStep(t)', Buffered(t)'
  PROVE  Agreed'
<1>1. ASSUME NEW u \in Threads \ {t} PROVE InOrder(u)' /\ mMutex' # u
  BY DEF Agreed, InOrder, Op
<1> QED
  BY <1>1, Numbers DEF Agreed

(* What a call that goes elsewhere, or returns, keeps of what it has read. *)
LEMMA SameInOrder ==
  ASSUME NEW t \in Threads, InOrder(t), Same(t),
         call'[t].result = call[t].result \/ call'[t].result = FALSE
  PROVE  InOrder(t)'
BY DEF InOrder, Same, Op

LEMMA SyncLock ==
  ASSUME TypeInv, Agreed, NEW t \in Threads, Lock(t) PROVE Agreed'
<1>1. /\ mMutex = NoThread /\ mMutex' = t
      /\ UNCHANGED <<shared, usb, pipes, external, outOfStep>>
  BY DEF Lock
<1>2. PICK op \in Operations \cup {"OpenSession"}, size \in 0 .. MaxChunks :
        call' = [call EXCEPT ![t] = [NoCall EXCEPT
             !.pc = "request", !.op = op, !.serial = calls + 1, !.size = size,
             !.remaining = size]]
  BY DEF Lock, NewCall
<1>3. /\ call'[t].pc = "request" /\ call'[t].got = <<>>
      /\ call'[t].result = FALSE
      /\ \A u \in Threads \ {t} : call'[u] = call[u]
  BY <1>2 DEF TypeInv, Typed, NoCall
<1>4. Silent'
  BY <1>1 DEF Agreed, Silent, pipes, external
<1>5. InOrder(t)'
  <2>1. call'[t].got = [i \in 1 .. Len(call'[t].got) |-> <<call'[t].serial, i - 1>>]
    BY <1>3
  <2> QED
    BY <1>3, <2>1 DEF InOrder
<1>6. InStep(t)' /\ Buffered(t)'
  BY <1>3, <1>4 DEF InStep, Buffered, At
<1>7. ASSUME NEW u \in Threads \ {t} PROVE InOrder(u)' /\ mMutex' # u
  BY <1>1, <1>3 DEF Agreed, InOrder, Op
<1> QED
  BY <1>1, <1>5, <1>6, <1>7, Numbers DEF Agreed

LEMMA SyncUnlock ==
  ASSUME TypeInv, Agreed, NEW t \in Threads, Unlock(t) PROVE Agreed'
<1>1. /\ call[t].pc = "unlock" /\ mMutex' = NoThread
      /\ Goto(t, "idle")
      /\ UNCHANGED <<shared, usb, pipes, external, calls, outOfStep>>
  BY DEF Unlock, At
<1>2. mMutex = t
  BY <1>1, InCall DEF At
<1>3. Silent'
  BY <1>1, <1>2 DEF Agreed, InStep, Silent, pipes, external
<1>4. ASSUME NEW u \in Threads PROVE InOrder(u)'
  <2>1. /\ call'[u].got = call[u].got /\ call'[u].result = call[u].result
        /\ call'[u].op = call[u].op /\ call'[u].size = call[u].size
        /\ call'[u].serial = call[u].serial
    BY <1>1, SMTT(30) DEF Goto, TypeInv, Typed, Calls
  <2> QED
    BY <2>1 DEF Agreed, InOrder, Op
<1> QED
  BY <1>1, <1>3, <1>4, Numbers DEF Agreed

LEMMA SyncSendRequest ==
  ASSUME TypeInv, Agreed, NEW t \in Threads, SendRequest(t), connected
  PROVE  Agreed'
<1> DEFINE e == Transfer(Op(t), call[t].serial, 0)
           pc == AfterRequest[Op(t)]
<1>1. /\ call[t].pc = "request" /\ pipeOut' = Append(pipeOut, e)
      /\ Goto(t, pc)
      /\ UNCHANGED <<mMutex, mData, mResponse, usb, pipeIn, external, calls,
                     outOfStep>>
  BY DEF SendRequest, At
<1>2. /\ mMutex = t /\ call[t] \in Calls /\ Op(t) \in Ops
      /\ call[t].serial = calls
  BY <1>1, InCall DEF At
<1>3. /\ pc = "response" => Op(t) \in {"OpenSession", "DeleteObject"}
      /\ pc = "data" => Op(t) = "GetInfo"
      /\ pc = "send_data" => Op(t) = "SendObjectInfo"
      /\ pc = "send_header" <=> Op(t) = "SendObject"
      /\ pc = "read_header" => Op(t) \in Reads
      /\ pc \in {"response", "data", "send_data", "send_header", "read_header"}
  BY <1>2, After DEF Ops, Reads
<1>4. Same(t) /\ call'[t].result = call[t].result /\ call'[t].pc = pc
      /\ \A u \in Threads \ {t} : call'[u] = call[u]
  <2> HIDE DEF pc
  <2> QED
    BY <1>1, <1>2, <1>3, GotoStep DEF At
<1>5. Ahead(t)'
  <2>1. Silent
    BY <1>1, <1>2 DEF Agreed, InStep
  <2>2. pipeOut \in Seq(Transfers) /\ Len(pipeOut) \in Nat
    BY Pipes
  <2>3. /\ Len(pipeOut') = Len(pipeOut) + 1
        /\ pipeOut'[Len(pipeOut) + 1] = e
        /\ \A i \in 1 .. Len(pipeOut) : pipeOut'[i] = pipeOut[i]
    BY <1>1, <2>2
  <2>4. ~(Op(t)' = "SendObject" /\ ~At(t, "send_header")')
    BY <1>3, <1>4 DEF Op, At, Same
  <2>5. e = Transfer(Op(t)', calls', 0)
    BY <1>1, <1>2, <1>4 DEF Op, Same
  <2> HIDE DEF e
  <2>6. \E j \in 1 .. Len(pipeOut') :
          /\ pipeOut'[j] = Transfer(Op(t)', calls', 0)
          /\ \A i \in 1 .. j - 1 : pipeOut'[i].kind = "chunk"
          /\ j = Len(pipeOut')
    <3> WITNESS Len(pipeOut) + 1 \in 1 .. Len(pipeOut')
    <3> QED
      BY <2>1, <2>2, <2>3, <2>5 DEF Silent, Chunks
  <2> QED
    BY <1>1, <2>1, <2>4, <2>6 DEF Ahead, Silent, external
<1>6. InStep(t)'
  <2>1. Op(t)' = Op(t)
    BY <1>4 DEF Op, Same
  <2> HIDE DEF pc
  <2> QED
    BY <1>3, <1>4, <1>5, <2>1 DEF InStep, At, Reads, Data
<1>7. Buffered(t)'
  <2>1. Op(t)' = Op(t)
    BY <1>4 DEF Op, Same
  <2> HIDE DEF pc
  <2> QED
    BY <1>3, <1>4, <2>1 DEF Buffered, Reads
<1>8. InOrder(t)'
  BY <1>4, SameInOrder DEF Agreed
<1> QED
  BY <1>1, <1>2, <1>4, <1>6, <1>7, <1>8, AgreedStep

(* The answer to a request alone is taken off the pipe.                    *)
LEMMA OnlyAnswer ==
  ASSUME TypeInv, Replied \/ Refused, pipeIn' = Tail(pipeIn),
         UNCHANGED <<pipeOut, device>>
  PROVE  /\ Head(pipeIn).serial = calls /\ Head(pipeIn).kind \in Responses
         /\ Refused => Head(pipeIn).kind = "ERROR" /\ Head(pipeIn).n = 0
         /\ Silent'
<1>1. PICK kind \in Responses : pipeIn = <<Transfer(kind, calls, 0)>>
                                /\ (Refused => kind = "ERROR")
  BY DEF Replied, Refused, Responses
<1>2. /\ Head(pipeIn) = Transfer(kind, calls, 0) /\ pipeIn' = <<>>
      /\ Chunks(pipeOut) /\ device.mode = "idle"
  BY <1>1 DEF Replied, Refused
<1> QED
  BY <1>1, <1>2 DEF Silent, Chunks, Transfer

LEMMA SyncReadData ==
  ASSUME TypeInv, Agreed, NEW t \in Threads, ReadData(t), connected
  PROVE  /\ Agreed'
         /\ call'[t].answer = Nothing \/ call'[t].answer.serial = call'[t].serial
         /\ \A u \in Threads \ {t} : call'[u] = call[u]
<1>1. /\ call[t].pc = "data" /\ pipeIn # <<>> /\ mData' = Head(pipeIn)
      /\ \E span \in IF mData'.kind = "chunk" THEN DOMAIN pipeIn ELSE {1} :
           pipeIn' = SubSeq(pipeIn, span + 1, Len(pipeIn))
      /\ \/ mData'.kind \in {"data", "chunk"} /\ Goto(t, "response")
         \/ /\ mData'.kind # "data"
            /\ call' = [call EXCEPT ![t].pc = "unlock", ![t].answer = mData']
      /\ UNCHANGED <<mMutex, mTransactionID, usb, pipeOut, external, calls,
                     outOfStep>>
  BY DEF ReadData, At
<1>2. /\ mMutex = t /\ call[t] \in Calls /\ Op(t) = "GetInfo"
      /\ call[t].serial = calls /\ call[t].answer = Nothing
      /\ call[t].result = FALSE
  BY <1>1, InCall DEF At, Place, Op
<1>3. Refused \/ Coming(1, 0)
  BY <1>1, <1>2 DEF Agreed, InStep, At, Ahead
<1>4. mData'.kind # "chunk" => pipeIn' = Tail(pipeIn)
  BY <1>1, Pipes
<1>5. CASE Refused
  <2>1. mData'.kind = "ERROR" /\ Head(pipeIn) = mData'
    BY <1>1, <1>5 DEF Refused, Transfer
  <2>2. Silent' /\ mData'.serial = calls
    BY <1>1, <1>4, <1>5, <2>1, OnlyAnswer DEF external
  <2>3. /\ call' = [call EXCEPT ![t].pc = "unlock", ![t].answer = mData']
        /\ mData' \in Transfers
    BY <1>1, <2>1, Pipes
  <2>4. /\ call'[t].pc = "unlock" /\ call'[t].answer = mData'
        /\ call'[t].serial = call[t].serial /\ call'[t].op = Op(t)
        /\ \A u \in Threads \ {t} : call'[u] = call[u]
    <3>1. call[t].result \in BOOLEAN
      BY <1>2
    <3>2. ~At(t, "idle") /\ mMutex' = mMutex /\ calls' = calls
      BY <1>1 DEF At
    <3> QED
      BY <2>3, <3>1, <3>2, AnswerStep
  <2>5. InStep(t)' /\ Buffered(t)' /\ InOrder(t)'
    BY <1>2, <2>2, <2>4 DEF InStep, Buffered, InOrder, At, Op, Reads
  <2> QED
    BY <1>1, <1>2, <2>2, <2>4, <2>5, AgreedStep
<1>6. CASE Coming(1, 0)
  <2>1. 0 \in Nat /\ 1 \in Nat /\ 0 + 1 = 1
    OBVIOUS
  <2>2. Head(pipeIn).kind = "data"
    <3>1. Len(pipeIn) > 0 /\ Head(pipeIn) = pipeIn[1] /\ Len(pipeIn) \in Nat
      BY <1>1, Pipes
    <3>2. pipeIn[1].kind = "data"
      <4>1. PICK zlp \in BOOLEAN : \A i \in 1 .. Len(pipeIn) :
              pipeIn[i] = Piece(calls, 1, zlp, 0 + i - 1)
        BY <1>6 DEF Coming, Answer
      <4>2. pipeIn[1] = Piece(calls, 1, zlp, 0 + 1 - 1) /\ 0 + 1 - 1 = 0
        BY <3>1, <4>1
      <4> QED
        BY <4>2 DEF Piece, Transfer
    <3> QED
      BY <3>1, <3>2
  <2>3. pipeIn' = Tail(pipeIn) /\ Goto(t, "response")
    BY <1>1, <1>4, <2>2
  <2>4. Answer(pipeOut', pipeIn', device', calls', 1, 1)
    <3>1. UNCHANGED <<pipeOut, device, calls>>
      BY <1>1 DEF external
    <3> QED
      BY <1>1, <1>6, <2>1, <2>3, <3>1, NextPiece
  <2>5. /\ Same(t) /\ call'[t].pc = "response"
        /\ \A u \in Threads \ {t} : call'[u] = call[u]
    BY <1>1, <2>3, GotoStep DEF At
  <2>6. Op(t)' = "GetInfo" /\ Total(t)' = 1 /\ Pieces(1) = 1
    BY <1>2, <2>5 DEF Same, Op, Total, Pieces
  <2>7. Coming(Total(t), Pieces(Total(t)))'
    BY <2>4, <2>6 DEF Coming
  <2>8. InStep(t)' /\ Buffered(t)' /\ InOrder(t)'
    BY <2>5, <2>6, <2>7 DEF InStep, Buffered, InOrder, At, Reads, Data
  <2> QED
    BY <1>1, <1>2, <2>5, <2>8, AgreedStep DEF Same
<1> QED
  BY <1>3, <1>5, <1>6

LEMMA SyncReadResponse ==
  ASSUME TypeInv, Agreed, NEW t \in Threads, ReadResponse(t), connected
  PROVE  /\ Agreed'
         /\ call'[t].answer = Nothing \/ call'[t].answer.serial = call'[t].serial
         /\ \A u \in Threads \ {t} : call'[u] = call[u]
<1>1. /\ call[t].pc \in {"response", "response_again"}
      /\ pipeIn # <<>> /\ mResponse' = Head(pipeIn) /\ pipeIn' = Tail(pipeIn)
      /\ IF mResponse'.kind = "zlp" /\ At(t, "response")
         THEN Goto(t, "response_again")
         ELSE Finished(t, mResponse')
      /\ UNCHANGED <<mMutex, mReceivedResponse, mData, usb, pipeOut, external,
                     calls, outOfStep>>
  BY DEF ReadResponse
<1>2. /\ mMutex = t /\ call[t] \in Calls /\ Op(t) \in Ops
      /\ call[t].serial = calls /\ call[t].answer = Nothing
      /\ call[t].result = FALSE /\ call[t].size \in Nat
      /\ mMutex' = mMutex /\ calls' = calls
  <2>1. /\ mMutex = t /\ call[t] \in Calls /\ Op(t) \in Ops
        /\ call[t].serial = calls /\ Place(call[t])
    BY <1>1, InCall DEF At
  <2>2. call[t].size \in Nat
    BY <2>1, Fields, Numbers
  <2>3. call[t].answer = Nothing /\ call[t].result = FALSE
    BY <1>1, <2>1 DEF Place
  <2> QED
    BY <1>1, <2>1, <2>2, <2>3
<1>3. UNCHANGED <<pipeOut, device, calls>>
  BY <1>1 DEF external
<1> DEFINE total == Total(t)
           k == IF At(t, "response") THEN Pieces(total) ELSE Pieces(total) + 1
<1>4. total \in Nat /\ k \in Nat /\ Pieces(total) \in Nat
  BY <1>2 DEF Total, Pieces
<1>5. IF Op(t) \in Data THEN Coming(total, k) ELSE Replied /\ At(t, "response")
  BY <1>1, <1>2, <1>4
     DEF Agreed, InStep, At, Ahead, Receiving, Taking, Total
<1>6. /\ mResponse'.serial = calls
      /\ IF mResponse'.kind = "zlp" /\ At(t, "response")
         THEN Op(t) \in Data /\ Answer(pipeOut', pipeIn', device', calls', total,
                                       Pieces(total) + 1)
         ELSE Silent' /\ mResponse'.kind # "zlp"
  <2>1. CASE Op(t) \in Data
    <3>1. Coming(total, k) /\ k >= Pieces(total)
      BY <1>4, <1>5, <2>1
    <3>2. /\ Answer(pipeOut', pipeIn', device', calls', total, k + 1)
          /\ Head(pipeIn).serial = calls
          /\ k = Pieces(total) /\ Head(pipeIn).kind # "zlp" => Silent'
          /\ k = Pieces(total) + 1 => Head(pipeIn).kind = "OK" /\ Silent'
      BY <1>1, <1>3, <1>4, <3>1, NextPiece
    <3> QED
      BY <1>1, <1>4, <2>1, <3>2
  <2>2. CASE Op(t) \notin Data
    BY <1>1, <1>3, <1>5, <2>2, OnlyAnswer DEF Responses
  <2> QED
    BY <2>1, <2>2
<1>7. CASE mResponse'.kind = "zlp" /\ At(t, "response")
  <2>1. /\ Same(t) /\ call'[t].result = FALSE
        /\ call'[t].pc = "response_again"
        /\ \A u \in Threads \ {t} : call'[u] = call[u]
    BY <1>1, <1>2, <1>7, GotoStep DEF At
  <2>2. Op(t)' = Op(t) /\ Total(t)' = total
    BY <2>1 DEF Same, Op, Total
  <2>3. Coming(Total(t), Pieces(Total(t)) + 1)'
    BY <1>6, <1>7, <2>2 DEF Coming
  <2>4. InStep(t)'
    BY <1>6, <1>7, <2>1, <2>2, <2>3 DEF InStep, At
  <2>5. Buffered(t)'
    <3>1. call[t].pc = "response" /\ Buffered(t)
      BY <1>2, <1>7 DEF Agreed, At
    <3>2. UNCHANGED <<urb, buffer, calls>>
      BY <1>1 DEF usb
    <3> QED
      BY <2>1, <3>1, <3>2 DEF Buffered, Same, Op
  <2>6. InOrder(t)'
    BY <1>2, <2>1, SameInOrder DEF Agreed
  <2> QED
    BY <1>2, <2>1, <2>4, <2>5, <2>6, AgreedStep DEF Same
<1>8. CASE ~(mResponse'.kind = "zlp" /\ At(t, "response"))
  <2> DEFINE b == \/ mResponse'.kind = "OK" /\ (Op(t) = "SendObject" =>
                                               call[t].remaining = 0)
                  \/ mResponse'.kind = "SESSION_ALREADY_OPEN"
                     /\ Op(t) = "OpenSession"
  <2>1. call' = [call EXCEPT ![t].pc = "unlock", ![t].answer = mResponse',
                             ![t].result = b]
    BY <1>1, <1>8 DEF Finished
  <2>2. b \in BOOLEAN /\ mResponse' \in Transfers /\ ~At(t, "idle")
    <3>1. mResponse' \in Transfers
      BY <1>1, Pipes
    <3>2. b \in BOOLEAN
      OBVIOUS
    <3> QED
      BY <1>1, <3>1, <3>2 DEF At
  <2> HIDE DEF b
  <2>3. /\ call'[t].pc = "unlock" /\ call'[t].answer = mResponse'
        /\ call'[t].op = Op(t) /\ call'[t].serial = call[t].serial
        /\ call'[t].size = call[t].size /\ call'[t].got = call[t].got
        /\ \A u \in Threads \ {t} : call'[u] = call[u]
    BY <1>2, <2>1, <2>2, AnswerStep
  <2>4. InStep(t)' /\ Buffered(t)'
    BY <1>6, <1>8, <2>3 DEF InStep, Buffered, At
  <2>5. InOrder(t)'
    <3>1. InOrder(t) /\ Buffered(t)
      BY <1>2 DEF Agreed
    <3>2. Op(t) \in Reads => Len(call[t].got) = call[t].size
      <4>1. ASSUME Op(t) \in Reads
            PROVE  Len(call[t].got) + 0 + 0 = call[t].size
        <5>1. call[t].writeBuffer = 0 /\ call[t].remaining = 0
          BY <1>1, <3>1, <4>1 DEF Buffered
        <5> QED
          BY <1>1, <3>1, <4>1, <5>1 DEF Buffered
      <4>2. Len(call[t].got) \in Nat
        BY <1>2, Fields
      <4>3. Len(call[t].got) + 0 + 0 = Len(call[t].got)
        BY <4>2
      <4> QED
        BY <4>1, <4>3
    <3> QED
      BY <2>3, <3>1, <3>2 DEF InOrder, Op
  <2> QED
    BY <1>2, <1>6, <2>3, <2>4, <2>5, AgreedStep
<1> QED
  BY <1>7, <1>8

(* What the host sends goes behind what is on its way.                     *)
LEMMA Behind ==
  ASSUME TypeInv, NEW e, e \in Transfers, pipeOut' = Append(pipeOut, e)
  PROVE  /\ Len(pipeOut) \in Nat /\ Len(pipeOut') = Len(pipeOut) + 1
         /\ pipeOut'[Len(pipeOut) + 1] = e
         /\ \A i \in 1 .. Len(pipeOut) : pipeOut'[i] = pipeOut[i]
BY Pipes

LEMMA SyncSendHeader ==
  ASSUME TypeInv, Agreed, NEW t \in Threads, SendHeader(t), connected
  PROVE  Agreed'
<1> DEFINE e == Transfer("data", call[t].serial, call[t].size)
<1>1. /\ call[t].pc = "send_header" /\ pipeOut' = Append(pipeOut, e)
      /\ Goto(t, "send_chunk")
      /\ UNCHANGED <<mMutex, usb, pipeIn, external, calls>>
  BY DEF SendHeader, At
<1>2. /\ mMutex = t /\ call[t] \in Calls /\ Op(t) = "SendObject"
  BY <1>1, InCall DEF At, Place, Op
<1>3. /\ Same(t) /\ call'[t].result = call[t].result
      /\ call'[t].pc = "send_chunk"
      /\ \A u \in Threads \ {t} : call'[u] = call[u]
  BY <1>1, <1>2, GotoStep DEF At
<1>4. Op(t)' = Op(t) /\ ~At(t, "send_header")' /\ At(t, "send_header")
  BY <1>1, <1>3 DEF Op, At, Same
<1>5. e \in Transfers /\ e.kind = "data"
  <2>1. call[t].serial \in 0 .. MaxCalls /\ call[t].size \in 0 .. MaxChunks + 1
    BY <1>2, Fields
  <2> QED
    BY <2>1, KindsAre, TransferType DEF Transfer
<1> HIDE DEF e
<1>6. /\ Len(pipeOut) \in Nat /\ Len(pipeOut') = Len(pipeOut) + 1
      /\ pipeOut'[Len(pipeOut) + 1] = e
      /\ \A i \in 1 .. Len(pipeOut) : pipeOut'[i] = pipeOut[i]
  BY <1>1, <1>5, Behind
<1>7. Ahead(t) \/ Receiving(t)
  BY <1>1, <1>2 DEF Agreed, InStep, At
<1>8. CASE Ahead(t)
  <2>1. PICK j \in 1 .. Len(pipeOut) :
          /\ pipeOut[j] = Transfer(Op(t), calls, 0)
          /\ \A i \in 1 .. j - 1 : pipeOut[i].kind = "chunk"
          /\ j = Len(pipeOut)
    BY <1>4, <1>8 DEF Ahead
  <2>2. /\ j \in 1 .. Len(pipeOut') /\ pipeOut'[j] = Transfer(Op(t)', calls', 0)
        /\ \A i \in 1 .. j - 1 : pipeOut'[i].kind = "chunk"
        /\ j < Len(pipeOut') /\ pipeOut'[j + 1].kind = "data"
        /\ \A i \in j + 2 .. Len(pipeOut') : pipeOut'[i].kind = "chunk"
    BY <1>1, <1>4, <1>5, <1>6, <2>1
  <2>3. Ahead(t)'
    BY <1>1, <1>2, <1>4, <1>8, <2>2 DEF Ahead, external
  <2>4. InStep(t)' /\ Buffered(t)' /\ InOrder(t)'
    BY <1>2, <1>3, <1>4, <2>3 DEF InStep, Buffered, InOrder, At, Reads
  <2> QED
    BY <1>1, <1>2, <1>3, <2>4, AgreedStep
<1>9. CASE Receiving(t)
  <2>1. /\ pipeOut = <<>> /\ Len(pipeOut') = 1 /\ pipeOut'[1].kind = "data"
    BY <1>4, <1>5, <1>6, <1>9 DEF Receiving
  <2>2. Receiving(t)'
    BY <1>1, <1>4, <1>9, <2>1 DEF Receiving, external
  <2>3. InStep(t)' /\ Buffered(t)' /\ InOrder(t)'
    BY <1>2, <1>3, <1>4, <2>2 DEF InStep, Buffered, InOrder, At, Reads
  <2> QED
    BY <1>1, <1>2, <1>3, <2>3, AgreedStep
<1> QED
  BY <1>7, <1>8, <1>9

LEMMA SyncSendChunk ==
  ASSUME TypeInv, Agreed, NEW t \in Threads, SendChunk(t), connected
  PROVE  Agreed'
<1> DEFINE e == Transfer("chunk", call[t].serial,
                         call[t].size - call[t].remaining)
<1>1. /\ call[t].pc = "send_chunk"
      /\ UNCHANGED <<mMutex, shared, usb, pipeIn, external, calls, outOfStep>>
  BY DEF SendChunk, At
<1>2. /\ mMutex = t /\ call[t] \in Calls /\ Op(t) = "SendObject"
      /\ call[t].serial \in 0 .. MaxCalls /\ call[t].size \in 0 .. MaxChunks + 1
      /\ call[t].remaining \in 0 .. MaxChunks
      /\ call[t].remaining <= call[t].size
  BY <1>1, InCall, Fields DEF At, Place, Op
<1>3. Ahead(t) \/ Receiving(t) \/ Taking \/ Replied
  BY <1>1, <1>2 DEF Agreed, InStep, At
<1>4. ASSUME call'[t].pc \in {"send_chunk", "response"}, call'[t].op = Op(t),
             \A u \in Threads \ {t} : call'[u] = call[u],
             Ahead(t)' \/ Receiving(t)' \/ Taking' \/ Replied'
      PROVE  Agreed'
  <2>1. InStep(t)' /\ Buffered(t)' /\ InOrder(t)'
    BY <1>2, <1>4 DEF InStep, Buffered, InOrder, At, Op, Reads, Data
  <2> QED
    BY <1>1, <1>2, <1>4, <2>1, AgreedStep
<1>5. CASE Goto(t, "response") /\ UNCHANGED pipeOut
  <2>1. /\ Same(t) /\ call'[t].pc = "response"
        /\ \A u \in Threads \ {t} : call'[u] = call[u]
    BY <1>1, <1>5, GotoStep DEF At
  <2>2. Op(t)' = Op(t) /\ ~At(t, "send_header")' /\ ~At(t, "send_header")
        /\ UNCHANGED <<pipeIn, pipeOut, device, calls>>
    BY <1>1, <1>5, <2>1 DEF Op, At, Same, external
  <2>3. Ahead(t)' \/ Receiving(t)' \/ Taking' \/ Replied'
    <3>1. CASE Ahead(t)
      BY <2>2, <3>1 DEF Ahead
    <3>2. CASE Receiving(t) \/ Taking \/ Replied
      BY <2>2, <3>2 DEF Receiving, Taking, Replied, Chunks
    <3> QED
      BY <1>3, <3>1, <3>2
  <2> QED
    BY <1>4, <2>1, <2>3 DEF Same, Op
<1>6. CASE /\ call[t].remaining > 0 /\ pipeOut' = Append(pipeOut, e)
           /\ call' = [call EXCEPT ![t].remaining = @ - 1]
  <2>1. /\ call'[t].pc = "send_chunk" /\ call'[t].op = Op(t)
        /\ \A u \in Threads \ {t} : call'[u] = call[u]
    BY <1>1, <1>2, <1>6 DEF TypeInv, Typed, Calls, Op
  <2>2. Op(t)' = Op(t) /\ ~At(t, "send_header")' /\ ~At(t, "send_header")
        /\ UNCHANGED <<pipeIn, device, calls>>
    BY <1>1, <2>1 DEF Op, At, external
  <2>3. e \in Transfers /\ e.kind = "chunk"
    <3>1. call[t].size - call[t].remaining \in 0 .. MaxChunks + 1
      BY <1>2, Numbers
    <3>2. "chunk" \in Kinds
      BY KindsAre
    <3> QED
      BY <1>2, <3>1, <3>2, TransferType DEF Transfer
  <2> HIDE DEF e
  <2>4. /\ Len(pipeOut) \in Nat /\ Len(pipeOut') = Len(pipeOut) + 1
        /\ pipeOut'[Len(pipeOut) + 1] = e
        /\ \A i \in 1 .. Len(pipeOut) : pipeOut'[i] = pipeOut[i]
    BY <1>6, <2>3, Behind
  <2>5. CASE Ahead(t)
    <3>1. PICK j \in 1 .. Len(pipeOut) :
            /\ pipeOut[j] = Transfer(Op(t), calls, 0)
            /\ \A i \in 1 .. j - 1 : pipeOut[i].kind = "chunk"
            /\ j < Len(pipeOut) /\ pipeOut[j + 1].kind = "data"
            /\ \A i \in j + 2 .. Len(pipeOut) : pipeOut[i].kind = "chunk"
      BY <1>2, <2>2, <2>5 DEF Ahead
    <3>2. /\ j \in 1 .. Len(pipeOut')
          /\ pipeOut'[j] = Transfer(Op(t)', calls', 0)
          /\ \A i \in 1 .. j - 1 : pipeOut'[i].kind = "chunk"
          /\ j < Len(pipeOut') /\ pipeOut'[j + 1].kind = "data"
      BY <2>2, <2>4, <3>1
    <3>3. \A i \in j + 2 .. Len(pipeOut') : pipeOut'[i].kind = "chunk"
      BY <2>3, <2>4, <3>1
    <3>4. Ahead(t)'
      BY <1>2, <2>2, <2>5, <3>2, <3>3 DEF Ahead
    <3> QED
      BY <1>4, <2>1, <3>4
  <2>6. CASE Receiving(t)
    <3>1. Receiving(t)'
      BY <2>2, <2>3, <2>4, <2>6 DEF Receiving
    <3> QED
      BY <1>4, <2>1, <3>1
  <2>7. CASE Taking \/ Replied
    <3>1. Chunks(pipeOut)'
      BY <2>3, <2>4, <2>7 DEF Taking, Replied, Chunks
    <3>2. Taking' \/ Replied'
      BY <2>2, <2>7, <3>1 DEF Taking, Replied
    <3> QED
      BY <1>4, <2>1, <3>2
  <2> QED
    BY <1>3, <2>5, <2>6, <2>7
<1> QED
  BY <1>5, <1>6 DEF SendChunk

LEMMA SyncReadDataHeader ==
  ASSUME TypeInv, Agreed, NEW t \in Threads, ReadDataHeader(t), connected,
         ~outOfStep'
  PROVE  Agreed'
<1>1. /\ call[t].pc = "read_header" /\ pipeIn # <<>>
      /\ mData' = Head(pipeIn) /\ pipeIn' = Tail(pipeIn)
      /\ UNCHANGED <<mMutex, usb, pipeOut, external, calls>>
  BY DEF ReadDataHeader, At
<1>2. /\ mMutex = t /\ call[t] \in Calls /\ Op(t) \in Reads
      /\ call[t].serial = calls /\ call[t].result = FALSE
      /\ call[t].got = <<>> /\ call[t].writeBuffer = 0
      /\ Op(t) = "ReadFile" => call[t].size = 0
      /\ urb = NoUrb
  BY <1>1, InCall DEF At, Place, Op
<1>3. UNCHANGED <<pipeOut, device, calls, urb, buffer>>
  BY <1>1 DEF external, usb
<1>4. Refused \/ \E total \in 0 .. MaxChunks : Coming(total, 0)
  BY <1>1, <1>2 DEF Agreed, InStep, At, Ahead
<1>5. \/ Return(t, FALSE) /\ mData'.kind \in Responses
      \/ InitialData(t) /\ (Op(t) = "ReadObject" => mData'.n = call[t].size)
  BY DEF ReadDataHeader, Abandon
<1>6. CASE Refused
  <2>1. Head(pipeIn).kind = "ERROR" /\ Head(pipeIn).n = 0 /\ Silent'
    BY <1>1, <1>3, <1>6, OnlyAnswer
  <2>2. Return(t, FALSE)
    BY <1>1, <1>5, <2>1 DEF InitialData
  <2>3. /\ Same(t) /\ call'[t].result = FALSE /\ call'[t].pc = "unlock"
        /\ \A u \in Threads \ {t} : call'[u] = call[u]
    BY <1>1, <2>2, ReturnStep DEF At
  <2>4. InStep(t)' /\ Buffered(t)'
    BY <2>1, <2>3 DEF InStep, Buffered, At
  <2>5. InOrder(t)'
    BY <1>2, <2>3, SameInOrder DEF Agreed
  <2> QED
    BY <1>1, <1>2, <2>3, <2>4, <2>5, AgreedStep
<1>7. CASE \E total \in 0 .. MaxChunks : Coming(total, 0)
  <2>1. PICK total \in 0 .. MaxChunks : Coming(total, 0)
    BY <1>7
  <2>2. /\ total \in Nat /\ 0 \in Nat /\ 0 + 1 = 1 /\ calls \in Nat
    BY Numbers DEF TypeInv, Typed
  <2>3. /\ Answer(pipeOut', pipeIn', device', calls', total, 1)
        /\ mData' = Transfer("data", calls, total)
    BY <1>1, <1>3, <2>1, <2>2, NextPiece
  <2>4. mData'.kind = "data" /\ mData'.n = total /\ mData'.serial = calls
    BY <2>3 DEF Transfer
  <2>5. InitialData(t) /\ (Op(t) = "ReadObject" => total = call[t].size)
    BY <1>5, <2>4 DEF Responses
  <2>6. CASE total = 0
    <3>1. /\ call' = [call EXCEPT ![t].pc = "loop", ![t].remaining = 0]
          /\ call[t].size = 0
      BY <1>2, <2>4, <2>5, <2>6 DEF InitialData, Reads
    <3>2. /\ call'[t].pc = "loop" /\ call'[t].remaining = 0
          /\ call'[t].size = 0 /\ call'[t].got = <<>>
          /\ call'[t].writeBuffer = 0 /\ call'[t].op = call[t].op
          /\ call'[t].result = FALSE
          /\ \A u \in Threads \ {t} : call'[u] = call[u]
      BY <1>2, <3>1 DEF TypeInv, Typed, Calls
    <3>3. Taken(t)' = 1 /\ urb'.state = "none"
      BY <1>2, <1>3, <3>2 DEF Taken, Pieces, NoUrb
    <3>4. Coming(call[t].size, Taken(t))'
      BY <2>3, <2>6, <3>2, <3>3 DEF Coming
    <3>5. InStep(t)'
      BY <3>2, <3>4 DEF InStep, At
    <3>6. Buffered(t)'
      BY <3>2, <3>3 DEF Buffered
    <3>7. InOrder(t)'
      BY <3>2 DEF InOrder
    <3> QED
      BY <1>1, <1>2, <3>2, <3>5, <3>6, <3>7, AgreedStep
  <2>7. CASE total # 0
    <3>1. call' = [call EXCEPT ![t].pc = "loop",
                      ![t].remaining = total - 1, ![t].size = total,
                      ![t].got = <<<<calls, 0>>>>]
      BY <2>4, <2>5, <2>7 DEF InitialData, Abandon
    <3>2. /\ call'[t].pc = "loop" /\ call'[t].remaining = total - 1
          /\ call'[t].size = total /\ call'[t].got = <<<<calls, 0>>>>
          /\ call'[t].writeBuffer = 0 /\ call'[t].op = call[t].op
          /\ call'[t].result = FALSE /\ call'[t].serial = calls
          /\ \A u \in Threads \ {t} : call'[u] = call[u]
      BY <1>2, <3>1 DEF TypeInv, Typed, Calls
    <3>3. Taken(t)' = 1 /\ urb'.state = "none"
      BY <1>2, <1>3, <2>2, <2>7, <3>2 DEF Taken, Pieces, NoUrb
    <3>4. Coming(call[t].size, Taken(t))'
      BY <2>3, <3>2, <3>3 DEF Coming
    <3>5. InStep(t)'
      BY <3>2, <3>4 DEF InStep, At
    <3>6. Len(call'[t].got) = 1
      BY <3>2
    <3>7. Buffered(t)'
      BY <2>2, <2>7, <3>2, <3>3, <3>6 DEF Buffered
    <3>8. InOrder(t)'
      <4>1. call'[t].got =
              [i \in 1 .. Len(call'[t].got) |-> <<call'[t].serial, i - 1>>]
        BY <3>2, <3>6
      <4> QED
        BY <3>2, <4>1 DEF InOrder
    <3> QED
      BY <1>1, <1>2, <3>2, <3>5, <3>7, <3>8, AgreedStep
  <2> QED
    BY <2>6, <2>7
<1> QED
  BY <1>4, <1>6, <1>7

(* Everything a turn of the loop counts with.                              *)
LEMMA Counts ==
  ASSUME TypeInv, NEW t \in Threads, ~At(t, "idle")
  PROVE  /\ call[t].size \in Nat /\ call[t].remaining \in Nat
         /\ Len(call[t].got) \in Nat /\ Pieces(call[t].size) \in Nat
         /\ Pieces(call[t].size) >= call[t].size /\ calls \in Nat
         /\ call[t].req \in {1, 2} /\ call[t].writeBuffer \in {0, 1, 2}
<1>1. /\ call[t].size \in 0 .. MaxChunks + 1
      /\ call[t].remaining \in 0 .. MaxChunks
      /\ call[t].got \in Seq(Nat \X Nat) /\ calls \in 0 .. MaxCalls
      /\ call[t].req \in {1, 2} /\ call[t].writeBuffer \in {0, 1, 2}
  BY InCall, Fields
<1>2. /\ call[t].size \in Nat /\ call[t].remaining \in Nat
      /\ Len(call[t].got) \in Nat /\ calls \in Nat
  BY <1>1, Numbers
<1> QED
  BY <1>1, <1>2 DEF Pieces

LEMMA SyncQueueRead ==
  ASSUME TypeInv, Agreed, NEW t \in Threads, QueueRead(t), connected,
         ~outOfStep'
  PROVE  Agreed'
<1>1. /\ call[t].pc = "loop"
      /\ UNCHANGED <<mMutex, shared, buffer, pipes, external, calls>>
  BY DEF QueueRead, At
<1>2. /\ mMutex = t /\ Op(t) \in Reads /\ urb = NoUrb /\ call[t].result = FALSE
  BY <1>1, InCall DEF At, Place, Op
<1>3. /\ call[t].remaining \in Nat /\ call[t].size \in Nat
      /\ Pieces(call[t].size) \in Nat
  BY <1>1, Counts DEF At
<1>4. UNCHANGED <<pipeIn, pipeOut, device, calls, buffer>>
  BY <1>1 DEF pipes, external
<1>5. Coming(call[t].size, Taken(t)) /\ Buffered(t) /\ InOrder(t)
  BY <1>1, <1>2 DEF Agreed, InStep
<1>6. Taken(t) = Pieces(call[t].size) - call[t].remaining
  BY <1>2, <1>3 DEF Taken, NoUrb
<1>7. PICK pc \in {"write", "response"} :
        /\ Goto(t, pc)
        /\ pc = "response" =>
             call[t].remaining = 0 /\ call[t].writeBuffer = 0
        /\ \/ call[t].remaining > 0 /\ urb'.state = "queued"
           \/ call[t].remaining = 0 /\ urb' = urb
  BY DEF QueueRead, Abandon
<1>8. /\ Same(t) /\ call'[t].result = FALSE /\ call'[t].pc = pc
      /\ \A u \in Threads \ {t} : call'[u] = call[u]
  BY <1>1, <1>2, <1>7, GotoStep DEF At
<1>9. Op(t)' = Op(t) /\ urb'.state # "done"
  BY <1>2, <1>7, <1>8 DEF Same, Op, NoUrb
<1>10. Taken(t)' = Taken(t)
  BY <1>6, <1>8, <1>9, <1>3 DEF Taken, Same
<1>11. Coming(call[t].size, Taken(t))'
  BY <1>4, <1>5, <1>8, <1>10 DEF Coming, Same
<1>12. InStep(t)'
  <2>1. CASE pc = "write"
    BY <1>8, <1>11, <2>1 DEF InStep, At
  <2>2. CASE pc = "response"
    <3>1. Total(t)' = call'[t].size /\ Pieces(Total(t))' = Taken(t)'
      BY <1>2, <1>3, <1>6, <1>7, <1>8, <1>9, <1>10, <2>2
         DEF Total, Same, Reads
    <3>2. Coming(Total(t), Pieces(Total(t)))'
      BY <1>11, <3>1 DEF Coming
    <3>3. Op(t)' \in Data
      BY <1>2, <1>9 DEF Data
    <3> QED
      BY <1>8, <2>2, <3>2, <3>3 DEF InStep, At
  <2> QED
    BY <1>7, <2>1, <2>2
<1>13. Buffered(t)'
  <2>1. ~(urb.state = "done") /\ Op(t) = call[t].op
    BY <1>2 DEF NoUrb, Op
  <2>2. call'[t].pc \in {"write", "wait"} /\ urb'.state = "none" =>
          call'[t].remaining = 0
    BY <1>7, <1>8 DEF Same
  <2>3. /\ call[t].writeBuffer # 0 => call'[t].pc = "write"
        /\ call'[t].pc = "response" => call'[t].remaining = 0
    BY <1>7, <1>8 DEF Same
  <2> QED
    BY <1>1, <1>2, <1>4, <1>5, <1>7, <1>8, <1>9, <2>1, <2>2, <2>3
       DEF Buffered, Same
<1>14. InOrder(t)'
  BY <1>5, <1>8, SameInOrder
<1> QED
  BY <1>1, <1>2, <1>8, <1>12, <1>13, <1>14, AgreedStep

LEMMA SyncWriteBuffer ==
  ASSUME TypeInv, Agreed, NEW t \in Threads, WriteBuffer(t), connected,
         ~outOfStep'
  PROVE  Agreed'
<1> DEFINE b == call[t].writeBuffer
           n == Len(call[t].got)
<1>1. /\ call[t].pc = "write"
      /\ UNCHANGED <<mMutex, shared, usb, pipes, external, calls>>
      /\ \/ b = 0 /\ Goto(t, "wait")
         \/ /\ b # 0
            /\ call' = [call EXCEPT ![t].pc = "wait", ![t].writeBuffer = 0,
                 ![t].got = Append(@, <<buffer[b].serial, buffer[b].n>>)]
  BY DEF WriteBuffer, At
<1>2. /\ mMutex = t /\ Op(t) \in Reads /\ call[t] \in Calls
      /\ call[t].result = FALSE /\ call[t].serial = calls
  BY <1>1, InCall DEF At, Place, Op
<1>3. /\ call[t].remaining \in Nat /\ call[t].size \in Nat /\ n \in Nat
      /\ Pieces(call[t].size) \in Nat /\ calls \in Nat
  BY <1>1, Counts DEF At
<1>4. UNCHANGED <<pipeIn, pipeOut, device, calls, buffer, urb>>
  BY <1>1 DEF pipes, external, usb
<1>5. Coming(call[t].size, Taken(t)) /\ Buffered(t) /\ InOrder(t)
  BY <1>1, <1>2 DEF Agreed, InStep
<1>6. ASSUME call'[t].pc = "wait", call'[t].op = call[t].op,
             call'[t].size = call[t].size,
             call'[t].remaining = call[t].remaining,
             \A u \in Threads \ {t} : call'[u] = call[u],
             Buffered(t)', InOrder(t)'
      PROVE  Agreed'
  <2>1. Coming(call[t].size, Taken(t))'
    BY <1>4, <1>5, <1>6 DEF Coming, Taken
  <2>2. InStep(t)'
    BY <1>6, <2>1 DEF InStep, At
  <2> QED
    BY <1>1, <1>2, <1>6, <2>2, AgreedStep
<1>7. CASE b = 0 /\ Goto(t, "wait")
  <2>1. /\ Same(t) /\ call'[t].result = FALSE /\ call'[t].pc = "wait"
        /\ \A u \in Threads \ {t} : call'[u] = call[u]
    BY <1>1, <1>2, <1>7, GotoStep DEF At
  <2>2. Buffered(t)'
    BY <1>1, <1>2, <1>4, <1>5, <1>7, <2>1 DEF Buffered, Same, Op
  <2>3. InOrder(t)'
    BY <1>5, <2>1, SameInOrder
  <2> QED
    BY <1>6, <2>1, <2>2, <2>3 DEF Same
<1>8. CASE /\ b # 0
           /\ call' = [call EXCEPT ![t].pc = "wait", ![t].writeBuffer = 0,
                 ![t].got = Append(@, <<buffer[b].serial, buffer[b].n>>)]
  <2>1. buffer[b] = Transfer("chunk", calls, n)
    BY <1>1, <1>2, <1>5, <1>8 DEF Buffered
  <2>2. buffer[b].serial = calls /\ buffer[b].n = n
    BY <2>1 DEF Transfer
  <2>3. /\ call'[t].pc = "wait" /\ call'[t].op = call[t].op
        /\ call'[t].size = call[t].size /\ call'[t].serial = calls
        /\ call'[t].remaining = call[t].remaining
        /\ call'[t].req = call[t].req /\ call'[t].writeBuffer = 0
        /\ call'[t].result = FALSE
        /\ \A u \in Threads \ {t} : call'[u] = call[u]
    BY <1>2, <1>8 DEF TypeInv, Typed, Calls
  <2>4. call'[t].got = Append(call[t].got, <<calls, n>>)
    BY <1>2, <1>8, <2>2 DEF TypeInv, Typed, Calls
  <2>5. call[t].got \in Seq(Nat \X Nat) /\ <<calls, n>> \in Nat \X Nat
    BY <1>2, <1>3, Fields
  <2> HIDE DEF n
  <2>6. /\ Len(call'[t].got) = n + 1
        /\ call'[t].got \in Seq(Nat \X Nat)
        /\ call'[t].got[n + 1] = <<calls, n>>
        /\ \A i \in 1 .. n : call'[t].got[i] = call[t].got[i]
    BY <2>4, <2>5 DEF n
  <2>7. call[t].got = [i \in 1 .. n |-> <<calls, i - 1>>]
    BY <1>2, <1>5 DEF InOrder, n
  <2>8. call'[t].got = [i \in 1 .. n + 1 |-> <<calls, i - 1>>]
    <3>1. ASSUME NEW i \in 1 .. n + 1 PROVE call'[t].got[i] = <<calls, i - 1>>
      <4>1. CASE i = n + 1
        <5>1. i - 1 = n
          BY <1>3, <4>1
        <5> QED
          BY <2>6, <4>1, <5>1
      <4>2. CASE i \in 1 .. n
        <5>1. call[t].got[i] = <<calls, i - 1>>
          BY <2>7, <4>2
        <5> QED
          BY <2>6, <4>2, <5>1
      <4> QED
        BY <1>3, <4>1, <4>2
    <3>2. call'[t].got = [i \in 1 .. n + 1 |-> call'[t].got[i]]
      <4>1. \A q \in Seq(Nat \X Nat) : q = [i \in 1 .. Len(q) |-> q[i]]
        OBVIOUS
      <4> QED
        BY <2>6, <4>1
    <3> QED
      BY <3>1, <3>2
  <2>9. InOrder(t)'
    BY <2>3, <2>6, <2>8 DEF InOrder
  <2>10. Buffered(t)'
    <3>1. n + 1 + call[t].remaining = call[t].size
      BY <1>1, <1>2, <1>3, <1>5, <1>8 DEF Buffered, n
    <3>2. /\ Len(call'[t].got) + 0 + call'[t].remaining = call'[t].size
          /\ Len(call'[t].got) > 0
      BY <1>3, <2>3, <2>6, <3>1
    <3>3. /\ urb.state = "done" =>
               buffer[call[t].req]
                 = Transfer("chunk", calls, call[t].size - call[t].remaining)
          /\ urb.state = "none" => call[t].remaining = 0
      BY <1>1, <1>2, <1>5 DEF Buffered
    <3> QED
      BY <1>4, <2>3, <3>2, <3>3 DEF Buffered
  <2> QED
    BY <1>6, <2>3, <2>9, <2>10
<1> QED
  BY <1>1, <1>7, <1>8

LEMMA SyncReadDataWait ==
  ASSUME TypeInv, Agreed, NEW t \in Threads, ReadDataWait(t), connected,
         ~outOfStep'
  PROVE  Agreed'
<1>1. /\ call[t].pc = "wait"
      /\ UNCHANGED <<mMutex, shared, buffer, pipes, external, calls>>
  BY DEF ReadDataWait, At
<1>2. /\ mMutex = t /\ Op(t) \in Reads /\ call[t] \in Calls
      /\ call[t].result = FALSE /\ call[t].serial = calls
  BY <1>1, InCall DEF At, Place, Op
<1>3. /\ call[t].remaining \in Nat /\ call[t].size \in Nat
      /\ Len(call[t].got) \in Nat /\ call[t].req \in {1, 2}
      /\ Pieces(call[t].size) \in Nat
  BY <1>1, Counts DEF At
<1>4. UNCHANGED <<pipeIn, pipeOut, device, calls, buffer>>
  BY <1>1 DEF pipes, external
<1>5. Coming(call[t].size, Taken(t)) /\ Buffered(t) /\ InOrder(t)
  BY <1>1, <1>2 DEF Agreed, InStep
<1>6. CASE urb.state = "none" /\ Goto(t, "loop") /\ UNCHANGED urb
  <2>1. /\ Same(t) /\ call'[t].result = FALSE /\ call'[t].pc = "loop"
        /\ \A u \in Threads \ {t} : call'[u] = call[u]
    BY <1>1, <1>2, <1>6, GotoStep DEF At
  <2>2. Coming(call[t].size, Taken(t))'
    BY <1>4, <1>5, <1>6, <2>1 DEF Coming, Taken, Same
  <2>3. InStep(t)'
    BY <2>1, <2>2 DEF InStep, At
  <2>4. Buffered(t)'
    BY <1>1, <1>2, <1>4, <1>5, <1>6, <2>1 DEF Buffered, Same, Op
  <2>5. InOrder(t)'
    BY <1>5, <2>1, SameInOrder
  <2> QED
    BY <1>1, <1>2, <2>1, <2>3, <2>4, <2>5, AgreedStep
<1>7. CASE urb.state = "done"
  <2>1. /\ urb' = NoUrb /\ call[t].remaining > 0
    BY <1>2, <1>7, QueuedBy DEF ReadDataWait
  <2>2. /\ buffer[call[t].req]
             = Transfer("chunk", calls, call[t].size - call[t].remaining)
        /\ call[t].writeBuffer = 0
        /\ call[t].size > 0 => Len(call[t].got) > 0
    BY <1>1, <1>2, <1>5, <1>7 DEF Buffered
  <2>3. call' = [call EXCEPT ![t].pc = "loop",
                  ![t].writeBuffer = call[t].req, ![t].req = 3 - @,
                  ![t].remaining = @ - 1]
    BY <1>7, <2>2 DEF ReadDataWait, Transfer
  <2>4. /\ call'[t].pc = "loop" /\ call'[t].op = call[t].op
        /\ call'[t].size = call[t].size /\ call'[t].serial = call[t].serial
        /\ call'[t].remaining = call[t].remaining - 1
        /\ call'[t].req = 3 - call[t].req /\ call'[t].got = call[t].got
        /\ call'[t].writeBuffer = call[t].req /\ call'[t].result = FALSE
        /\ \A u \in Threads \ {t} : call'[u] = call[u]
    BY <1>2, <2>3 DEF TypeInv, Typed, Calls
  <2>5. Len(call[t].got) + call[t].remaining = call[t].size
    <3>1. Len(call[t].got) + 0 + call[t].remaining = call[t].size
      BY <1>1, <1>2, <1>5, <2>2 DEF Buffered
    <3> QED
      BY <1>3, <3>1
  <2>6. urb'.state = "none"
    BY <2>1 DEF NoUrb
  <2>7. Taken(t)' = Taken(t)
    <3>1. Taken(t)' = Pieces(call[t].size) - (call[t].remaining - 1) + 0
      BY <2>4, <2>6 DEF Taken
    <3>2. Taken(t) = Pieces(call[t].size) - call[t].remaining + 1
      BY <1>7 DEF Taken
    <3> QED
      BY <1>3, <3>1, <3>2
  <2>8. Coming(call[t].size, Taken(t))'
    BY <1>4, <1>5, <2>4, <2>7 DEF Coming
  <2>9. InStep(t)'
    BY <2>4, <2>8 DEF InStep, At
  <2>10. Buffered(t)'
    <3>1. Len(call'[t].got) + 1 + call'[t].remaining = call'[t].size
      <4>1. Len(call[t].got) + 1 + (call[t].remaining - 1) = call[t].size
        <5>1. \A a, r \in Nat : a + 1 + (r - 1) = a + r
          OBVIOUS
        <5> QED
          BY <1>3, <2>5, <5>1
      <4> QED
        BY <2>4, <4>1
    <3>2. call'[t].writeBuffer # 0 /\ call'[t].writeBuffer # call'[t].req
      BY <1>3, <2>4
    <3>3. buffer'[call'[t].writeBuffer]
            = Transfer("chunk", calls', Len(call'[t].got))
      <4>1. call[t].size - call[t].remaining = Len(call[t].got)
        BY <1>3, <2>5
      <4> QED
        BY <1>4, <2>2, <2>4, <4>1
    <3> QED
      BY <2>2, <2>4, <2>6, <3>1, <3>2, <3>3 DEF Buffered
  <2>11. InOrder(t)'
    BY <1>5, <2>4 DEF InOrder, Op
  <2> QED
    BY <1>1, <1>2, <2>4, <2>9, <2>10, <2>11, AgreedStep
<1> QED
  BY <1>6, <1>7 DEF ReadDataWait, Abandon

LEMMA SyncCompleteRead ==
  ASSUME TypeInv, Agreed, CompleteRead, ~outOfStep PROVE Agreed'
<1>1. /\ urb.state = "queued" /\ pipeIn # <<>>
      /\ urb' = [urb EXCEPT !.state = "done"]
      /\ buffer' = [buffer EXCEPT ![urb.buffer] = Head(pipeIn)]
      /\ pipeIn' = Tail(pipeIn)
      /\ UNCHANGED <<mMutex, shared, call, pipeOut, external, calls, outOfStep>>
  BY DEF CompleteRead
<1>2. PICK t \in Threads :
        /\ mMutex = t /\ call[t].pc \in {"write", "wait", "drain"}
        /\ call[t].remaining > 0 /\ urb.buffer = call[t].req
  BY <1>1 DEF TypeInv, Queued
<1>3. ~At(t, "idle") /\ call[t].pc \in {"write", "wait"} /\ Op(t) \in Reads
  <2>1. call[t].pc # "drain"
    BY DEF TypeInv, Held, At
  <2> QED
    BY <1>2, <2>1, InCall DEF At, Place, Op
<1>4. /\ call[t].remaining \in Nat /\ call[t].size \in Nat
      /\ Len(call[t].got) \in Nat /\ call[t].req \in {1, 2}
      /\ call[t].writeBuffer \in {0, 1, 2} /\ calls \in Nat
  BY <1>3, Counts
<1>5. Coming(call[t].size, Taken(t)) /\ Buffered(t) /\ InOrder(t)
  BY <1>2, <1>3 DEF Agreed, InStep
<1>6. UNCHANGED <<pipeOut, device, calls, call>>
  BY <1>1 DEF external
<1> DEFINE k == call[t].size - call[t].remaining
<1>7. /\ k \in Nat /\ 0 < k /\ k < call[t].size /\ call[t].size > 0
  <2>1. Len(call[t].got) + (IF call[t].writeBuffer = 0 THEN 0 ELSE 1)
           + call[t].remaining = call[t].size
        /\ (call[t].size > 0 => Len(call[t].got) > 0)
    BY <1>3, <1>5 DEF Buffered
  <2>2. PICK held \in {0, 1} :
          Len(call[t].got) + held + call[t].remaining = call[t].size
    BY <2>1
  <2>3. call[t].size > 0
    BY <1>2, <1>4, <2>2
  <2>4. Len(call[t].got) > 0
    BY <2>1, <2>3
  <2>5. k = Len(call[t].got) + held
    BY <1>4, <2>2
  <2> QED
    BY <1>2, <1>4, <2>2, <2>3, <2>4, <2>5
<1>8. Taken(t) = k
  <2>1. Taken(t) = call[t].size - call[t].remaining + 0
    BY <1>1, <1>7 DEF Taken, Pieces
  <2> QED
    BY <1>4, <2>1
<1> HIDE DEF k
<1>9. /\ Answer(pipeOut', pipeIn', device', calls', call[t].size, k + 1)
      /\ Head(pipeIn) = Transfer("chunk", calls, k)
  BY <1>1, <1>4, <1>5, <1>6, <1>7, <1>8, NextPiece
<1>10. urb'.state = "done" /\ urb.buffer = call[t].req
  BY <1>1, <1>2 DEF TypeInv, Typed
<1>11. Taken(t)' = k + 1
  <2>1. Taken(t)' = call[t].size - call[t].remaining + 1
    BY <1>6, <1>7, <1>10 DEF Taken, Pieces
  <2> QED
    BY <2>1 DEF k
<1>12. Coming(call[t].size, Taken(t))'
  BY <1>6, <1>9, <1>11 DEF Coming
<1>13. InStep(t)'
  BY <1>3, <1>6, <1>12 DEF InStep, At
<1>14. Buffered(t)'
  <2>1. /\ buffer'[call[t].req] = Transfer("chunk", calls, k)
        /\ \A b \in {1, 2} \ {call[t].req} : buffer'[b] = buffer[b]
    BY <1>1, <1>4, <1>9, <1>10 DEF TypeInv, Typed
  <2>2. call[t].writeBuffer # 0 =>
          buffer'[call[t].writeBuffer] = buffer[call[t].writeBuffer]
    BY <1>3, <1>4, <1>5, <2>1 DEF Buffered
  <2> QED
    BY <1>3, <1>5, <1>6, <1>10, <2>1, <2>2 DEF Buffered, k, Op
<1>15. InOrder(t)'
  BY <1>5, <1>6 DEF InOrder, Op
<1> QED
  BY <1>1, <1>2, <1>6, <1>13, <1>14, <1>15, AgreedStep

-----------------------------------------------------------------------------
(* What the device does in each phase of a transaction.                    *)

LEMMA HeadOut ==
  ASSUME TypeInv, pipeOut # <<>>, pipeOut' = Tail(pipeOut)
  PROVE  /\ Head(pipeOut) = pipeOut[1] /\ 1 \in 1 .. Len(pipeOut)
         /\ Len(pipeOut) \in Nat /\ Len(pipeOut') = Len(pipeOut) - 1
         /\ \A i \in 1 .. Len(pipeOut) - 1 : pipeOut'[i] = pipeOut[i + 1]
         /\ Len(pipeOut) = 1 => pipeOut' = <<>>
         /\ Chunks(pipeOut) => Chunks(pipeOut')
<1>1. /\ Head(pipeOut) = pipeOut[1] /\ 1 \in 1 .. Len(pipeOut)
      /\ Len(pipeOut) \in Nat /\ Len(pipeOut') = Len(pipeOut) - 1
      /\ \A i \in 1 .. Len(pipeOut) - 1 : pipeOut'[i] = pipeOut[i + 1]
      /\ Len(pipeOut) = 1 => pipeOut' = <<>>
  BY Pipes
<1> QED
  BY <1>1 DEF Chunks

(* An idle device throws away what is left of an object it refused.        *)
LEMMA IdleDevice ==
  ASSUME TypeInv, device.mode = "idle", Chunks(pipeOut), Device
  PROVE  Chunks(pipeOut') /\ UNCHANGED <<pipeIn, device>>
<1>1. pipeOut # <<>> /\ pipeOut' = Tail(pipeOut)
  BY DEF Device, DeviceRequest, DeviceSend, DeviceReceive, DeviceAnswer
<1>2. Head(pipeOut).kind = "chunk" /\ Chunks(pipeOut')
  BY <1>1, HeadOut DEF Chunks
<1>3. ~DeviceRequest
  BY <1>2, After DEF DeviceRequest, Ops
<1> QED
  BY <1>1, <1>2, <1>3 DEF Device, DeviceSend, DeviceReceive, DeviceAnswer

LEMMA TakingDevice ==
  ASSUME TypeInv, Taking, Device PROVE Taking' \/ Replied'
<1>1. /\ calls' = calls /\ device.serial \in 0 .. MaxCalls
      /\ device \in [mode : {"idle", "sending", "receiving", "taking"},
                     serial : 0 .. MaxCalls, n : Nat, total : 0 .. MaxChunks + 1]
  BY DEF Device, TypeInv, Typed
<1>2. CASE DeviceReceive
  <2>1. /\ pipeOut # <<>> /\ pipeOut' = Tail(pipeOut) /\ pipeIn' = pipeIn
        /\ device' = [device EXCEPT !.n = @ + 1]
    BY <1>2 DEF DeviceReceive, Taking
  <2>2. device'.mode = "taking" /\ device'.serial = device.serial
    BY <1>1, <2>1 DEF Taking
  <2> QED
    BY <1>1, <2>1, <2>2, HeadOut DEF Taking
<1>3. CASE DeviceAnswer
  <2>1. /\ device' = [device EXCEPT !.mode = "idle"] /\ UNCHANGED pipeOut
        /\ \E kind \in {"OK", "ERROR"} :
             pipeIn' = Append(pipeIn, Transfer(kind, device.serial, 0))
    BY <1>3 DEF DeviceAnswer, Respond
  <2>2. \E kind \in Responses : pipeIn' = <<Transfer(kind, calls, 0)>>
    BY <2>1 DEF Taking, Responses
  <2>3. device'.mode = "idle"
    BY <1>1, <2>1
  <2> QED
    BY <1>1, <2>1, <2>2, <2>3 DEF Replied, Taking, Chunks
<1> QED
  BY <1>2, <1>3 DEF Device, DeviceRequest, DeviceSend, Taking

LEMMA ReceivingDevice ==
  ASSUME TypeInv, NEW t \in Threads, Receiving(t), Device
  PROVE  ~At(t, "send_header") /\ Taking'
<1>1. /\ calls' = calls
      /\ device \in [mode : {"idle", "sending", "receiving", "taking"},
                     serial : 0 .. MaxCalls, n : Nat, total : 0 .. MaxChunks + 1]
  BY DEF Device, TypeInv, Typed
<1>2. DeviceReceive
  BY DEF Device, DeviceRequest, DeviceSend, DeviceAnswer, Receiving
<1>3. pipeOut # <<>> /\ pipeOut' = Tail(pipeOut) /\ pipeIn' = pipeIn
  BY <1>2 DEF DeviceReceive
<1>4. /\ ~At(t, "send_header") /\ pipeOut[1].kind = "data"
      /\ \A i \in 2 .. Len(pipeOut) : pipeOut[i].kind = "chunk"
  BY <1>3 DEF Receiving
<1>5. device' = [device EXCEPT !.mode = "taking", !.n = 0,
                               !.total = Head(pipeOut).n]
  BY <1>2, <1>3, <1>4, HeadOut DEF DeviceReceive, Receiving
<1>6. device'.mode = "taking" /\ device'.serial = device.serial
  BY <1>1, <1>5
<1>7. Chunks(pipeOut')
  BY <1>3, <1>4, HeadOut DEF Chunks
<1> QED
  BY <1>1, <1>3, <1>4, <1>6, <1>7 DEF Receiving, Taking, Chunks

(* The device takes the request: it answers at once, waits for the object, *)
(* or starts to send data.                                                 *)
Answered(t) ==
  \/ Op(t) \in {"OpenSession", "DeleteObject"} /\ Replied
  \/ Op(t) = "SendObject" /\ Receiving(t)
  \/ Op(t) \in Data /\ Refused
  \/ Op(t) \in Data /\ \E total \in IF Op(t) = "GetInfo" THEN {1}
                                    ELSE 0 .. MaxChunks : Coming(total, 0)

LEMMA AheadDevice ==
  ASSUME TypeInv, NEW t \in Threads, Ahead(t), Op(t) \in Ops \ {"SendObjectInfo"},
         Device
  PROVE  Ahead(t)' \/ Answered(t)'
<1>1. /\ pipeIn = <<>> /\ device.mode = "idle"
      /\ calls' = calls /\ call' = call
  BY DEF Ahead, Device
<1>2. Op(t)' = Op(t) /\ (At(t, "send_header")' <=> At(t, "send_header"))
  BY <1>1 DEF Op, At
<1>3. PICK j \in 1 .. Len(pipeOut) :
        /\ pipeOut[j] = Transfer(Op(t), calls, 0)
        /\ \A i \in 1 .. j - 1 : pipeOut[i].kind = "chunk"
        /\ IF Op(t) = "SendObject" /\ ~At(t, "send_header")
           THEN /\ j < Len(pipeOut) /\ pipeOut[j + 1].kind = "data"
                /\ \A i \in j + 2 .. Len(pipeOut) : pipeOut[i].kind = "chunk"
           ELSE j = Len(pipeOut)
  BY DEF Ahead
<1>4. pipeOut # <<>> /\ pipeOut' = Tail(pipeOut)
  BY <1>1 DEF Device, DeviceRequest, DeviceSend, DeviceReceive, DeviceAnswer
<1>5. /\ Head(pipeOut) = pipeOut[1] /\ 1 \in 1 .. Len(pipeOut)
      /\ Len(pipeOut) \in Nat /\ Len(pipeOut') = Len(pipeOut) - 1
      /\ \A i \in 1 .. Len(pipeOut) - 1 : pipeOut'[i] = pipeOut[i + 1]
      /\ Len(pipeOut) = 1 => pipeOut' = <<>>
  BY <1>4, HeadOut
<1>6. CASE j # 1
  <2>1. Head(pipeOut).kind = "chunk"
    BY <1>3, <1>5, <1>6
  <2>2. UNCHANGED <<pipeIn, device>>
    <3>1. ~DeviceRequest
      BY <2>1, After DEF DeviceRequest, Ops
    <3> QED
      BY <1>1, <3>1 DEF Device, DeviceSend, DeviceReceive, DeviceAnswer
  <2> DEFINE l == j - 1
  <2>3. l \in 1 .. Len(pipeOut') /\ j = l + 1
    BY <1>3, <1>5, <1>6
  <2> HIDE DEF l
  <2>4. /\ pipeOut'[l] = Transfer(Op(t), calls, 0)
        /\ \A i \in 1 .. l - 1 : pipeOut'[i].kind = "chunk"
    BY <1>3, <1>5, <2>3
  <2>5. CASE Op(t) = "SendObject" /\ ~At(t, "send_header")
    <3>1. j < Len(pipeOut) /\ pipeOut[j + 1].kind = "data"
          /\ \A i \in j + 2 .. Len(pipeOut) : pipeOut[i].kind = "chunk"
      BY <1>3, <2>5
    <3>2. l < Len(pipeOut') /\ pipeOut'[l + 1].kind = "data"
      BY <1>5, <2>3, <3>1
    <3>3. ASSUME NEW i \in l + 2 .. Len(pipeOut') PROVE pipeOut'[i].kind = "chunk"
      <4>1. i \in 1 .. Len(pipeOut) - 1 /\ i + 1 \in j + 2 .. Len(pipeOut)
        BY <1>5, <2>3
      <4> QED
        BY <1>5, <3>1, <4>1
    <3> QED
      BY <1>1, <1>2, <2>2, <2>3, <2>4, <2>5, <3>2, <3>3 DEF Ahead
  <2>6. CASE ~(Op(t) = "SendObject" /\ ~At(t, "send_header"))
    <3>1. l = Len(pipeOut')
      BY <1>3, <1>5, <2>3, <2>6
    <3> QED
      BY <1>1, <1>2, <2>2, <2>3, <2>4, <2>6, <3>1 DEF Ahead
  <2> QED
    BY <2>5, <2>6
<1>7. CASE j = 1
  <2> DEFINE c == Head(pipeOut)
  <2>1. c.kind = Op(t) /\ c.serial = calls
    BY <1>3, <1>5, <1>7 DEF Transfer
  <2>2. DeviceRequest
    BY <1>1, <2>1 DEF Device, DeviceSend, DeviceReceive, DeviceAnswer, Ops
  <2> HIDE DEF c
  <2>3. ~(Op(t) = "SendObject" /\ ~At(t, "send_header")) => pipeOut' = <<>>
    BY <1>3, <1>5, <1>7
  <2>4. Op(t) # "SendObject" => Chunks(pipeOut')
    BY <2>3 DEF Chunks
  <2>5. CASE /\ c.kind \in {"OpenSession", "DeleteObject"}
             /\ UNCHANGED device
             /\ \E kind \in Responses :
                  pipeIn' = Append(pipeIn, Transfer(kind, c.serial, 0))
    <3>1. \E kind \in Responses : pipeIn' = <<Transfer(kind, calls', 0)>>
      BY <1>1, <2>1, <2>5
    <3>2. Replied'
      BY <1>1, <2>1, <2>4, <2>5, <3>1 DEF Replied
    <3> QED
      BY <1>2, <2>1, <2>5, <3>2 DEF Answered
  <2>6. CASE /\ c.kind = "SendObject"
             /\ device' = [device EXCEPT !.mode = "receiving",
                                         !.serial = c.serial]
             /\ UNCHANGED pipeIn
    <3>1. device'.mode = "receiving" /\ device'.serial = calls'
      BY <1>1, <2>1, <2>6 DEF TypeInv, Typed
    <3>2. ~At(t, "send_header") =>
            /\ Len(pipeOut') > 0 /\ pipeOut'[1].kind = "data"
            /\ \A i \in 2 .. Len(pipeOut') : pipeOut'[i].kind = "chunk"
      <4>1. ASSUME ~At(t, "send_header")
            PROVE  /\ 1 < Len(pipeOut) /\ pipeOut[2].kind = "data"
                   /\ \A i \in 3 .. Len(pipeOut) : pipeOut[i].kind = "chunk"
        BY <1>3, <1>7, <2>1, <2>6, <4>1
      <4> QED
        BY <1>5, <4>1
    <3>3. Receiving(t)'
      BY <1>1, <1>2, <2>3, <2>6, <3>1, <3>2 DEF Receiving
    <3> QED
      BY <1>2, <2>1, <2>6, <3>3 DEF Answered
  <2>7. CASE /\ c.kind \in Reads \cup {"GetInfo"}
             /\ pipeIn' = Append(pipeIn, Transfer("ERROR", c.serial, 0))
             /\ UNCHANGED device
    <3>1. pipeIn' = <<Transfer("ERROR", calls', 0)>>
      BY <1>1, <2>1, <2>7
    <3>2. Refused'
      BY <1>1, <2>1, <2>4, <2>7, <3>1 DEF Refused, Reads
    <3> QED
      BY <1>2, <2>1, <2>7, <3>2 DEF Answered, Data
  <2>8. CASE /\ c.kind \in Reads \cup {"GetInfo"}
             /\ \E total \in IF c.kind = "GetInfo" THEN {1} ELSE 0 .. MaxChunks :
                  /\ pipeIn' = Append(pipeIn, Transfer("data", c.serial, total))
                  /\ device' = [mode |-> "sending", serial |-> c.serial,
                                n |-> 1, total |-> total]
    <3>1. PICK total \in IF Op(t) = "GetInfo" THEN {1} ELSE 0 .. MaxChunks :
            /\ pipeIn' = Append(pipeIn, Transfer("data", calls', total))
            /\ device' = [mode |-> "sending", serial |-> calls',
                          n |-> 1, total |-> total]
      BY <1>1, <2>1, <2>8
    <3>2. pipeIn' = <<Transfer("data", calls', total)>>
      BY <1>1, <3>1
    <3>3. total \in Nat
      BY <3>1, Numbers
    <3>4. Answer(pipeOut', pipeIn', device', calls', total, 0)
      <4>1. Len(pipeIn') = 1 - 0 /\ 1 <= Pieces(total) /\ 1 \in Nat
        BY <3>2, <3>3 DEF Pieces
      <4>2. ASSUME NEW i \in 1 .. Len(pipeIn')
            PROVE  pipeIn'[i] = Piece(calls', total, FALSE, 0 + i - 1)
        <5>1. i = 1 /\ 0 + i - 1 = 0
          BY <4>1
        <5> QED
          BY <3>2, <5>1 DEF Piece
      <4>3. /\ device'.mode = "sending" /\ device'.serial = calls'
            /\ device'.n = 1 /\ device'.total = total
        BY <3>1
      <4>4. Chunks(pipeOut')
        BY <2>1, <2>4, <2>8 DEF Reads
      <4>5. /\ 0 < 1 /\ 0 <= 1 /\ FALSE \in BOOLEAN
        OBVIOUS
      <4> QED
        BY <4>1, <4>2, <4>3, <4>4, <4>5 DEF Answer
    <3>5. Coming(total, 0)'
      BY <3>4 DEF Coming
    <3>6. Op(t)' \in Data
      BY <1>2, <2>1, <2>8 DEF Data
    <3> QED
      BY <1>2, <3>1, <3>5, <3>6 DEF Answered
  <2> QED
    BY <2>1, <2>2, <2>5, <2>6, <2>7, <2>8
       DEF DeviceRequest, Respond, Responses, c
<1> QED
  BY <1>6, <1>7

LEMMA ComingDevice ==
  ASSUME TypeInv, NEW total \in Nat, NEW k \in Nat, Coming(total, k), Device
  PROVE  Answer(pipeOut', pipeIn', device', calls', total, k)
<1>1. /\ calls' = calls /\ Chunks(pipeOut) /\ pipeIn \in Seq(Transfers)
      /\ Len(pipeIn) \in Nat
  BY Pipes DEF Device, Coming, Answer
<1>2. PICK p \in Nat, zlp \in BOOLEAN :
        /\ 0 < p /\ k <= p /\ Len(pipeIn) = p - k
        /\ \A i \in 1 .. Len(pipeIn) :
             pipeIn[i] = Piece(calls, total, zlp, k + i - 1)
        /\ \/ /\ device.mode = "sending" /\ device.serial = calls
              /\ device.n = p /\ device.total = total /\ p <= Pieces(total)
           \/ /\ device.mode = "idle"
              /\ p = Pieces(total) + (IF zlp THEN 2 ELSE 1)
  BY DEF Coming, Answer
<1>3. /\ device.serial \in 0 .. MaxCalls
      /\ device \in [mode : {"idle", "sending", "receiving", "taking"},
                     serial : 0 .. MaxCalls, n : Nat, total : 0 .. MaxChunks + 1]
  BY DEF TypeInv, Typed
<1>4. CASE Chunks(pipeOut') /\ UNCHANGED <<pipeIn, device>>
  BY <1>1, <1>2, <1>4 DEF Answer
<1>5. CASE device.mode = "idle"
  BY <1>1, <1>4, <1>5, IdleDevice
<1>6. CASE DeviceReceive /\ device.mode = "sending"
  <2>1. /\ pipeOut # <<>> /\ pipeOut' = Tail(pipeOut)
        /\ UNCHANGED <<pipeIn, device>>
    BY <1>6 DEF DeviceReceive
  <2> QED
    BY <1>1, <1>4, <2>1, HeadOut
<1>7. CASE DeviceSend
  <2>1. /\ device.mode = "sending" /\ device.serial = calls
        /\ device.n = p /\ device.total = total /\ p <= Pieces(total)
        /\ pipeOut' = pipeOut
    BY <1>2, <1>7 DEF DeviceSend
  <2>2. CASE p < total
    <3> DEFINE e == Transfer("chunk", calls, p)
    <3>1. /\ pipeIn' = Append(pipeIn, e)
          /\ device' = [device EXCEPT !.n = p + 1]
      BY <1>7, <2>1, <2>2 DEF DeviceSend
    <3>2. e = Piece(calls, total, zlp, p)
      BY <1>2, <2>2 DEF Piece
    <3> HIDE DEF e
    <3>3. /\ Len(pipeIn') = Len(pipeIn) + 1 /\ pipeIn'[Len(pipeIn) + 1] = e
          /\ \A i \in 1 .. Len(pipeIn) : pipeIn'[i] = pipeIn[i]
      BY <1>1, <3>1
    <3>4. p + 1 \in Nat /\ k <= p + 1 /\ Len(pipeIn') = (p + 1) - k /\ 0 < p + 1
      BY <1>2, <3>3
    <3>5. ASSUME NEW i \in 1 .. Len(pipeIn')
          PROVE  pipeIn'[i] = Piece(calls', total, zlp, k + i - 1)
      <4>1. CASE i \in 1 .. Len(pipeIn)
        BY <1>1, <1>2, <3>3, <4>1
      <4>2. CASE i = Len(pipeIn) + 1
        <5>1. k + i - 1 = p
          BY <1>1, <1>2, <4>2
        <5> QED
          BY <1>1, <3>2, <3>3, <4>2, <5>1
      <4> QED
        BY <1>1, <3>3, <4>1, <4>2
    <3>6. /\ device'.mode = "sending" /\ device'.serial = calls'
          /\ device'.n = p + 1 /\ device'.total = total
      BY <1>1, <1>3, <2>1, <3>1
    <3>7. p + 1 <= Pieces(total)
      BY <1>2, <2>2 DEF Pieces
    <3> QED
      BY <1>1, <2>1, <3>4, <3>5, <3>6, <3>7 DEF Answer
  <2>3. CASE ~(p < total)
    <3>1. p = Pieces(total)
      BY <1>2, <2>1, <2>3 DEF Pieces
    <3>2. PICK last \in {<<>>, <<Transfer("zlp", calls, 0)>>} :
          /\ pipeIn' = pipeIn \o last \o <<Transfer("OK", calls, 0)>>
          /\ device' = [device EXCEPT !.mode = "idle"]
      BY <1>7, <2>1, <2>3 DEF DeviceSend
    <3>3. device'.mode = "idle"
      BY <1>3, <3>2
    <3>4. ASSUME NEW i \in 1 .. Len(pipeIn), NEW z \in BOOLEAN
          PROVE  pipeIn[i] = Piece(calls, total, z, k + i - 1)
      <4>1. k + i - 1 \in Nat /\ k + i - 1 < Pieces(total)
        BY <1>1, <1>2, <3>1
      <4>2. Piece(calls, total, zlp, k + i - 1) = Piece(calls, total, z, k + i - 1)
        BY <4>1 DEF Piece, Pieces
      <4> QED
        BY <1>2, <4>2
    <3>5. CASE last = <<>>
      <4> DEFINE e == Transfer("OK", calls, 0)
      <4>1. pipeIn' = Append(pipeIn, e)
        BY <1>1, <3>2, <3>5
      <4>2. e = Piece(calls, total, FALSE, p)
        BY <1>2, <2>3, <3>1 DEF Piece
      <4> HIDE DEF e
      <4>3. /\ Len(pipeIn') = Len(pipeIn) + 1 /\ pipeIn'[Len(pipeIn) + 1] = e
            /\ \A i \in 1 .. Len(pipeIn) : pipeIn'[i] = pipeIn[i]
        BY <1>1, <4>1
      <4>4. p + 1 \in Nat /\ k <= p + 1 /\ Len(pipeIn') = (p + 1) - k
            /\ 0 < p + 1
        BY <1>2, <4>3
      <4>5. ASSUME NEW i \in 1 .. Len(pipeIn')
            PROVE  pipeIn'[i] = Piece(calls', total, FALSE, k + i - 1)
        <5>0. \/ i \in 1 .. Len(pipeIn) \/ i = Len(pipeIn) + 1
          BY <1>1, <4>3
        <5>1. CASE i \in 1 .. Len(pipeIn)
          BY <1>1, <3>4, <4>3, <5>1
        <5>2. CASE i = Len(pipeIn) + 1
          <6>1. k + i - 1 = p
            BY <1>1, <1>2, <5>2
          <6> QED
            BY <1>1, <4>2, <4>3, <5>2, <6>1
        <5> QED
          BY <5>0, <5>1, <5>2
      <4>6. p + 1 = Pieces(total) + (IF FALSE THEN 2 ELSE 1) /\ FALSE \in BOOLEAN
        BY <3>1
      <4> QED
        BY <1>1, <2>1, <3>3, <4>4, <4>5, <4>6 DEF Answer
    <3>6. CASE last = <<Transfer("zlp", calls, 0)>>
      <4> DEFINE d == Transfer("zlp", calls, 0)
                 e == Transfer("OK", calls, 0)
      <4>1. d = Piece(calls, total, TRUE, p) /\ e = Piece(calls, total, TRUE, p + 1)
        BY <1>2, <2>3, <3>1 DEF Piece
      <4>2. pipeIn' = pipeIn \o <<d>> \o <<e>>
        BY <3>2, <3>6
      <4> HIDE DEF d, e
      <4>3. /\ Len(pipeIn') = Len(pipeIn) + 2
            /\ pipeIn'[Len(pipeIn) + 1] = d /\ pipeIn'[Len(pipeIn) + 2] = e
            /\ \A i \in 1 .. Len(pipeIn) : pipeIn'[i] = pipeIn[i]
        BY <1>1, <4>2
      <4>4. p + 2 \in Nat /\ k <= p + 2 /\ Len(pipeIn') = (p + 2) - k
            /\ 0 < p + 2
        BY <1>2, <4>3
      <4>5. ASSUME NEW i \in 1 .. Len(pipeIn')
            PROVE  pipeIn'[i] = Piece(calls', total, TRUE, k + i - 1)
        <5>0. \/ i \in 1 .. Len(pipeIn) \/ i = Len(pipeIn) + 1
              \/ i = Len(pipeIn) + 2
          BY <1>1, <4>3
        <5>1. CASE i \in 1 .. Len(pipeIn)
          BY <1>1, <3>4, <4>3, <5>1
        <5>2. CASE i = Len(pipeIn) + 1
          <6>1. k + i - 1 = p
            BY <1>1, <1>2, <5>2
          <6> QED
            BY <1>1, <4>1, <4>3, <5>2, <6>1
        <5>3. CASE i = Len(pipeIn) + 2
          <6>1. k + i - 1 = p + 1
            BY <1>1, <1>2, <5>3
          <6> QED
            BY <1>1, <4>1, <4>3, <5>3, <6>1
        <5> QED
          BY <5>0, <5>1, <5>2, <5>3
      <4>6. p + 2 = Pieces(total) + (IF TRUE THEN 2 ELSE 1) /\ TRUE \in BOOLEAN
        BY <3>1
      <4> QED
        BY <1>1, <2>1, <3>3, <4>4, <4>5, <4>6 DEF Answer
    <3> QED
      BY <3>2, <3>5, <3>6
  <2> QED
    BY <2>2, <2>3
<1> QED
  BY <1>2, <1>5, <1>6, <1>7 DEF Device, DeviceRequest, DeviceAnswer

(* The device takes a step while a call is under way, or none is.          *)
LEMMA SyncDevice == ASSUME TypeInv, Agreed, Device PROVE Agreed'
<1>1. UNCHANGED <<mMutex, shared, call, usb, connected, calls, outOfStep>>
  BY DEF Device
<1>2. Silent => Silent'
  BY <1>1, IdleDevice DEF Silent
<1>3. ASSUME NEW t \in Threads PROVE InOrder(t)'
  BY <1>1 DEF Agreed, InOrder, Op
<1>4. ASSUME NEW t \in Threads, mMutex = t PROVE InStep(t)' /\ Buffered(t)'
  <2>1. InStep(t) /\ Buffered(t)
    BY <1>4 DEF Agreed
  <2>2. Buffered(t)'
    BY <1>1, <2>1 DEF Buffered, Op, usb
  <2>3. /\ ~At(t, "idle") /\ Op(t) \in Ops /\ Place(call[t])
        /\ Op(t)' = Op(t) /\ call[t].size' = call[t].size
    <3>1. ~At(t, "idle")
      BY <1>4 DEF TypeInv, Held
    <3> QED
      BY <1>1, <3>1, InCall DEF Op, At
  <2>4. Replied => Replied'
    BY <1>1, IdleDevice DEF Replied
  <2>5. Refused => Refused'
    BY <1>1, IdleDevice DEF Refused
  <2>6. ASSUME NEW total \in Nat, NEW k \in Nat, Coming(total, k)
        PROVE  Answer(pipeOut', pipeIn', device', calls', total, k)
    BY <2>6, ComingDevice
  <2>7. Ahead(t) /\ Op(t) # "SendObjectInfo" => Ahead(t)' \/ Answered(t)'
    BY <2>3, AheadDevice
  <2>8. Receiving(t) => ~At(t, "send_header") /\ Taking'
    BY ReceivingDevice
  <2>9. Taking => Taking' \/ Replied'
    BY TakingDevice
  <2>10. /\ call[t].size \in Nat /\ Pieces(call[t].size) \in Nat
         /\ Pieces(1) = 1 /\ 1 \in Nat /\ 0 \in Nat
    BY <2>3, Counts DEF Pieces
  <2>11. InStep(t)'
    <3>0. /\ Total(t) \in Nat /\ Pieces(Total(t)) \in Nat
          /\ Total(t)' = Total(t)
      BY <2>3, <2>10 DEF Total, Pieces
    <3>1. call[t].pc \in {"request", "unlock"} => Silent'
      BY <1>2, <2>1 DEF InStep
    <3>2. At(t, "data") => Ahead(t)' \/ Refused' \/ Coming(1, 0)'
      <4>1. ASSUME At(t, "data") PROVE Op(t) = "GetInfo"
        BY <2>3, <4>1 DEF Place, At, Op
      <4>2. ASSUME At(t, "data"), Answered(t)' PROVE Refused' \/ Coming(1, 0)'
        BY <2>3, <4>1, <4>2 DEF Answered
      <4>3. Coming(1, 0) => Coming(1, 0)'
        BY <2>6, <2>10 DEF Coming
      <4> QED
        BY <2>1, <2>5, <2>7, <4>1, <4>2, <4>3 DEF InStep
    <3>3. At(t, "read_header") =>
            \/ Ahead(t)' \/ Refused'
            \/ \E total \in 0 .. MaxChunks : Coming(total, 0)'
      <4>1. ASSUME At(t, "read_header") PROVE Op(t) \in Reads
        BY <2>3, <4>1 DEF Place, At, Op
      <4>2. ASSUME At(t, "read_header"), Answered(t)'
            PROVE  Refused' \/ \E total \in 0 .. MaxChunks : Coming(total, 0)'
        BY <2>3, <4>1, <4>2 DEF Answered, Reads
      <4>3. ASSUME NEW total \in 0 .. MaxChunks, Coming(total, 0)
            PROVE  Coming(total, 0)'
        <5>1. total \in Nat
          BY Numbers
        <5> QED
          BY <2>6, <2>10, <4>3, <5>1 DEF Coming
      <4> QED
        BY <2>1, <2>5, <2>7, <4>1, <4>2, <4>3 DEF InStep, Reads
    <3>4. At(t, "send_header") => Ahead(t)' \/ Receiving(t)'
      <4>1. ASSUME At(t, "send_header") PROVE Op(t) = "SendObject"
        BY <2>3, <4>1 DEF Place, At, Op
      <4>2. ASSUME At(t, "send_header"), Answered(t)' PROVE Receiving(t)'
        BY <2>3, <4>1, <4>2 DEF Answered, Data, Reads
      <4> QED
        BY <2>1, <2>7, <2>8, <4>1, <4>2 DEF InStep
    <3>5. At(t, "send_chunk") \/ (At(t, "response") /\ Op(t) \notin Data)
            => /\ Op(t) # "SendObjectInfo"
               /\ Ahead(t)' \/ Receiving(t)' \/ Taking' \/ Replied'
      <4>1. ASSUME At(t, "send_chunk") \/ (At(t, "response") /\ Op(t) \notin Data),
                   Answered(t)'
            PROVE  Receiving(t)' \/ Replied'
        <5>1. At(t, "send_chunk") => Op(t) = "SendObject"
          BY <2>3 DEF Place, At, Op
        <5> QED
          BY <2>3, <4>1, <5>1 DEF Answered, Data, Reads
      <4> QED
        BY <2>1, <2>4, <2>7, <2>8, <2>9, <4>1 DEF InStep
    <3>6. call[t].pc \in {"loop", "write", "wait"} =>
            Coming(call[t].size, Taken(t))'
      <4>1. ASSUME call[t].pc \in {"loop", "write", "wait"}
            PROVE  Coming(call[t].size, Taken(t))'
        <5>1. Coming(call[t].size, Taken(t)) /\ Buffered(t) /\ Op(t) \in Reads
          BY <2>1, <2>3, <4>1 DEF InStep, Place, Op
        <5>2. Taken(t)' = Taken(t)
          BY <1>1 DEF Taken, usb
        <5>3. Taken(t) \in Nat
          <6>1. PICK held \in {0, 1} :
                  Len(call[t].got) + held + call[t].remaining = call[t].size
            BY <4>1, <5>1 DEF Buffered
          <6>2. /\ Len(call[t].got) \in Nat /\ call[t].remaining \in Nat
                /\ Pieces(call[t].size) >= call[t].size
            BY <2>3, Counts
          <6>3. Pieces(call[t].size) - call[t].remaining \in Nat
            BY <2>10, <6>1, <6>2
          <6> QED
            BY <6>3 DEF Taken
        <5>4. Answer(pipeOut', pipeIn', device', calls', call[t].size, Taken(t))
          BY <2>6, <2>10, <5>1, <5>3
        <5> QED
          BY <1>1, <5>2, <5>4 DEF Coming
      <4> QED
        BY <4>1
    <3>7. At(t, "response") /\ Op(t) \in Data =>
            Coming(Total(t), Pieces(Total(t)))'
      <4>1. ASSUME At(t, "response"), Op(t) \in Data
            PROVE  Coming(Total(t), Pieces(Total(t)))'
        <5>1. Coming(Total(t), Pieces(Total(t)))
          BY <2>1, <4>1 DEF InStep
        <5>2. Answer(pipeOut', pipeIn', device', calls', Total(t),
                     Pieces(Total(t)))
          BY <2>6, <3>0, <5>1
        <5> QED
          BY <3>0, <5>2 DEF Coming
      <4> QED
        BY <4>1
    <3>8. At(t, "response_again") =>
            Op(t) \in Data /\ Coming(Total(t), Pieces(Total(t)) + 1)'
      <4>1. ASSUME At(t, "response_again")
            PROVE  Op(t) \in Data /\ Coming(Total(t), Pieces(Total(t)) + 1)'
        <5>1. Op(t) \in Data /\ Coming(Total(t), Pieces(Total(t)) + 1)
          BY <2>1, <4>1 DEF InStep
        <5>2. Pieces(Total(t)) + 1 \in Nat
          BY <3>0
        <5>3. Answer(pipeOut', pipeIn', device', calls', Total(t),
                     Pieces(Total(t)) + 1)
          BY <2>6, <3>0, <5>1, <5>2
        <5> QED
          BY <3>0, <5>1, <5>3 DEF Coming
      <4> QED
        BY <4>1
    <3> QED
      BY <1>1, <3>1, <3>2, <3>3, <3>4, <3>5, <3>6, <3>7, <3>8
         DEF InStep, At, Op
  <2> QED
    BY <2>2, <2>11
<1> QED
  BY <1>1, <1>2, <1>3, <1>4 DEF Agreed

-----------------------------------------------------------------------------
(* The invariants.                                                         *)

(* Types, agreement of host and device, and whose answer a call took.      *)
DeviceIInv == TypeInv /\ Synchronous /\ OwnResponse

(* A host's step keeps host and device in step, and takes the call's own    *)
(* answer if it takes one.                                                 *)
LEMMA SyncHost ==
  ASSUME TypeInv, Synchronous, NEW t \in Threads, Lock(t) \/ HostStep(t),
         ~outOfStep'
  PROVE  /\ ~outOfStep /\ connected' = connected
         /\ connected => Agreed'
<1>1. outOfStep' = outOfStep \/ outOfStep'
  <2>1. ASSUME SendData(t) PROVE outOfStep'
    BY <2>1 DEF SendData
  <2>2. ASSUME ReadDataHeader(t)
        PROVE  outOfStep' = outOfStep \/ outOfStep' = TRUE
    <3>1. outOfStep \in BOOLEAN
      BY DEF TypeInv, Typed
    <3>2. \/ outOfStep' = outOfStep \/ outOfStep' = TRUE
          \/ outOfStep' = (outOfStep \/ mData'.kind # "data")
      BY <2>2 DEF ReadDataHeader, InitialData, Abandon
    <3> QED
      BY <3>1, <3>2
  <2>3. ASSUME QueueRead(t) \/ WriteBuffer(t) \/ ReadDataWait(t)
        PROVE  outOfStep' = outOfStep \/ outOfStep'
    BY <2>3 DEF QueueRead, WriteBuffer, ReadDataWait, Abandon
  <2> QED
    BY <2>1, <2>2, <2>3
       DEF HostStep, Lock, Unlock, SendRequest, ReadData, ReadResponse,
           SendHeader, SendChunk, Drain
<1>2. ~outOfStep
  BY <1>1
<1>3. connected' = connected
  BY DEF HostStep, Lock, Unlock, SendRequest, ReadData, ReadResponse, SendData,
         SendHeader, SendChunk, ReadDataHeader, QueueRead, WriteBuffer, Drain,
         ReadDataWait, external
<1>4. ASSUME connected PROVE Agreed'
  <2>1. Agreed
    BY <1>2, <1>4 DEF Synchronous
  <2>2. ~SendData(t) /\ ~Drain(t)
    <3>1. ~SendData(t)
      BY DEF SendData
    <3>2. ~Drain(t)
      BY <1>2 DEF Drain, TypeInv, Held
    <3> QED
      BY <3>1, <3>2
  <2> QED
    BY <1>4, <2>1, <2>2, SyncLock, SyncUnlock, SyncSendRequest, SyncReadData,
       SyncReadResponse, SyncSendHeader, SyncSendChunk, SyncReadDataHeader,
       SyncQueueRead, SyncWriteBuffer, SyncReadDataWait DEF HostStep
<1> QED
  BY <1>2, <1>3, <1>4

LEMMA SyncNext == TypeInv /\ Synchronous /\ [Next]_deviceVars => Synchronous'
<1> SUFFICES ASSUME TypeInv, Synchronous, [Next]_deviceVars,
                    ~outOfStep', connected'
             PROVE  Agreed'
  BY DEF Synchronous
<1>1. ASSUME NEW t \in Threads, Lock(t) \/ HostStep(t) PROVE Agreed'
  BY <1>1, SyncHost
<1>2. CASE CompleteRead
  <2>1. ~outOfStep /\ connected
    BY <1>2 DEF CompleteRead, external
  <2> QED
    BY <1>2, <2>1, SyncCompleteRead DEF Synchronous
<1>3. CASE Device
  <2>1. ~outOfStep /\ connected
    BY <1>3 DEF Device
  <2> QED
    BY <1>3, <2>1, SyncDevice DEF Synchronous
<1>4. ~Unplug
  BY DEF Unplug
<1>5. CASE UNCHANGED deviceVars
  <2>1. Agreed
    BY <1>5 DEF Synchronous, deviceVars, external
  <2>2. UNCHANGED <<mMutex, call, urb, buffer, pipeOut, pipeIn, device, calls>>
    BY <1>5 DEF deviceVars, usb, pipes, external
  <2>3. ASSUME NEW t \in Threads PROVE InOrder(t)'
    BY <2>1, <2>2 DEF Agreed, InOrder, Op
  <2>4. ASSUME NEW t \in Threads, mMutex = t PROVE InStep(t)' /\ Buffered(t)'
    <3>1. InStep(t) /\ Buffered(t)
      BY <2>1, <2>4 DEF Agreed
    <3>2. Buffered(t)'
      BY <2>2, <3>1 DEF Buffered, Op
    <3>3. InStep(t)'
      BY <2>2, <3>1 DEF InStep, Silent, Ahead, Receiving, Taking, Replied,
                        Refused, Coming, Total, Taken, At, Op
    <3> QED
      BY <3>2, <3>3
  <2> QED
    BY <2>1, <2>2, <2>3, <2>4 DEF Agreed, Silent, Chunks
<1> QED
  BY <1>1, <1>2, <1>3, <1>4, <1>5 DEF Next

LEMMA OwnNext ==
  TypeInv /\ Synchronous /\ OwnResponse /\ [Next]_deviceVars => OwnResponse'
<1> SUFFICES ASSUME TypeInv, Synchronous, OwnResponse, [Next]_deviceVars,
                    ~outOfStep', NEW t \in Threads, call'[t].answer # Nothing
             PROVE  call'[t].answer.serial = call'[t].serial
  BY DEF OwnResponse
<1>1. ASSUME ~outOfStep, call'[t].answer = call[t].answer,
             call'[t].serial = call[t].serial
      PROVE  call'[t].answer.serial = call'[t].serial
  BY <1>1 DEF OwnResponse
<1>2. CASE UNCHANGED <<call, outOfStep>>
  BY <1>1, <1>2
<1>3. ASSUME NEW u \in Threads, Lock(u) \/ HostStep(u)
      PROVE  call'[t].answer.serial = call'[t].serial
  <2>1. ~outOfStep /\ (connected => Agreed)
    BY <1>3, SyncHost DEF Synchronous
  <2>2. CASE ReadData(u) /\ connected
    BY <1>1, <2>1, <2>2, SyncReadData
  <2>3. CASE ReadResponse(u) /\ connected
    BY <1>1, <2>1, <2>3, SyncReadResponse
  <2>4. CASE Lock(u)
    <3>1. PICK c : c.answer = Nothing /\ call' = [call EXCEPT ![u] = c]
      BY <2>4 DEF Lock, NewCall, NoCall
    <3>2. t # u /\ call'[t] = call[t]
      BY <3>1 DEF TypeInv, Typed
    <3> QED
      BY <1>1, <2>1, <3>2
  <2>5. CASE HostStep(u) /\ ~((ReadData(u) \/ ReadResponse(u)) /\ connected)
    <3>1. call \in [Threads -> Calls] /\ call[t] \in Calls /\ call[u] \in Calls
      BY DEF TypeInv, Typed
    <3> DEFINE Kept == /\ call'[t].answer = call[t].answer
                       /\ call'[t].serial = call[t].serial
    <3>2. ASSUME NEW pc, Goto(u, pc) PROVE Kept
      BY <3>1, <3>2 DEF Goto, Calls
    <3>3. ASSUME Return(u, FALSE) PROVE Kept
      BY <3>1, <3>3 DEF Return, Calls
    <3>4. ASSUME Unlock(u) \/ SendRequest(u) \/ SendData(u) \/ SendHeader(u)
                 \/ QueueRead(u) \/ Drain(u)
          PROVE  Kept
      BY <3>2, <3>3, <3>4
         DEF Unlock, SendRequest, SendData, SendHeader, QueueRead, Drain, Abandon
    <3>11. ASSUME NEW c, c.answer = call[u].answer, c.serial = call[u].serial,
                  call' = [call EXCEPT ![u] = c]
           PROVE  Kept
      BY <3>1, <3>11
    <3>12. \A x, y, z, w :
             /\ [call[u] EXCEPT !.remaining = x].answer = call[u].answer
             /\ [call[u] EXCEPT !.remaining = x].serial = call[u].serial
             /\ [call[u] EXCEPT !.pc = x, !.remaining = y].answer
                  = call[u].answer
             /\ [call[u] EXCEPT !.pc = x, !.remaining = y].serial
                  = call[u].serial
             /\ [call[u] EXCEPT !.pc = x, !.remaining = y, !.size = z,
                                !.got = w].answer = call[u].answer
             /\ [call[u] EXCEPT !.pc = x, !.remaining = y, !.size = z,
                                !.got = w].serial = call[u].serial
             /\ [call[u] EXCEPT !.pc = x, !.writeBuffer = y, !.got = z].answer
                  = call[u].answer
             /\ [call[u] EXCEPT !.pc = x, !.writeBuffer = y, !.got = z].serial
                  = call[u].serial
             /\ [call[u] EXCEPT !.pc = x, !.writeBuffer = y, !.req = z,
                                !.remaining = w].answer = call[u].answer
             /\ [call[u] EXCEPT !.pc = x, !.writeBuffer = y, !.req = z,
                                !.remaining = w].serial = call[u].serial
      BY <3>1 DEF Calls
    <3>5. ASSUME SendChunk(u) PROVE Kept
      <4>1. CASE call' = [call EXCEPT ![u].remaining = @ - 1]
        <5>1. call' = [call EXCEPT ![u] =
                         [call[u] EXCEPT !.remaining = call[u].remaining - 1]]
          BY <4>1
        <5> QED
          BY <3>11, <3>12, <5>1
      <4> QED
        BY <3>2, <3>5, <4>1 DEF SendChunk
    <3>6. ASSUME ReadDataHeader(u) PROVE Kept
      <4>1. CASE call' = [call EXCEPT ![u].pc = "loop", ![u].remaining = 0]
        <5>1. call' = [call EXCEPT ![u] =
                         [call[u] EXCEPT !.pc = "loop", !.remaining = 0]]
          BY <4>1
        <5> QED
          BY <3>11, <3>12, <5>1
      <4>2. CASE call' = [call EXCEPT ![u].pc = "loop",
                      ![u].remaining = mData'.n - 1, ![u].size = mData'.n,
                      ![u].got = <<<<mData'.serial, 0>>>>]
        <5>1. call' = [call EXCEPT ![u] = [call[u] EXCEPT !.pc = "loop",
                         !.remaining = mData'.n - 1, !.size = mData'.n,
                         !.got = <<<<mData'.serial, 0>>>>]]
          BY <4>2
        <5> QED
          BY <3>11, <3>12, <5>1
      <4> QED
        BY <3>3, <3>6, <4>1, <4>2 DEF ReadDataHeader, InitialData, Abandon
    <3>7. ASSUME WriteBuffer(u) PROVE Kept
      <4> DEFINE b == call[u].writeBuffer
                 got == Append(call[u].got, <<buffer[b].serial, buffer[b].n>>)
      <4>1. CASE call' = [call EXCEPT ![u].pc = "wait", ![u].writeBuffer = 0,
               ![u].got = Append(@, <<buffer[b].serial, buffer[b].n>>)]
        <5>1. call' = [call EXCEPT ![u] =
                [call[u] EXCEPT !.pc = "wait", !.writeBuffer = 0, !.got = got]]
          BY <4>1
        <5> HIDE DEF got
        <5> QED
          BY <3>11, <3>12, <5>1
      <4> QED
        BY <3>2, <3>3, <3>7, <4>1 DEF WriteBuffer
    <3>8. ASSUME ReadDataWait(u) PROVE Kept
      <4>1. CASE call' = [call EXCEPT ![u].pc = "loop",
              ![u].writeBuffer = call[u].req, ![u].req = 3 - @,
              ![u].remaining = @ - 1]
        <5>1. call' = [call EXCEPT ![u] = [call[u] EXCEPT !.pc = "loop",
                         !.writeBuffer = call[u].req, !.req = 3 - call[u].req,
                         !.remaining = call[u].remaining - 1]]
          BY <4>1
        <5> QED
          BY <3>11, <3>12, <5>1
      <4> QED
        BY <3>2, <3>3, <3>8, <4>1 DEF ReadDataWait, Abandon
    <3>9. ASSUME ReadData(u) \/ ReadResponse(u), ~connected PROVE Kept
      BY <3>3, <3>9 DEF ReadData, ReadResponse
    <3>10. Kept
      BY <2>5, <3>4, <3>5, <3>6, <3>7, <3>8, <3>9 DEF HostStep
    <3> QED
      BY <1>1, <2>1, <3>10
  <2> QED
    BY <1>3, <2>2, <2>3, <2>4, <2>5
<1> QED
  BY <1>2, <1>3
     DEF Next, CompleteRead, Device, Unplug, deviceVars

LEMMA DeviceInit == Init => DeviceIInv
<1> SUFFICES ASSUME Init PROVE DeviceIInv
  OBVIOUS
<1>1. Silent
  BY DEF Init, Silent, Chunks
<1>2. ASSUME NEW t \in Threads
      PROVE  InOrder(t) /\ mMutex # t /\ call[t].answer = Nothing
  BY Numbers DEF Init, NoCall, InOrder, Op, Reads
<1> QED
  BY <1>1, <1>2, TypeInit DEF DeviceIInv, Synchronous, Agreed, OwnResponse

(* The inductive invariant of the host's side, whatever threads, calls,    *)
(* chunks and faults there are.                                            *)
THEOREM DeviceIInvHolds == DeviceSpec => []DeviceIInv
<1>1. DeviceIInv /\ [Next]_deviceVars => DeviceIInv'
  BY TypeNext, SyncNext, OwnNext DEF DeviceIInv
<1> QED
  BY <1>1, DeviceInit, PTL DEF DeviceSpec

(* However the threads' calls follow each other and whatever the device     *)
(* answers, the host's state keeps its types, and no call takes the answer  *)
(* to another's request while host and device are in step (the mutex held   *)
(* over request, data and response in src/MtpDevice.cpp).                   *)
THEOREM DeviceInvHolds == DeviceSpec => []DeviceInv
<1>1. DeviceIInv => DeviceInv
  <2> SUFFICES ASSUME DeviceIInv PROVE DeviceInv
    OBVIOUS
  <2>1. mTransactionID \in 0 .. MaxCalls
    <3>1. mTransactionID \in 0 .. calls /\ calls \in 0 .. MaxCalls
      BY DEF DeviceIInv, TypeInv, Typed
    <3> QED
      BY <3>1, Numbers
  <2>2. \A t \in Threads : call[t].remaining \in 0 .. MaxChunks
    BY Fields DEF DeviceIInv, TypeInv, Typed
  <2>3. DeviceTypeOK
    BY <2>1, <2>2 DEF DeviceIInv, TypeInv, Typed, DeviceTypeOK
  <2> QED
    BY <2>3 DEF DeviceIInv, DeviceInv
<1> QED
  BY <1>1, DeviceIInvHolds, PTL

(* Between calls both pipes' answers are read, no read is queued and the    *)
(* device is idle: an answer never waits for the next call to take it.      *)
THEOREM PipesCleanHolds == DeviceSpec => []PipesClean
<1>1. DeviceIInv => PipesClean
  <2> SUFFICES ASSUME DeviceIInv, mMutex = NoThread, connected, ~outOfStep
               PROVE  pipeIn = <<>> /\ urb = NoUrb /\ device.mode = "idle"
    BY DEF PipesClean
  <2>1. Silent
    BY DEF DeviceIInv, Synchronous, Agreed
  <2>2. urb = NoUrb
    BY Numbers DEF DeviceIInv, TypeInv, Queued
  <2> QED
    BY <2>1, <2>2 DEF Silent
<1> QED
  BY <1>1, DeviceIInvHolds, PTL

(* What readObject hands over are the object's chunks in order, none lost,  *)
(* repeated or overwritten in the two buffers, and all of them when it says *)
(* so.                                                                      *)
THEOREM ReadInOrderHolds == DeviceSpec => []ReadInOrder
<1>1. DeviceIInv => ReadInOrder
  <2> SUFFICES ASSUME DeviceIInv, ~outOfStep, connected,
                      NEW t \in Threads, Op(t) \in Reads
               PROVE  /\ call[t].got = [i \in DOMAIN call[t].got
                                          |-> <<call[t].serial, i - 1>>]
                      /\ call[t].result => Len(call[t].got) = call[t].size
    BY DEF ReadInOrder
  <2>1. InOrder(t)
    BY DEF DeviceIInv, Synchronous, Agreed
  <2>2. call[t].got \in Seq(Nat \X Nat)
    BY Fields DEF DeviceIInv, TypeInv, Typed
  <2>3. DOMAIN call[t].got = 1 .. Len(call[t].got)
    BY <2>2
  <2> QED
    BY <2>1, <2>3 DEF InOrder
<1> QED
  BY <1>1, DeviceIInvHolds, PTL
=============================================================================
