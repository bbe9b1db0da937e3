---------------------------- MODULE MtpTransfers ----------------------------
(***************************************************************************)
(* The bytes of one object and the numbers that count them, through the    *)
(* transfers of MtpServer: sending it, reading it whole and in part, and   *)
(* editing it in place.  A size is a 64-bit number here, a 32-bit field    *)
(* there and an int elsewhere; the medium has limited space; and the       *)
(* database, the open edit and the file each keep a size of their own.     *)
(* Widths are scaled: W32 stands for 2^32, and W32 * W32 for 2^64.         *)
(***************************************************************************)
EXTENDS Integers, Sequences, FiniteSets

CONSTANTS
  W32,          \* one more than the largest 32-bit number
  Buffer,       \* what a packet of mData holds beside its header
  MaxLength,    \* bound: the longest file
  Capacity,     \* the size of the medium
  ReserveSpace, \* the storage's mReserveSpace
  MaxFileSizes, \* the limits a storage may be given, 0 for none
  SplitHeader,  \* does the host send headers in a transfer of their own?
  Others,       \* do others use space while an object is received?
  StatfsFails,  \* may statfs fail?
  MaxWrites     \* bound: the number of objects and parts the host sends

W64 == W32 * W32

ASSUME TransfersAssumption ==
  /\ {W32, Buffer, MaxLength, Capacity, ReserveSpace, MaxWrites} \subseteq Nat
  /\ MaxFileSizes \subseteq Nat
  /\ W32 > 1 /\ Buffer < W32 - 1 /\ MaxLength + W32 <= W64 /\ Capacity < W64 - 1
  /\ {SplitHeader, Others, StatfsFails} \subseteq BOOLEAN

VARIABLES
  file,         \* the bytes of the object's file, <<>> without one
  exists,       \* is there a file?
  free,         \* the free bytes of the medium
  modified,     \* is there an IN_MODIFY for the file the database has not read?
  entry,        \* the database's entry: its object_size
  mSend,        \* the reservation: mSendObjectFileSize
  edit,         \* the ObjectEdit: its mSize and the position of its descriptor
  mMaxCapacity, \* the storage's capacity, 0 until it is known
  mMaxFileSize, \* the storage's limit, 0 for none
  call,         \* the handler between two steps
  answer,       \* the last answer to the host
  length,       \* the number of bytes of the object the host will send
  meant,        \* the bytes the host means the object to have
  known,        \* does the host know?  Not after a transfer that failed
  writes        \* the number of transfers from the host so far

object == <<file, exists, free>>
storageVars == <<mMaxCapacity, mMaxFileSize>>
hostVars == <<length, meant, known, writes>>
vars == <<object, modified, entry, mSend, edit, storageVars, call, answer,
          hostVars>>

NoEntry == [there |-> FALSE, size |-> 0]
Entry(n) == [there |-> TRUE, size |-> n]
NoEdit == [open |-> FALSE, size |-> 0, pos |-> 0]
NoCall == [op |-> "none", data |-> <<>>, offset |-> 0, initial |-> 0, ret |-> 0]
\* A response: its code, a number it carries, the bytes sent before it, and
\* the range they were asked for with.
Response(op, code, number, data, offset, asked) ==
  [op |-> op, code |-> code, number |-> number, data |-> data,
   offset |-> offset, length |-> asked]
NoAnswer == Response("none", "OK", 0, <<>>, 0, 0)

\* The host has taken the last answer, and the server waits for a request.
Idle == call = NoCall /\ answer = NoAnswer

-----------------------------------------------------------------------------
(* Bytes.  A byte is the transfer that brought it and its place there.     *)

Hole == <<0, 0>>
Data(k, n) == [i \in 1 .. n |-> <<k, i>>]
Used(f) == Cardinality({i \in 1 .. Len(f) : f[i] # Hole})
Larger(a, b) == IF a >= b THEN a ELSE b
Smaller(a, b) == IF a <= b THEN a ELSE b
First(data, n) == [i \in 1 .. Smaller(n, Len(data)) |-> data[i]]
Rest(data, n) == [i \in 1 .. Len(data) - Smaller(n, Len(data)) |-> data[i + n]]

Overwrite(f, at, data) ==
  [i \in 1 .. IF data = <<>> THEN Len(f) ELSE Larger(Len(f), at + Len(data)) |->
     IF at < i /\ i <= at + Len(data) THEN data[i - at]
     ELSE IF i <= Len(f) THEN f[i] ELSE Hole]

Resized(f, n) == [i \in 1 .. n |-> IF i <= Len(f) THEN f[i] ELSE Hole]

\* The bytes a read of n at an offset finds.
Found(f, at, n) ==
  [i \in 1 .. (IF at >= Len(f) THEN 0 ELSE Smaller(n, Len(f) - at)) |-> f[at + i]]

\* Is there room for the data?  If not, write takes what there is room for.
Fits(f, at, data) ==
  /\ at + Len(data) <= MaxLength
  /\ Used(Overwrite(f, at, data)) <= Used(f) + free
Written(f, at, data) ==
  {n \in 0 .. Len(data) : /\ Fits(f, at, First(data, n))
                          /\ n < Len(data) => ~Fits(f, at, First(data, n + 1))}

\* The file becomes f: its blocks are taken or given back, and whoever
\* watches it is told.
Becomes(f) ==
  /\ file' = f /\ exists' = TRUE
  /\ free' = free + Used(file) - Used(f)
  /\ modified' = (modified \/ f # file)

-----------------------------------------------------------------------------
(* The storage.                                                            *)

\* 2 * 2^30 as an int: on a machine where int has 32 bits the product
\* overflows, and what the compiler makes of it is widened to 64 bits.
IntMultiply(a, b) ==
  LET product == (a * b) % W32 IN
  IF product < W32 \div 2 THEN product ELSE (product - W32) % W64

\* The limit the daemon gives its storages.
DaemonMaxFileSize == IntMultiply(W32 \div 4, 2)

\* Mutation of FreeSpace: the reserve is taken off what is less.
FreeSpaceUnderflow == {(free - ReserveSpace) % W64}

\* Mutation of FreeSpace: the reserve is not taken off.
FreeSpaceAll == {free}

\* The results of getFreeSpace: -1 is returned as an unsigned number.
FreeSpace ==
  {IF free > ReserveSpace THEN free - ReserveSpace ELSE 0}
    \cup (IF StatfsFails THEN {W64 - 1} ELSE {})

getMaxCapacity ==
  {IF mMaxCapacity = 0 THEN Capacity ELSE mMaxCapacity}
    \cup (IF StatfsFails /\ mMaxCapacity = 0 THEN {W64 - 1} ELSE {})

-----------------------------------------------------------------------------
(* Requests without data from the host.                                    *)

\* Every operation but SendObject makes the server forget a reservation.
Forget == mSend' = NoEntry

\* An answer of OK that says nothing more is not kept.
Answer(code) == answer' = Response("none", code, 0, <<>>, 0, 0)
AnswerNumber(op, n) == answer' = Response(op, "OK", n, <<>>, 0, 0)

doGetStorageInfo ==
  /\ Idle /\ Forget
  /\ \E c \in getMaxCapacity, f \in FreeSpace :
       /\ mMaxCapacity' = IF c = W64 - 1 THEN mMaxCapacity ELSE c
       /\ answer' = Response("GetStorageInfo", "OK", f, <<>>, 0, c)
  /\ UNCHANGED <<object, modified, entry, edit, mMaxFileSize, call, hostVars>>

\* The 32-bit size of the dataset: the edit's, or the database's.
CompressedSize ==
  IF edit.open THEN Smaller(edit.size, W32 - 1) ELSE entry.size % W32

doGetObjectInfo ==
  /\ Idle /\ Forget /\ entry.there
  /\ AnswerNumber("GetObjectInfo", CompressedSize)
  /\ UNCHANGED <<object, modified, entry, edit, storageVars, call, hostVars>>

doGetObjectPropValue ==
  /\ Idle /\ Forget /\ entry.there
  /\ AnswerNumber("GetObjectPropValue", entry.size % W32)
  /\ UNCHANGED <<object, modified, entry, edit, storageVars, call, hostVars>>

\* The driver sends what it finds of the range.
AnswerRange(op, offset, asked, n) ==
  \/ /\ exists
     /\ answer' = Response(op, "OK", n, Found(file, offset, n), offset, asked)
  \/ /\ ~exists
     /\ Answer("GENERAL_ERROR")

doGetObject ==
  /\ Idle /\ Forget /\ entry.there
  /\ AnswerRange("GetObject", 0, entry.size, entry.size)
  /\ UNCHANGED <<object, modified, entry, edit, storageVars, call, hostVars>>

\* Mutation of PartialLength: what is asked for beyond the end stays.
PartialLengthUnchecked(offset, n, fileLength) == n

\* What is left of a request for n bytes at an offset, as the code computes it.
PartialLength(offset, n, fileLength) ==
  IF (offset + n) % W64 > fileLength THEN (fileLength - offset) % W32 ELSE n

doGetPartialObject(offset, n) ==
  /\ Idle /\ Forget /\ entry.there
  /\ AnswerRange("GetPartialObject", offset, n,
                 PartialLength(offset, n, entry.size))
  /\ UNCHANGED <<object, modified, entry, edit, storageVars, call, hostVars>>

-----------------------------------------------------------------------------
(* Sending an object: SendObjectInfo, then SendObject.                     *)

\* The host announces what 32 bits can say: 0xFFFFFFFF is all that or more.
Announced(n) == Smaller(n, W32 - 1)

InfoResult(size, space) ==
  IF size > space THEN "STORAGE_FULL"
  ELSE IF mMaxFileSize # 0 /\ (size > mMaxFileSize \/ size = W32 - 1)
       THEN "OBJECT_TOO_LARGE" ELSE "OK"

doSendObjectInfo(n) ==
  /\ Idle /\ ~entry.there /\ writes < MaxWrites
  /\ \E space \in FreeSpace :
       LET result == InfoResult(Announced(n), space) IN
       /\ Answer(result)
       /\ IF result = "OK"
          THEN /\ mSend' = Entry(Announced(n)) /\ entry' = mSend'
               /\ length' = n
          ELSE Forget /\ UNCHANGED <<entry, length>>
  /\ UNCHANGED <<object, modified, edit, storageVars, call, meant, known, writes>>

\* What arrives with the header: nothing, when it comes in a transfer of its
\* own, or any part of the data that fits the packet.
Initial(n) == 0 .. Smaller(Buffer, n)

\* What write returns for the initial bytes of which n were written; without
\* any, the result is that of the read.
WriteResult(initial, n) == IF initial > 0 /\ n = 0 THEN -1 ELSE 1

\* Without a reservation, or when the header cannot be read or the file not
\* be opened, the reserved entry goes.
doSendObjectRefused ==
  /\ Idle
  /\ Answer(IF mSend.there THEN "GENERAL_ERROR" ELSE "NO_VALID_OBJECT_INFO")
  /\ entry' = IF mSend.there THEN NoEntry ELSE entry
  /\ mSend' = NoEntry
  /\ UNCHANGED <<object, modified, edit, storageVars, call, hostVars>>

\* The file is made and the initial bytes are written to it.
doSendObject ==
  LET data == Data(writes + 1, length) IN
  /\ Idle /\ mSend.there
  /\ writes' = writes + 1
  /\ \E initial \in Initial(length) :
       \E n \in Written(<<>>, 0, First(data, initial)) :
       /\ Becomes(First(data, n))
       /\ call' = [op |-> "SendObject", data |-> data, offset |-> 0,
                   initial |-> initial, ret |-> WriteResult(initial, n)]
  /\ UNCHANGED <<entry, mSend, edit, storageVars, answer, length, meant, known>>

Remaining == (mSend.size - call.initial) % W64
\* The bytes the driver is asked for: to the end, if the length is not known.
Asked ==
  LET rest == Rest(call.data, call.initial) IN
  IF mSend.size = W32 - 1 THEN rest ELSE First(rest, Remaining)

ErrorCodes == {"TRANSACTION_CANCELLED", "GENERAL_ERROR"}

\* Mutation of EndSend: the entry keeps the announced size.
EndSendAnnounced(code) ==
  /\ Answer(code)
  /\ entry' = mSend
  /\ mSend' = NoEntry /\ call' = NoCall /\ length' = 0
  /\ UNCHANGED <<edit, storageVars, writes>>

\* endSendObject: the entry gets the size of the file.
EndSend(code) ==
  /\ Answer(code)
  /\ entry' = Entry(Len(file'))
  /\ mSend' = NoEntry /\ call' = NoCall /\ length' = 0
  /\ UNCHANGED <<edit, storageVars, writes>>

\* The rest is received and what the object is, the host knows.
receiveObject ==
  /\ call.op = "SendObject"
  /\ \/ /\ Remaining # 0
        /\ Fits(file, call.initial, Asked)
        /\ Becomes(Overwrite(file, call.initial, Asked))
     \/ /\ Remaining = 0 /\ call.ret >= 0
        /\ UNCHANGED <<object, modified>>
  /\ meant' = call.data /\ known' = TRUE
  /\ EndSend("OK")

\* Mutation of receiveObjectFails: the file is not unlinked.
receiveObjectFailsKeeps ==
  /\ call.op = "SendObject"
  /\ Remaining # 0 \/ call.ret < 0
  /\ \E code \in ErrorCodes : Answer(code)
  /\ entry' = NoEntry /\ mSend' = NoEntry /\ call' = NoCall
  /\ meant' = <<>> /\ known' = TRUE /\ length' = 0
  /\ UNCHANGED <<object, modified, edit, storageVars, writes>>

\* The transfer is cancelled or fails, or the medium is full.
receiveObjectFails ==
  /\ call.op = "SendObject"
  /\ Remaining # 0 \/ call.ret < 0
  /\ file' = <<>> /\ exists' = FALSE /\ free' = free + Used(file)
  /\ \E code \in ErrorCodes : Answer(code)
  /\ entry' = NoEntry /\ mSend' = NoEntry /\ call' = NoCall
  /\ meant' = <<>> /\ known' = TRUE /\ length' = 0
  /\ UNCHANGED <<modified, edit, storageVars, writes>>

-----------------------------------------------------------------------------
(* Editing the object in place.                                            *)

doBeginEditObject ==
  /\ Idle /\ Forget /\ entry.there
  /\ IF ~edit.open /\ exists
     THEN /\ Answer("OK")
          /\ edit' = [open |-> TRUE, size |-> entry.size, pos |-> 0]
     ELSE Answer("GENERAL_ERROR") /\ UNCHANGED edit
  /\ UNCHANGED <<object, modified, entry, storageVars, call, hostVars>>

\* Not open for edit, past the end, or the header cannot be read.
doSendPartialObjectRefused ==
  /\ Idle /\ Forget
  /\ Answer("GENERAL_ERROR")
  /\ UNCHANGED <<object, modified, entry, edit, storageVars, call, hostVars>>

\* The initial bytes are written where the descriptor stands.
doSendPartialObject(offset, n) ==
  LET data == Data(writes + 1, n) IN
  /\ Idle /\ Forget /\ writes < MaxWrites /\ offset + n <= MaxLength
  /\ edit.open /\ offset <= edit.size
  /\ writes' = writes + 1
  /\ \E initial \in (IF SplitHeader THEN {0} ELSE Initial(n)) :
       \E w \in Written(file, edit.pos, First(data, initial)) :
       /\ Becomes(Overwrite(file, edit.pos, First(data, w)))
       /\ edit' = [edit EXCEPT !.pos = @ + w]
       /\ call' = [op |-> "SendPartialObject", data |-> data, offset |-> offset,
                   initial |-> initial, ret |-> WriteResult(initial, w)]
  /\ UNCHANGED <<entry, storageVars, answer, length, meant, known>>

PartRest == Rest(call.data, call.initial)

\* The rest is received at its offset, and the edit grows.
receivePart ==
  LET end == call.offset + Len(call.data) IN
  /\ call.op = "SendPartialObject"
  /\ \/ /\ PartRest # <<>>
        /\ Fits(file, call.offset + call.initial, PartRest)
        /\ Becomes(Overwrite(file, call.offset + call.initial, PartRest))
     \/ /\ PartRest = <<>> /\ call.ret >= 0
        /\ UNCHANGED <<object, modified>>
  /\ edit' = [edit EXCEPT !.size = Larger(@, end)]
  /\ AnswerNumber("SendPartialObject", Len(PartRest))
  /\ call' = NoCall
  /\ meant' = Overwrite(meant, call.offset, call.data)
  /\ UNCHANGED <<entry, mSend, storageVars, length, known, writes>>

\* A part of it has arrived when it is cancelled or fails.
receivePartFails ==
  /\ call.op = "SendPartialObject"
  /\ \/ /\ PartRest # <<>>
        /\ \E n \in 0 .. Len(PartRest) :
             /\ Fits(file, call.offset + call.initial, First(PartRest, n))
             /\ Becomes(Overwrite(file, call.offset + call.initial,
                                  First(PartRest, n)))
     \/ /\ PartRest = <<>> /\ call.ret < 0
        /\ UNCHANGED <<object, modified>>
  /\ \E code \in ErrorCodes : Answer(code)
  /\ call' = NoCall /\ known' = FALSE
  /\ UNCHANGED <<entry, mSend, edit, storageVars, length, meant, writes>>

\* Mutation of doTruncateObject: the edit keeps its size.
doTruncateObjectUnsized(n) ==
  /\ Idle /\ Forget
  /\ IF edit.open
     THEN /\ Becomes(Resized(file, n))
          /\ meant' = Resized(meant, n)
          /\ Answer("OK")
     ELSE /\ Answer("GENERAL_ERROR")
          /\ UNCHANGED <<object, modified, meant>>
  /\ UNCHANGED <<entry, edit, storageVars, call, length, known, writes>>

doTruncateObject(n) ==
  /\ Idle /\ Forget
  /\ IF edit.open
     THEN /\ Becomes(Resized(file, n))
          /\ edit' = [edit EXCEPT !.size = n]
          /\ meant' = Resized(meant, n)
          /\ Answer("OK")
     ELSE /\ Answer("GENERAL_ERROR")
          /\ UNCHANGED <<object, modified, edit, meant>>
  /\ UNCHANGED <<entry, storageVars, call, length, known, writes>>

\* commitEdit: the entry gets the size of the file.
doEndEditObject ==
  /\ Idle /\ Forget
  /\ IF edit.open
     THEN /\ entry' = Entry(Len(file)) /\ edit' = NoEdit
          /\ Answer("OK")
     ELSE Answer("GENERAL_ERROR") /\ UNCHANGED <<entry, edit>>
  /\ UNCHANGED <<object, modified, storageVars, call, hostVars>>

-----------------------------------------------------------------------------
(* Beside the server.                                                      *)

\* The database reads the file's IN_MODIFY, at any time.
Modified ==
  /\ modified /\ modified' = FALSE
  /\ entry' = IF entry.there /\ exists THEN Entry(Len(file)) ELSE entry
  /\ UNCHANGED <<object, mSend, edit, storageVars, call, answer, hostVars>>

\* Other programs write and delete files: before an object is announced and
\* after it has come; with Others, at any time.
OthersUseSpace ==
  /\ Others \/ (call = NoCall /\ ~mSend.there)
  /\ free' \in {free - 1, free + 1} \cap 0 .. Capacity - Used(file)
  /\ UNCHANGED <<file, exists, modified, entry, mSend, edit, storageVars, call,
                 answer, hostVars>>

TakeAnswer ==
  /\ answer # NoAnswer /\ answer' = NoAnswer
  /\ UNCHANGED <<object, modified, entry, mSend, edit, storageVars, call,
                 hostVars>>

-----------------------------------------------------------------------------
\* An object may be there already, of any length that fits, and other files.
Init ==
  /\ \E there \in BOOLEAN, n \in 0 .. Smaller(MaxLength, Capacity) :
       /\ there \/ n = 0
       /\ file = Data(0, n) /\ exists = there
       /\ entry = IF there THEN Entry(n) ELSE NoEntry
  /\ free \in 0 .. Capacity - Len(file) /\ modified = FALSE
  /\ mSend = NoEntry /\ edit = NoEdit /\ call = NoCall /\ answer = NoAnswer
  /\ mMaxCapacity = 0 /\ mMaxFileSize \in MaxFileSizes
  /\ length = 0 /\ meant = file /\ known = TRUE /\ writes = 0

Ask ==
  \/ doGetStorageInfo \/ doGetObjectInfo \/ doGetObjectPropValue
  \/ doGetObject
  \/ \E offset \in 0 .. W64 - 1, n \in 0 .. W32 - 1 :
       doGetPartialObject(offset, n)

Send ==
  \/ \E n \in 0 .. MaxLength : doSendObjectInfo(n)
  \/ doSendObjectRefused \/ doSendObject
  \/ receiveObject \/ receiveObjectFails

Edit ==
  \/ doBeginEditObject \/ doEndEditObject
  \/ doSendPartialObjectRefused
  \/ \E offset, n \in 0 .. MaxLength : doSendPartialObject(offset, n)
  \/ receivePart \/ receivePartFails
  \/ \E n \in 0 .. MaxLength : doTruncateObject(n)

Next == Ask \/ Send \/ Edit \/ TakeAnswer \/ Modified \/ OthersUseSpace

Spec == Init /\ [][Next]_vars

-----------------------------------------------------------------------------
(* Properties.                                                             *)

Entries == [there : BOOLEAN, size : 0 .. W64 - 1]

\* Sizes are 64-bit numbers, the size of the dataset has 32 bits, and space
\* is never given out twice.
TransfersTypeOK ==
  /\ file \in Seq(Nat \X Nat) /\ meant \in Seq(Nat \X Nat)
  /\ {exists, modified, known} \subseteq BOOLEAN
  /\ free \in 0 .. Capacity
  /\ entry \in Entries /\ mSend \in Entries
  /\ edit \in [open : BOOLEAN, size : 0 .. W64 - 1, pos : Nat]
  /\ mMaxCapacity \in 0 .. W64 - 1 /\ mMaxFileSize \in MaxFileSizes
  /\ answer.number \in 0 .. W64 - 1
  /\ length \in 0 .. MaxLength /\ writes \in 0 .. MaxWrites

\* Between requests the object is what the host means it to be: whole
\* objects, parts at their offsets and truncations, wherever a transfer is
\* cut (include/mtp.h:398 "Same as GetPartialObject64, but copying host to
\* device").
ContentMeant == call = NoCall /\ known => file = meant

\* An edit never counts bytes the file does not have, so that no part is
\* written past the end (src/MtpServer.cpp:1173).
EditWithinFile == call = NoCall /\ edit.open => edit.size <= Len(file)

\* Without an edit the database's size is the file's, read or unread events
\* notwithstanding.
SizesResynced == call = NoCall /\ exists /\ ~edit.open => entry.size = Len(file)

\* The part of the object a read asked for, in the file as it is.
PartWanted == Found(file, answer.offset, answer.length)
Reads == {"GetObject", "GetPartialObject"}

\* A read, no edit being open, gets the bytes asked for or those up to the end,
\* wherever it starts and whatever offset and length wrap to; one that starts
\* within the object is told how many.
ReadsExact ==
  call = NoCall /\ ~edit.open /\ answer.op \in Reads /\ answer.code = "OK" =>
    /\ answer.data = PartWanted
    /\ answer.offset <= Len(file) => answer.number = Len(PartWanted)

\* ... and so is one that starts beyond its end.
ReadsCounted ==
  call = NoCall /\ ~edit.open /\ answer.op \in Reads /\ answer.code = "OK"
    => answer.number = Len(PartWanted)

\* Unless it is empty, an object of known size leaves the reserve: it was
\* weighed against the space left before it came (server/server.cpp:155 "to
\* avoid filling the disk").
ReserveKept ==
  [][call.op = "SendObject" /\ call' = NoCall /\ mSend.size < W32 - 1
       /\ file' # <<>> => free' >= ReserveSpace]_vars

\* An object received whole is within the storage's limit, also when the host
\* could not say how long it is (src/MtpServer.cpp:912).
LimitKept ==
  [][call.op = "SendObject" /\ call' = NoCall /\ exists' /\ mMaxFileSize # 0
       => Len(file') <= mMaxFileSize]_vars

\* What was received whole fits: neither the reserve nor the storage's limit is
\* passed.
ReceivedFits == ReserveKept /\ LimitKept

\* The space a storage reports is never more than it has.
SpaceConsistent == answer.op = "GetStorageInfo" => answer.number <= answer.length

\* The numbers keep their widths, and those of the space agree.
TransfersInv == TransfersTypeOK /\ SpaceConsistent

\* The daemon's limit is "2GB arbitrary max file size" (server/server.cpp:157).
TwoGigabytes ==
  [][call.op = "SendObject" /\ call' = NoCall /\ exists'
       => Len(file') <= W32 \div 2]_vars

\* "100 MB reserved space, to avoid filling the disk" (server/server.cpp:155):
\* what the host does never spends the reserve.
ReserveNeverSpent == [][free >= ReserveSpace => free' >= ReserveSpace]_vars

\* A size of 0xFFFFFFFF says that the object has this size or more, any other
\* size is the object's (src/MtpServer.cpp:912).
CompressedSizeTrue ==
  call = NoCall /\ answer.op = "GetObjectInfo"
    => answer.number = Announced(Len(file))

\* "if object is being edited the database size may be out of date"
\* (src/MtpServer.cpp:724): reads during an edit get the bytes asked for, too.
ReadsExactInEdits ==
  call = NoCall /\ answer.op \in Reads /\ answer.code = "OK"
       /\ answer.offset <= Len(file)
    => answer.data = PartWanted
=============================================================================
