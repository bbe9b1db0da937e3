------------------------ MODULE MtpTransfersProofs --------------------------
(* Proofs about MtpTransfers: for any widths, media, limits and lengths.   *)
EXTENDS MtpTransfers, TLAPS, FiniteSetTheorems

Bytes == Seq(Nat \X Nat)

(* The numbers and the bytes a step relies on.                             *)
Typed ==
  /\ file \in Bytes /\ Len(file) <= MaxLength
  /\ entry \in [there : BOOLEAN, size : Nat]
  /\ mSend \in [there : BOOLEAN, size : Nat]
  /\ edit \in [open : BOOLEAN, size : Nat, pos : Nat]
  /\ call \in [op : {"none", "SendObject", "SendPartialObject"}, data : Bytes,
               offset : Nat, initial : Nat, ret : Int]
  /\ call.op = "none" => call = NoCall
  /\ length \in Nat /\ writes \in Nat

(* A file has an entry; a reservation has no file until its transfer; only *)
(* a file is edited, and never while an object is sent.                    *)
Ordered ==
  /\ exists \/ mSend.there \/ edit.open => entry.there
  /\ mSend.there => ~edit.open
  /\ mSend.there /\ call = NoCall => ~exists
  /\ edit.open => exists
  /\ call.op = "SendObject" => mSend.there
  /\ call.op = "SendPartialObject" => edit.open /\ call.offset <= edit.size
  /\ call # NoCall => answer = NoAnswer

(* What is claimed of an edit, also while a part arrives.                  *)
EditCounted ==
  SplitHeader =>
    /\ edit.open => edit.size <= Len(file)
    /\ call.op = "SendPartialObject" => call.initial = 0

(* The invariant of the proofs.                                            *)
Inv == Typed /\ Ordered /\ SizesResynced /\ EditCounted /\ ReadsExact

-----------------------------------------------------------------------------
(* Bytes.                                                                  *)

(* What is built of bytes is bytes, of the length it was built with.       *)
LEMMA DataBytes ==
  ASSUME NEW k \in Nat, NEW n \in Nat
  PROVE  Data(k, n) \in Bytes /\ Len(Data(k, n)) = n
BY DEF Data, Bytes

LEMMA FirstBytes ==
  ASSUME NEW d \in Bytes, NEW n \in Nat
  PROVE  First(d, n) \in Bytes /\ Len(First(d, n)) = Smaller(n, Len(d))
BY DEF First, Bytes, Smaller

LEMMA RestBytes ==
  ASSUME NEW d \in Bytes, NEW n \in Nat
  PROVE  Rest(d, n) \in Bytes /\ Len(Rest(d, n)) = Len(d) - Smaller(n, Len(d))
BY DEF Rest, Bytes, Smaller

LEMMA ResizedBytes ==
  ASSUME NEW d \in Bytes, NEW n \in Nat
  PROVE  Resized(d, n) \in Bytes /\ Len(Resized(d, n)) = n
BY DEF Resized, Bytes, Hole

LEMMA FoundBytes ==
  ASSUME NEW d \in Bytes, NEW at \in Nat, NEW n \in Nat
  PROVE  /\ Found(d, at, n) \in Bytes
         /\ at < Len(d) => Len(Found(d, at, n)) = Smaller(n, Len(d) - at)
         /\ at >= Len(d) => Len(Found(d, at, n)) = 0
BY DEF Found, Bytes, Smaller

LEMMA OverwriteBytes ==
  ASSUME NEW f \in Bytes, NEW at \in Nat, NEW d \in Bytes
  PROVE  /\ Overwrite(f, at, d) \in Bytes
         /\ d = <<>> => Len(Overwrite(f, at, d)) = Len(f)
         /\ d # <<>> => Len(Overwrite(f, at, d)) = Larger(Len(f), at + Len(d))
BY SMTT(30) DEF Overwrite, Bytes, Larger, Hole

(* The remainder of a division by a width.                                 *)
LEMMA Remainder ==
  ASSUME NEW n \in Int
  PROVE  /\ n % W32 \in Nat /\ n % W64 \in Nat
         /\ 0 <= n /\ n < W32 => n % W32 = n
         /\ 0 <= n /\ n < W64 => n % W64 = n
<1>1. W32 \in Nat /\ W32 > 1 /\ W64 = W32 * W32
  BY TransfersAssumption DEF W64
<1>2. W64 \in Nat /\ W64 > 1
  BY <1>1
<1> QED
  BY <1>1, <1>2

(* A read within a file of known length is cut at its end, and no earlier. *)
LEMMA PartialLengthExact ==
  ASSUME NEW offset \in Nat, NEW n \in Nat, NEW fileLength \in Nat,
         offset <= fileLength, fileLength <= MaxLength, n < W32
  PROVE  PartialLength(offset, n, fileLength) = Smaller(n, fileLength - offset)
<1>1. MaxLength \in Nat /\ W32 \in Nat /\ W64 \in Nat /\ MaxLength + W32 <= W64
  BY TransfersAssumption DEF W64
<1>2. (offset + n) % W64 = offset + n
  BY <1>1, Remainder
<1>3. CASE offset + n > fileLength
  <2>1. (fileLength - offset) % W32 = fileLength - offset
    BY <1>1, <1>3, Remainder
  <2> QED
    BY <1>2, <1>3, <2>1 DEF PartialLength, Smaller
<1>4. CASE ~(offset + n > fileLength)
  BY <1>2, <1>4 DEF PartialLength, Smaller
<1> QED
  BY <1>3, <1>4

(* The records of the invariant.                                           *)
LEMMA Records ==
  ASSUME NEW n \in Nat
  PROVE  /\ NoEntry \in [there : BOOLEAN, size : Nat]
         /\ Entry(n) \in [there : BOOLEAN, size : Nat]
         /\ NoEdit \in [open : BOOLEAN, size : Nat, pos : Nat]
         /\ [open |-> TRUE, size |-> n, pos |-> 0]
              \in [open : BOOLEAN, size : Nat, pos : Nat]
BY DEF NoEntry, Entry, NoEdit

(* The blocks of a file, of which Used is the number.                      *)
Blocks(f) == {i \in 1 .. Len(f) : f[i] # Hole}

LEMMA UsedBytes ==
  ASSUME NEW f \in Bytes
  PROVE  /\ IsFiniteSet(Blocks(f)) /\ Used(f) = Cardinality(Blocks(f))
         /\ Used(f) \in Nat /\ Used(f) <= Len(f)
<1>1. Len(f) \in Nat
  BY DEF Bytes
<1>2. IsFiniteSet(1 .. Len(f)) /\ Cardinality(1 .. Len(f)) = Len(f)
  <2>1. 1 \in Int /\ Len(f) \in Int
    BY <1>1
  <2> QED
    BY <1>1, <2>1, FS_Interval, SMTT(30)
<1>3. Blocks(f) \in SUBSET (1 .. Len(f)) /\ Used(f) = Cardinality(Blocks(f))
  BY DEF Blocks, Used
<1>4. IsFiniteSet(Blocks(f)) /\ Cardinality(Blocks(f)) <= Cardinality(1 .. Len(f))
  BY <1>2, <1>3, FS_Subset
<1> QED
  BY <1>2, <1>3, <1>4, FS_CardinalityType

(* A file whose bytes are all data uses all of its length.                 *)
LEMMA UsedAll ==
  ASSUME NEW f \in Bytes, \A i \in 1 .. Len(f) : f[i] # Hole
  PROVE  Used(f) = Len(f)
<1>1. Len(f) \in Nat /\ 1 \in Int /\ Len(f) \in Int
  BY DEF Bytes
<1>2. Blocks(f) = 1 .. Len(f)
  BY DEF Blocks
<1> QED
  BY <1>1, <1>2, UsedBytes, FS_Interval

(* A file cut or stretched uses no more than before.                       *)
LEMMA UsedResized ==
  ASSUME NEW f \in Bytes, NEW n \in Nat
  PROVE  Used(Resized(f, n)) <= Used(f)
<1>1. Resized(f, n) \in Bytes /\ Len(Resized(f, n)) = n
  BY ResizedBytes
<1>2. Blocks(Resized(f, n)) \in SUBSET Blocks(f)
  <2>1. Len(f) \in Nat
    BY DEF Bytes
  <2>2. \A i \in 1 .. n :
          Resized(f, n)[i] = IF i <= Len(f) THEN f[i] ELSE Hole
    BY DEF Resized
  <2> QED
    BY <1>1, <2>1, <2>2 DEF Blocks
<1> QED
  BY <1>1, <1>2, UsedBytes, FS_Subset

(* One block more that another file has.                                   *)
LEMMA UsedMore ==
  ASSUME NEW f \in Bytes, NEW g \in Bytes, NEW i \in Blocks(g),
         Blocks(f) \subseteq Blocks(g), i \notin Blocks(f)
  PROVE  Used(g) >= Used(f) + 1
<1>1. /\ IsFiniteSet(Blocks(f)) /\ Used(f) = Cardinality(Blocks(f))
      /\ IsFiniteSet(Blocks(g)) /\ Used(g) = Cardinality(Blocks(g))
      /\ Used(f) \in Nat /\ Used(g) \in Nat
  BY UsedBytes
<1>2. /\ IsFiniteSet(Blocks(f) \cup {i})
      /\ Cardinality(Blocks(f) \cup {i}) = Used(f) + 1
  BY <1>1, FS_AddElement
<1>3. Blocks(f) \cup {i} \in SUBSET Blocks(g)
  OBVIOUS
<1>4. Cardinality(Blocks(f) \cup {i}) <= Cardinality(Blocks(g))
  BY <1>1, <1>3, FS_Subset
<1> QED
  BY <1>1, <1>2, <1>4

(* Writing nothing changes nothing; what is written to an empty file is    *)
(* the file; the first of the first are the first.                         *)
LEMMA OverwriteNothing ==
  ASSUME NEW f \in Bytes, NEW at \in Nat
  PROVE  Overwrite(f, at, <<>>) = f
<1>1. Len(f) \in Nat /\ f = [i \in 1 .. Len(f) |-> f[i]]
  BY DEF Bytes
<1>2. Overwrite(f, at, <<>>) =
        [i \in 1 .. Len(f) |->
           IF at < i /\ i <= at + Len(<<>>) THEN <<>>[i - at]
           ELSE IF i <= Len(f) THEN f[i] ELSE Hole]
  BY DEF Overwrite
<1> QED
  BY <1>1, <1>2

LEMMA OverwriteEmpty ==
  ASSUME NEW d \in Bytes
  PROVE  Overwrite(<<>>, 0, d) = d
<1>1. Len(d) \in Nat /\ d = [i \in 1 .. Len(d) |-> d[i]]
  BY DEF Bytes
<1>2. CASE d = <<>>
  BY <1>2 DEF Overwrite
<1>3. CASE d # <<>>
  BY <1>1, <1>3 DEF Overwrite, Larger
<1> QED
  BY <1>2, <1>3

LEMMA FirstFirst ==
  ASSUME NEW d \in Bytes, NEW m \in Nat, NEW n \in 0 .. Len(First(d, m))
  PROVE  /\ First(First(d, m), n) = First(d, n)
         /\ Len(First(d, n)) = n
         /\ \A i \in 1 .. n : First(d, n)[i] = d[i]
<1>1. First(d, m) \in Bytes /\ Len(First(d, m)) = Smaller(m, Len(d))
      /\ Len(d) \in Nat
  BY FirstBytes DEF Bytes
<1>2. n \in Nat /\ n <= Len(d) /\ n <= Smaller(m, Len(d))
  BY <1>1 DEF Smaller
<1>3. /\ First(d, n) = [i \in 1 .. n |-> d[i]]
      /\ First(First(d, m), n) = [i \in 1 .. n |-> First(d, m)[i]]
  BY <1>1, <1>2 DEF First, Smaller
<1>4. \A i \in 1 .. n : First(d, m)[i] = d[i]
  <2>1. \A i \in 1 .. n : i \in 1 .. Smaller(m, Len(d))
    BY <1>1, <1>2 DEF Smaller
  <2> QED
    BY <2>1 DEF First
<1>5. First(First(d, m), n) = First(d, n)
  BY <1>3, <1>4
<1> QED
  BY <1>2, <1>3, <1>5

-----------------------------------------------------------------------------
(* The invariant.                                                          *)

(* At first there may be an object, of the length the database says.       *)
LEMMA InvInit == Init => Inv
<1> SUFFICES ASSUME Init PROVE Inv
  OBVIOUS
<1>1. PICK there \in BOOLEAN, n \in 0 .. Smaller(MaxLength, Capacity) :
        /\ file = Data(0, n) /\ exists = there
        /\ entry = IF there THEN Entry(n) ELSE NoEntry
  BY DEF Init
<1>2. n \in Nat /\ n <= MaxLength
  BY TransfersAssumption DEF Smaller
<1>3. file \in Bytes /\ Len(file) = n
  BY <1>1, <1>2, DataBytes
<1>4. Typed
  BY <1>1, <1>2, <1>3 DEF Init, Typed, NoEntry, Entry, NoEdit, NoCall, Bytes
<1>5. Ordered
  BY <1>1 DEF Init, Ordered, NoEntry, NoEdit, NoCall, Entry
<1>6. SizesResynced /\ EditCounted /\ ReadsExact
  BY <1>1, <1>3
  DEF Init, SizesResynced, EditCounted, ReadsExact, Reads, NoAnswer, Response,
      NoEdit, NoCall, Entry
<1> QED
  BY <1>4, <1>5, <1>6 DEF Inv

(* Questions change nothing but the answer.                                *)
LEMMA InvAsk == Inv /\ Ask => Inv'
<1> SUFFICES ASSUME Inv, Ask PROVE Inv'
  OBVIOUS
<1>1. Idle /\ Forget /\ UNCHANGED <<object, entry, edit, call, length, writes>>
  BY DEF Ask, doGetStorageInfo, doGetObjectInfo, doGetObjectPropValue,
         doGetObject, doGetPartialObject, hostVars
<1>2. Typed' /\ Ordered' /\ SizesResynced' /\ EditCounted'
  BY <1>1
  DEF Inv, Typed, Ordered, SizesResynced, EditCounted, Idle, Forget, NoEntry,
      NoCall, object
<1>3. ReadsExact'
  <2>1. CASE doGetStorageInfo \/ doGetObjectInfo \/ doGetObjectPropValue
    <3>1. answer'.op \notin Reads
      BY <2>1 DEF doGetStorageInfo, doGetObjectInfo, doGetObjectPropValue,
                  AnswerNumber, Response, Reads
    <3> QED
      BY <3>1 DEF ReadsExact
  <2>2. ASSUME NEW offset \in Nat, NEW n \in Nat, NEW asked \in Nat, NEW op,
               AnswerRange(op, offset, asked, n),
               ~edit.open /\ exists /\ offset <= Len(file) =>
                 n = Smaller(asked, Len(file) - offset)
        PROVE  ReadsExact'
    <3>1. \/ exists /\ answer' = Response(op, "OK", n, Found(file, offset, n),
                                          offset, asked)
          \/ ~exists /\ answer'.op = "none"
      BY <2>2 DEF AnswerRange, Answer, Response
    <3>2. SUFFICES ASSUME ~edit.open, exists
                   PROVE  /\ Found(file, offset, n) = Found(file, offset, asked)
                          /\ offset <= Len(file) =>
                               n = Len(Found(file, offset, asked))
      BY <1>1, <3>1 DEF ReadsExact, PartWanted, object, Response, Reads
    <3>3. file \in Bytes /\ Len(file) \in Nat
      BY DEF Inv, Typed, Bytes
    <3>4. CASE offset <= Len(file)
      <4>1. n = Smaller(asked, Len(file) - offset)
        BY <2>2, <3>2, <3>4
      <4>2. n = Len(Found(file, offset, asked))
        <5>1. CASE offset < Len(file)
          BY <3>3, <4>1, <5>1, FoundBytes
        <5>2. CASE ~(offset < Len(file))
          <6>1. Len(Found(file, offset, asked)) = 0
            BY <3>3, <5>2, FoundBytes
          <6>2. Len(file) - offset = 0
            BY <3>3, <3>4, <5>2
          <6> QED
            BY <4>1, <6>1, <6>2 DEF Smaller
        <5> QED
          BY <5>1, <5>2
      <4>3. Smaller(n, Len(file) - offset) = Smaller(asked, Len(file) - offset)
        BY <3>3, <3>4, <4>1 DEF Smaller
      <4>4. Found(file, offset, n) = Found(file, offset, asked)
        BY <4>3 DEF Found
      <4> QED
        BY <4>2, <4>4
    <3>5. CASE ~(offset <= Len(file))
      <4>1. offset >= Len(file)
        BY <3>3, <3>5
      <4> QED
        BY <3>5, <4>1 DEF Found
    <3> QED
      BY <3>4, <3>5
  <2>3. CASE doGetObject
    <3>1. AnswerRange("GetObject", 0, entry.size, entry.size)
      BY <2>3 DEF doGetObject
    <3>2. entry.size \in Nat /\ Len(file) \in Nat
      BY DEF Inv, Typed, Bytes
    <3>3. ~edit.open /\ exists => entry.size = Len(file)
      BY <1>1 DEF Inv, SizesResynced, Idle
    <3>4. ~edit.open /\ exists => entry.size = Smaller(entry.size, Len(file) - 0)
      BY <3>2, <3>3 DEF Smaller
    <3> QED
      BY <2>2, <3>1, <3>2, <3>4
  <2>4. ASSUME NEW offset \in 0 .. W64 - 1, NEW n \in 0 .. W32 - 1,
               doGetPartialObject(offset, n)
        PROVE  ReadsExact'
    <3>1. AnswerRange("GetPartialObject", offset, n,
                      PartialLength(offset, n, entry.size))
      BY <2>4 DEF doGetPartialObject
    <3>2. entry.size \in Nat /\ Len(file) \in Nat /\ Len(file) <= MaxLength
      BY DEF Inv, Typed, Bytes
    <3>3. ~edit.open /\ exists => entry.size = Len(file)
      BY <1>1 DEF Inv, SizesResynced, Idle
    <3>4. W32 \in Nat /\ W64 \in Nat
      BY TransfersAssumption DEF W64
    <3>5. offset \in Nat /\ n \in Nat /\ n < W32
      BY <3>4
    <3>6. PartialLength(offset, n, entry.size) \in Nat
      <4> DEFINE left == entry.size - offset
      <4>0. left \in Int
        BY <3>2, <3>5
      <4> HIDE DEF left
      <4>1. left % W32 \in Nat
        BY <4>0, Remainder
      <4> QED
        BY <3>5, <4>1 DEF PartialLength, left
    <3>7. ~edit.open /\ exists /\ offset <= Len(file)
            => PartialLength(offset, n, entry.size)
                 = Smaller(n, Len(file) - offset)
      BY <3>2, <3>3, <3>5, PartialLengthExact
    <3> QED
      BY <2>2, <3>1, <3>5, <3>6, <3>7
  <2> QED
    BY <2>1, <2>3, <2>4 DEF Ask
<1> QED
  BY <1>2, <1>3 DEF Inv

(* An answer that is not to a read says nothing of the file's bytes.       *)
LEMMA NotARead == answer'.op \notin Reads => ReadsExact'
BY DEF ReadsExact

(* What a write puts into the file.                                        *)
LEMMA BecomesBytes ==
  ASSUME NEW f \in Bytes, Becomes(f)
  PROVE  file' = f /\ exists' = TRUE /\ file' \in Bytes
BY DEF Becomes

(* An object arrives in an entry of its own, and leaves none if it does    *)
(* not.                                                                    *)
LEMMA InvSend == Inv /\ Send => Inv'
<1> SUFFICES ASSUME Inv, Send PROVE Inv'
  OBVIOUS
<1>0. MaxLength \in Nat /\ W32 \in Nat /\ W32 > 1 /\ W64 \in Nat
  BY TransfersAssumption DEF W64
<1>1. ASSUME NEW n \in 0 .. MaxLength, doSendObjectInfo(n) PROVE Inv'
  <2>1. /\ Idle /\ ~entry.there /\ answer'.op = "none"
        /\ UNCHANGED <<object, edit, call, writes>>
        /\ \/ mSend' = NoEntry /\ UNCHANGED <<entry, length>>
           \/ mSend' = Entry(Announced(n)) /\ entry' = mSend' /\ length' = n
    BY <1>1 DEF doSendObjectInfo, Answer, Response, Forget
  <2>2. Announced(n) \in Nat
    BY <1>0 DEF Announced, Smaller
  <2>3. Typed'
    <3>1. mSend' \in [there : BOOLEAN, size : Nat]
          /\ entry' \in [there : BOOLEAN, size : Nat]
      BY <2>1, <2>2, Records DEF Inv, Typed
    <3> QED
      BY <1>0, <2>1, <3>1 DEF Inv, Typed, object
  <2>4. ~exists /\ ~edit.open
    BY <2>1 DEF Inv, Ordered
  <2>5. Ordered'
    <3>1. ~exists' /\ ~edit'.open /\ call' = NoCall
      BY <2>1, <2>4 DEF Idle, object
    <3>2. mSend'.there => entry'.there
      BY <2>1 DEF NoEntry, Entry
    <3> QED
      BY <3>1, <3>2 DEF Ordered, NoCall
  <2>6. SizesResynced' /\ EditCounted'
    BY <2>1, <2>4 DEF SizesResynced, EditCounted, Idle, NoCall, object
  <2> QED
    BY <2>1, <2>3, <2>5, <2>6, NotARead DEF Inv, Reads
<1>2. CASE doSendObjectRefused
  <2>1. /\ Idle /\ answer'.op = "none" /\ mSend' = NoEntry
        /\ entry' = IF mSend.there THEN NoEntry ELSE entry
        /\ UNCHANGED <<object, edit, call, length, writes>>
    BY <1>2 DEF doSendObjectRefused, Answer, Response, hostVars
  <2>2. Typed'
    BY <2>1 DEF Inv, Typed, NoEntry, object
  <2>3. Ordered' /\ SizesResynced' /\ EditCounted'
    BY <2>1 DEF Inv, Ordered, SizesResynced, EditCounted, Idle, NoEntry,
                NoCall, object
  <2> QED
    BY <2>1, <2>2, <2>3, NotARead DEF Inv, Reads
<1>3. CASE doSendObject
  <2> DEFINE data == Data(writes + 1, length)
  <2>1. data \in Bytes /\ Len(data) = length
    BY DataBytes DEF Inv, Typed
  <2>2. PICK initial \in Initial(length) :
          \E n \in Written(<<>>, 0, First(data, initial)) :
            /\ Becomes(First(data, n))
            /\ call' = [op |-> "SendObject", data |-> data, offset |-> 0,
                        initial |-> initial, ret |-> WriteResult(initial, n)]
    BY <1>3 DEF doSendObject
  <2>3. PICK n \in Written(<<>>, 0, First(data, initial)) :
            /\ Becomes(First(data, n))
            /\ call' = [op |-> "SendObject", data |-> data, offset |-> 0,
                        initial |-> initial, ret |-> WriteResult(initial, n)]
    BY <2>2
  <2> HIDE DEF data
  <2>4. initial \in Nat
    BY <1>0, TransfersAssumption DEF Initial, Inv, Typed
  <2>5. n \in Nat /\ n <= MaxLength
    <3> DEFINE start == First(data, initial)
    <3>1. start \in Bytes
      BY <2>1, <2>4, FirstBytes
    <3> HIDE DEF start
    <3>2. n \in 0 .. Len(start) /\ 0 + Len(First(start, n)) <= MaxLength
      BY <2>3 DEF Written, Fits, start
    <3>3. Len(start) \in Nat
      BY <3>1 DEF Bytes
    <3>4. Len(First(start, n)) = Smaller(n, Len(start))
      BY <3>1, <3>2, <3>3, FirstBytes
    <3> QED
      BY <1>0, <3>2, <3>3, <3>4 DEF Smaller
  <2>6. file' \in Bytes /\ Len(file') <= MaxLength /\ exists'
    <3>1. First(data, n) \in Bytes /\ Len(First(data, n)) = Smaller(n, Len(data))
      BY <2>1, <2>5, FirstBytes
    <3> QED
      BY <1>0, <2>1, <2>3, <2>5, <3>1 DEF Becomes, Smaller, Bytes
  <2>7. /\ Idle /\ mSend.there /\ writes' = writes + 1
        /\ UNCHANGED <<entry, mSend, edit, answer, length>>
    BY <1>3 DEF doSendObject
  <2>8. WriteResult(initial, n) \in Int
    BY DEF WriteResult
  <2>9. Typed'
    BY <2>1, <2>3, <2>4, <2>6, <2>7, <2>8 DEF Inv, Typed
  <2>10. call'.op = "SendObject" /\ call' # NoCall
    BY <2>3 DEF NoCall
  <2>11. Ordered' /\ SizesResynced' /\ EditCounted' /\ ReadsExact'
    BY <2>6, <2>7, <2>10
    DEF Inv, Ordered, SizesResynced, EditCounted, ReadsExact, Idle, NoCall
  <2> QED
    BY <2>9, <2>11 DEF Inv
<1>4. CASE receiveObject
  <2>1. call.op = "SendObject" /\ mSend.there /\ entry.there /\ ~edit.open
    BY <1>4 DEF receiveObject, Inv, Ordered
  <2>2. file' \in Bytes /\ Len(file') <= MaxLength /\ Len(file') \in Nat
    <3>1. CASE Remaining # 0
      <4>1. Fits(file, call.initial, Asked)
            /\ Becomes(Overwrite(file, call.initial, Asked))
        BY <1>4, <3>1 DEF receiveObject
      <4>2. Rest(call.data, call.initial) \in Bytes
        BY RestBytes DEF Inv, Typed
      <4>3. mSend.size - call.initial \in Int
        BY DEF Inv, Typed
      <4>4. Remaining \in Nat
        BY <4>3, Remainder DEF Remaining
      <4>5. Asked \in Bytes
        BY <4>2, <4>4, FirstBytes DEF Asked
      <4> HIDE DEF Asked
      <4>6. /\ Overwrite(file, call.initial, Asked) \in Bytes
            /\ Len(Overwrite(file, call.initial, Asked)) <= MaxLength
        <5>1. /\ file \in Bytes /\ call.initial \in Nat /\ Len(file) \in Nat
              /\ Len(file) <= MaxLength /\ Len(Asked) \in Nat
          BY <4>5 DEF Inv, Typed, Bytes
        <5>2. call.initial + Len(Asked) <= MaxLength
          BY <4>1 DEF Fits
        <5> QED
          BY <1>0, <4>5, <5>1, <5>2, OverwriteBytes DEF Larger
      <4> QED
        BY <4>1, <4>6 DEF Becomes, Bytes
    <3>2. CASE Remaining = 0
      BY <1>4, <3>2 DEF receiveObject, object, Inv, Typed, Bytes
    <3> QED
      BY <3>1, <3>2
  <2>3. /\ call' = NoCall /\ mSend' = NoEntry /\ entry' = Entry(Len(file'))
        /\ length' = 0 /\ UNCHANGED <<edit, writes>> /\ answer'.op = "none"
    BY <1>4 DEF receiveObject, EndSend, Answer, Response
  <2>4. Typed'
    BY <2>2, <2>3 DEF Inv, Typed, NoCall, NoEntry, Entry, Bytes
  <2>5. Ordered' /\ SizesResynced' /\ EditCounted'
    BY <2>1, <2>3 DEF Inv, Ordered, SizesResynced, EditCounted, NoCall, NoEntry,
                      Entry
  <2> QED
    BY <2>3, <2>4, <2>5, NotARead DEF Inv, Reads
<1>5. CASE receiveObjectFails
  <2>1. /\ call' = NoCall /\ mSend' = NoEntry /\ entry' = NoEntry
        /\ file' = <<>> /\ exists' = FALSE /\ length' = 0
        /\ UNCHANGED <<edit, writes>> /\ answer'.op = "none" /\ ~edit.open
    BY <1>5 DEF receiveObjectFails, Answer, Response, Inv, Ordered
  <2>2. Typed'
    BY <1>0, <2>1 DEF Inv, Typed, NoCall, NoEntry, Bytes
  <2>3. Ordered' /\ SizesResynced' /\ EditCounted'
    BY <2>1 DEF Inv, Ordered, SizesResynced, EditCounted, NoCall, NoEntry
  <2> QED
    BY <2>1, <2>2, <2>3, NotARead DEF Inv, Reads
<1> QED
  BY <1>1, <1>2, <1>3, <1>4, <1>5 DEF Send

(* A part starts within what the edit counts, and the edit counts no more  *)
(* than the file has.                                                      *)
LEMMA InvEdit == Inv /\ Edit => Inv'
<1> SUFFICES ASSUME Inv, Edit PROVE Inv'
  OBVIOUS
<1>0. MaxLength \in Nat /\ W32 \in Nat /\ W32 > 1 /\ W64 \in Nat
  BY TransfersAssumption DEF W64
<1>1. CASE doBeginEditObject
  <2>1. /\ Idle /\ mSend' = NoEntry /\ answer'.op = "none" /\ entry.there
        /\ UNCHANGED <<object, entry, call, length, writes>>
        /\ \/ edit' = edit
           \/ /\ ~edit.open /\ exists
              /\ edit' = [open |-> TRUE, size |-> entry.size, pos |-> 0]
    BY <1>1 DEF doBeginEditObject, Answer, Response, Forget, hostVars
  <2>2. Typed'
    <3>1. edit' \in [open : BOOLEAN, size : Nat, pos : Nat]
      BY <2>1, Records DEF Inv, Typed
    <3> QED
      BY <2>1, <3>1, Records DEF Inv, Typed, object
  <2>3. Ordered' /\ SizesResynced'
    BY <2>1 DEF Inv, Ordered, SizesResynced, Idle, NoEntry, NoCall, object
  <2>4. EditCounted'
    BY <2>1 DEF Inv, Typed, SizesResynced, EditCounted, Idle, NoCall, object, Bytes
  <2> QED
    BY <2>1, <2>2, <2>3, <2>4, NotARead DEF Inv, Reads
<1>2. CASE doEndEditObject
  <2>1. /\ Idle /\ mSend' = NoEntry /\ answer'.op = "none"
        /\ UNCHANGED <<object, call, length, writes>>
        /\ \/ UNCHANGED <<edit, entry>>
           \/ edit.open /\ edit' = NoEdit /\ entry' = Entry(Len(file))
    BY <1>2 DEF doEndEditObject, Answer, Response, Forget, hostVars
  <2>2. Typed'
    <3>1. Len(file) \in Nat
      BY DEF Inv, Typed, Bytes
    <3>2. edit' \in [open : BOOLEAN, size : Nat, pos : Nat]
          /\ entry' \in [there : BOOLEAN, size : Nat]
      BY <2>1, <3>1, Records DEF Inv, Typed
    <3> QED
      BY <2>1, <3>1, <3>2, Records DEF Inv, Typed, object
  <2>3. Ordered' /\ SizesResynced' /\ EditCounted'
    BY <2>1 DEF Inv, Ordered, SizesResynced, EditCounted, Idle, NoEntry, NoEdit,
                Entry, NoCall, object
  <2> QED
    BY <2>1, <2>2, <2>3, NotARead DEF Inv, Reads
<1>3. CASE doSendPartialObjectRefused
  <2>1. /\ Idle /\ mSend' = NoEntry /\ answer'.op = "none"
        /\ UNCHANGED <<object, entry, edit, call, length, writes>>
    BY <1>3 DEF doSendPartialObjectRefused, Answer, Response, Forget, hostVars
  <2>2. Typed' /\ Ordered' /\ SizesResynced' /\ EditCounted'
    BY <2>1 DEF Inv, Typed, Ordered, SizesResynced, EditCounted, Idle, NoEntry,
                NoCall, object
  <2> QED
    BY <2>1, <2>2, NotARead DEF Inv, Reads
<1>4. ASSUME NEW offset \in 0 .. MaxLength, NEW k \in 0 .. MaxLength,
             doSendPartialObject(offset, k)
      PROVE  Inv'
  <2> DEFINE data == Data(writes + 1, k)
  <2>1. data \in Bytes /\ Len(data) = k /\ k \in Nat /\ offset \in Nat
    BY <1>0, DataBytes DEF Inv, Typed
  <2>2. PICK initial \in (IF SplitHeader THEN {0} ELSE Initial(k)) :
          \E w \in Written(file, edit.pos, First(data, initial)) :
            /\ Becomes(Overwrite(file, edit.pos, First(data, w)))
            /\ edit' = [edit EXCEPT !.pos = @ + w]
            /\ call' = [op |-> "SendPartialObject", data |-> data,
                        offset |-> offset, initial |-> initial,
                        ret |-> WriteResult(initial, w)]
    BY <1>4 DEF doSendPartialObject
  <2>3. PICK w \in Written(file, edit.pos, First(data, initial)) :
            /\ Becomes(Overwrite(file, edit.pos, First(data, w)))
            /\ edit' = [edit EXCEPT !.pos = @ + w]
            /\ call' = [op |-> "SendPartialObject", data |-> data,
                        offset |-> offset, initial |-> initial,
                        ret |-> WriteResult(initial, w)]
    BY <2>2
  <2> HIDE DEF data
  <2>4. initial \in Nat /\ (SplitHeader => initial = 0)
    BY <1>0, <2>1, TransfersAssumption DEF Initial
  <2>5. w \in Nat /\ w <= Len(data) /\ edit.pos + w <= MaxLength
    <3> DEFINE start == First(data, initial)
    <3>1. start \in Bytes /\ Len(start) = Smaller(initial, Len(data))
      BY <2>1, <2>4, FirstBytes
    <3> HIDE DEF start
    <3>2. w \in 0 .. Len(start) /\ edit.pos + Len(First(start, w)) <= MaxLength
      BY <2>3 DEF Written, Fits, start
    <3>3. Len(start) \in Nat
      BY <3>1 DEF Bytes
    <3>4. Len(First(start, w)) = Smaller(w, Len(start))
      BY <3>1, <3>2, <3>3, FirstBytes
    <3> QED
      BY <1>0, <2>1, <2>4, <3>1, <3>2, <3>3, <3>4 DEF Smaller
  <2>6. /\ file' \in Bytes /\ Len(file') <= MaxLength /\ exists'
        /\ Len(file') >= Len(file) /\ Len(file') \in Nat /\ Len(file) \in Nat
    <3> DEFINE part == First(data, w)
    <3>1. part \in Bytes /\ Len(part) = w
      BY <2>1, <2>5, FirstBytes DEF Smaller
    <3>2. file' = Overwrite(file, edit.pos, part) /\ exists'
      BY <2>3 DEF Becomes
    <3> HIDE DEF part
    <3>3. file \in Bytes /\ Len(file) <= MaxLength /\ Len(file) \in Nat
          /\ edit.pos \in Nat
      BY DEF Inv, Typed, Bytes
    <3>4. file' \in Bytes /\ Len(file') \in Nat
      BY <3>1, <3>2, <3>3, OverwriteBytes DEF Bytes
    <3>5. Len(file') = Len(file) \/ Len(file') = Larger(Len(file), edit.pos + w)
      BY <3>1, <3>2, <3>3, OverwriteBytes
    <3> QED
      BY <1>0, <2>5, <3>2, <3>3, <3>4, <3>5 DEF Larger
  <2>7. /\ Idle /\ mSend' = NoEntry /\ writes' = writes + 1
        /\ UNCHANGED <<entry, answer, length>>
        /\ edit.open /\ offset <= edit.size
    BY <1>4 DEF doSendPartialObject, Forget
  <2>8. WriteResult(initial, w) \in Int
    BY DEF WriteResult
  <2>9. edit' \in [open : BOOLEAN, size : Nat, pos : Nat]
        /\ edit'.open = edit.open /\ edit'.size = edit.size
    BY <2>3, <2>5, SMTT(30) DEF Inv, Typed
  <2>10. Typed'
    BY <2>1, <2>3, <2>4, <2>6, <2>7, <2>8, <2>9, SMTT(30) DEF Inv, Typed, NoEntry
  <2>11. /\ call'.op = "SendPartialObject" /\ call' # NoCall
         /\ call'.offset = offset /\ call'.initial = initial
    BY <2>3 DEF NoCall
  <2>12. Ordered' /\ SizesResynced' /\ ReadsExact'
    BY <2>6, <2>7, <2>9, <2>11
    DEF Inv, Ordered, SizesResynced, ReadsExact, Idle, NoCall, NoEntry
  <2>13. EditCounted'
    BY <2>4, <2>6, <2>7, <2>9, <2>11 DEF Inv, Typed, EditCounted
  <2> QED
    BY <2>10, <2>12, <2>13 DEF Inv
<1>5. ASSUME call.op = "SendPartialObject", NEW n \in Nat,
             Fits(file, call.offset + call.initial, First(PartRest, n)),
             Becomes(Overwrite(file, call.offset + call.initial,
                               First(PartRest, n)))
      PROVE  /\ file' \in Bytes /\ Len(file') \in Nat /\ Len(file') <= MaxLength
             /\ Len(file') >= Len(file) /\ exists'
             /\ First(PartRest, n) # <<>> =>
                  Len(file') >= call.offset + call.initial + Len(First(PartRest, n))
  <2> DEFINE part == First(PartRest, n)
             at == call.offset + call.initial
  <2>1. part \in Bytes /\ at \in Nat
    <3>1. call.data \in Bytes /\ call.initial \in Nat /\ call.offset \in Nat
      BY DEF Inv, Typed
    <3>2. PartRest \in Bytes
      BY <3>1, RestBytes DEF PartRest
    <3>3. part \in Bytes
      BY <1>5, <3>2, FirstBytes
    <3>4. at \in Nat
      BY <3>1
    <3> QED
      BY <3>3, <3>4
  <2>2. file' = Overwrite(file, at, part) /\ exists' /\ at + Len(part) <= MaxLength
    BY <1>5 DEF Becomes, Fits
  <2>3. file \in Bytes /\ Len(file) \in Nat /\ Len(file) <= MaxLength
    BY DEF Inv, Typed, Bytes
  <2> HIDE DEF part, at
  <2>4. file' \in Bytes /\ Len(file') \in Nat /\ Len(part) \in Nat
    BY <2>1, <2>2, <2>3, OverwriteBytes DEF Bytes
  <2>5. /\ part = <<>> => Len(file') = Len(file)
        /\ part # <<>> => Len(file') = Larger(Len(file), at + Len(part))
    BY <2>1, <2>2, <2>3, OverwriteBytes
  <2>6. /\ Len(file') <= MaxLength /\ Len(file') >= Len(file)
        /\ part # <<>> => Len(file') >= at + Len(part)
    BY <1>0, <2>1, <2>2, <2>3, <2>4, <2>5 DEF Larger
  <2> QED
    BY <2>2, <2>4, <2>6 DEF part, at
<1>6. ASSUME call.op = "SendPartialObject",
             call' = NoCall /\ answer'.op \notin Reads,
             UNCHANGED <<entry, mSend, length, writes>>,
             exists', file' \in Bytes, Len(file') <= MaxLength,
             edit' \in [open : BOOLEAN, size : Nat, pos : Nat],
             edit'.open = edit.open, SplitHeader => edit'.size <= Len(file')
      PROVE  Inv'
  <2>1. edit.open /\ entry.there /\ ~mSend.there
    BY <1>6 DEF Inv, Ordered
  <2>2. Typed'
    BY <1>6 DEF Inv, Typed, NoCall, Bytes
  <2>3. Ordered' /\ SizesResynced' /\ EditCounted'
    BY <1>6, <2>1 DEF Ordered, SizesResynced, EditCounted, NoCall
  <2> QED
    BY <1>6, <2>2, <2>3, NotARead DEF Inv
<1>7. /\ file \in Bytes /\ Len(file) \in Nat /\ Len(file) <= MaxLength
      /\ edit \in [open : BOOLEAN, size : Nat, pos : Nat]
      /\ call.data \in Bytes /\ Len(call.data) \in Nat
      /\ call.initial \in Nat /\ call.offset \in Nat
      /\ PartRest \in Bytes /\ Len(PartRest) \in Nat
      /\ Len(PartRest) = Len(call.data) - Smaller(call.initial, Len(call.data))
  <2>1. /\ call.data \in Bytes /\ call.initial \in Nat /\ call.offset \in Nat
        /\ file \in Bytes /\ Len(file) <= MaxLength
        /\ edit \in [open : BOOLEAN, size : Nat, pos : Nat]
    BY DEF Inv, Typed
  <2>2. /\ PartRest \in Bytes
        /\ Len(PartRest) = Len(call.data) - Smaller(call.initial, Len(call.data))
    BY <2>1, RestBytes DEF PartRest
  <2> QED
    BY <2>1, <2>2 DEF Bytes
<1>8. CASE receivePart
  <2> DEFINE end == call.offset + Len(call.data)
  <2>1. /\ call.op = "SendPartialObject" /\ call' = NoCall
        /\ edit' = [edit EXCEPT !.size = Larger(@, end)]
        /\ answer'.op \notin Reads
        /\ UNCHANGED <<entry, mSend, length, writes>>
    BY <1>8 DEF receivePart, AnswerNumber, Response, Reads
  <2>2. end \in Nat
    BY <1>7
  <2> HIDE DEF end
  <2>3. /\ edit' \in [open : BOOLEAN, size : Nat, pos : Nat]
        /\ edit'.open = edit.open /\ edit'.size = Larger(edit.size, end)
    BY <1>7, <2>1, <2>2 DEF Larger
  <2>4. /\ edit.open /\ exists /\ call.offset <= edit.size /\ edit.size \in Nat
        /\ SplitHeader => edit.size <= Len(file) /\ call.initial = 0
    BY <1>7, <2>1 DEF Inv, Ordered, EditCounted
  <2>5. CASE PartRest # <<>>
    <3> DEFINE n == Len(PartRest)
    <3>1. /\ Fits(file, call.offset + call.initial, PartRest)
          /\ Becomes(Overwrite(file, call.offset + call.initial, PartRest))
      BY <1>8, <2>5 DEF receivePart
    <3>2. /\ PartRest \in Bytes /\ First(PartRest, n) = PartRest /\ n \in Nat
      BY <1>7 DEF First, Smaller, Bytes
    <3>3. /\ file' \in Bytes /\ Len(file') \in Nat /\ Len(file') <= MaxLength
          /\ Len(file') >= Len(file) /\ exists'
          /\ Len(file') >= call.offset + call.initial + Len(PartRest)
      BY <1>5, <2>1, <2>5, <3>1, <3>2
    <3>4. SplitHeader => edit'.size <= Len(file')
      <4>1. SplitHeader => Len(PartRest) = Len(call.data)
        BY <1>7, <2>4 DEF Smaller
      <4> QED
        BY <1>7, <2>3, <2>4, <3>3, <4>1 DEF Larger, end
    <3> QED
      BY <1>6, <2>1, <2>3, <3>3, <3>4
  <2>6. CASE PartRest = <<>>
    <3>1. UNCHANGED object
      BY <1>8, <2>6 DEF receivePart
    <3>2. SplitHeader => edit'.size <= Len(file')
      <4>1. Len(PartRest) = 0
        BY <2>6
      <4>2. SplitHeader => Len(call.data) = 0
        BY <1>7, <2>4, <4>1 DEF Smaller
      <4>3. SplitHeader => end <= edit.size
        BY <1>7, <2>4, <4>2 DEF end
      <4> QED
        BY <2>2, <2>3, <2>4, <3>1, <4>3 DEF Larger, object
    <3> QED
      BY <1>6, <1>7, <2>1, <2>3, <2>4, <3>1, <3>2 DEF object
  <2> QED
    BY <2>5, <2>6
<1>9. CASE receivePartFails
  <2>1. /\ call.op = "SendPartialObject" /\ call' = NoCall
        /\ answer'.op \notin Reads
        /\ UNCHANGED <<entry, mSend, edit, length, writes>>
    BY <1>9 DEF receivePartFails, Answer, Response, Reads
  <2>2. /\ edit.open /\ exists /\ edit.size \in Nat
        /\ SplitHeader => edit.size <= Len(file)
    BY <1>7, <2>1 DEF Inv, Ordered, EditCounted
  <2>3. /\ file' \in Bytes /\ Len(file') \in Nat /\ Len(file') <= MaxLength
        /\ Len(file') >= Len(file) /\ exists'
    <3>1. CASE UNCHANGED object
      BY <1>7, <2>2, <3>1 DEF object
    <3>2. CASE ~UNCHANGED object
      <4>1. PICK n \in 0 .. Len(PartRest) :
              /\ Fits(file, call.offset + call.initial, First(PartRest, n))
              /\ Becomes(Overwrite(file, call.offset + call.initial,
                                   First(PartRest, n)))
        BY <1>9, <3>2 DEF receivePartFails
      <4>2. n \in Nat
        BY <1>7
      <4> QED
        BY <1>5, <2>1, <4>1, <4>2
    <3> QED
      BY <3>1, <3>2
  <2>4. SplitHeader => edit'.size <= Len(file')
    BY <1>7, <2>1, <2>2, <2>3
  <2> QED
    BY <1>6, <1>7, <2>1, <2>3, <2>4
<1>10. ASSUME NEW n \in 0 .. MaxLength, doTruncateObject(n) PROVE Inv'
  <2>1. /\ Idle /\ mSend' = NoEntry /\ answer'.op = "none"
        /\ UNCHANGED <<entry, call, length, writes>>
    BY <1>10 DEF doTruncateObject, Answer, Response, Forget
  <2>2. CASE ~edit.open
    <3>1. UNCHANGED <<object, edit>>
      BY <1>10, <2>2 DEF doTruncateObject
    <3>2. Typed' /\ Ordered' /\ SizesResynced' /\ EditCounted'
      BY <2>1, <3>1 DEF Inv, Typed, Ordered, SizesResynced, EditCounted, Idle,
                        NoEntry, NoCall, object
    <3> QED
      BY <2>1, <3>2, NotARead DEF Inv, Reads
  <2>3. CASE edit.open
    <3>1. Becomes(Resized(file, n)) /\ edit' = [edit EXCEPT !.size = n]
      BY <1>10, <2>3 DEF doTruncateObject
    <3>2. n \in Nat /\ n <= MaxLength
      BY <1>0
    <3>3. file' \in Bytes /\ Len(file') = n /\ exists'
      BY <3>1, <3>2, ResizedBytes DEF Becomes, Inv, Typed
    <3>4. edit' \in [open : BOOLEAN, size : Nat, pos : Nat]
          /\ edit'.open /\ edit'.size = n
      BY <2>3, <3>1, <3>2 DEF Inv, Typed
    <3>5. Typed'
      BY <2>1, <3>2, <3>3, <3>4 DEF Inv, Typed, NoEntry
    <3>6. Ordered' /\ SizesResynced' /\ EditCounted'
      BY <2>1, <2>3, <3>2, <3>3, <3>4
      DEF Inv, Ordered, SizesResynced, EditCounted, Idle, NoEntry, NoCall
    <3> QED
      BY <2>1, <3>5, <3>6, NotARead DEF Inv, Reads
  <2> QED
    BY <2>2, <2>3
<1> QED
  BY <1>1, <1>2, <1>3, <1>4, <1>8, <1>9, <1>10 DEF Edit

(* Nor do the host, the database's notifier and other programs break it.   *)
LEMMA InvBeside == Inv /\ (TakeAnswer \/ Modified \/ OthersUseSpace) => Inv'
<1> SUFFICES ASSUME Inv, TakeAnswer \/ Modified \/ OthersUseSpace PROVE Inv'
  OBVIOUS
<1>1. UNCHANGED <<file, exists, mSend, edit, call, length, writes>>
  BY DEF TakeAnswer, Modified, OthersUseSpace, object, hostVars
<1>2. entry' = entry \/ (entry.there /\ exists /\ entry' = Entry(Len(file)))
  BY DEF TakeAnswer, Modified, OthersUseSpace
<1>3. answer' = answer \/ answer' = NoAnswer
  BY DEF TakeAnswer, Modified, OthersUseSpace
<1>4. Typed'
  <2>1. Len(file) \in Nat
    BY DEF Inv, Typed, Bytes
  <2>2. entry' \in [there : BOOLEAN, size : Nat]
    BY <1>2, <2>1, Records DEF Inv, Typed
  <2> QED
    BY <1>1, <2>2 DEF Inv, Typed
<1>5. Ordered' /\ SizesResynced' /\ EditCounted'
  BY <1>1, <1>2, <1>3 DEF Inv, Ordered, SizesResynced, EditCounted, Entry
<1>6. ReadsExact'
  BY <1>1, <1>3 DEF Inv, ReadsExact, PartWanted, NoAnswer, Response, Reads
<1> QED
  BY <1>4, <1>5, <1>6 DEF Inv

(* No step breaks it.                                                      *)
LEMMA InvNext == Inv /\ [Next]_vars => Inv'
<1> SUFFICES ASSUME Inv, [Next]_vars PROVE Inv'
  OBVIOUS
<1>1. CASE Next
  BY <1>1, InvAsk, InvSend, InvEdit, InvBeside DEF Next
<1>2. CASE UNCHANGED vars
  BY <1>2 DEF vars, object, hostVars, storageVars, Inv, Typed, Ordered,
              SizesResynced, EditCounted, ReadsExact, PartWanted
<1> QED
  BY <1>1, <1>2

LEMMA InvHolds == Spec => []Inv
BY InvInit, InvNext, PTL DEF Spec

-----------------------------------------------------------------------------
(* Without an edit the database's size of an object is the size of its     *)
(* file: endSendObject and commitEdit leave no other                       *)
(* (server/UbuntuMtpDatabase.h:437).                                       *)
THEOREM SizesResyncedHolds == Spec => []SizesResynced
<1>1. Inv => SizesResynced
  BY DEF Inv
<1> QED
  BY <1>1, InvHolds, PTL

(* With headers in transfers of their own, an edit never counts bytes the  *)
(* file does not have, so that the check of doSendPartialObject            *)
(* (src/MtpServer.cpp:1173) keeps parts from starting past the end.        *)
THEOREM EditWithinFileHolds ==
  ASSUME SplitHeader = TRUE
  PROVE  Spec => []EditWithinFile
<1>1. Inv => EditWithinFile
  BY DEF Inv, EditCounted, EditWithinFile
<1> QED
  BY <1>1, InvHolds, PTL

(* The arithmetic of doGetPartialObject (src/MtpServer.cpp:827) gives the  *)
(* host what it asked for, or what there is up to the end, for every       *)
(* 64-bit offset and 32-bit length, also where their sum wraps and the     *)
(* difference is negative; the number it is told is right for every offset *)
(* within the object.                                                      *)
THEOREM ReadsExactHolds == Spec => []ReadsExact
<1>1. Inv => ReadsExact
  BY DEF Inv
<1> QED
  BY <1>1, InvHolds, PTL

-----------------------------------------------------------------------------
(* Space, and what is announced of an object.                              *)

(* The types of the rest, and what others and the object use together.     *)
Spaced ==
  /\ free \in Nat /\ free + Used(file) <= Capacity
  /\ ~exists => file = <<>>
  /\ exists \in BOOLEAN /\ modified \in BOOLEAN /\ known \in BOOLEAN
  /\ meant \in Bytes
  /\ mMaxCapacity \in {0, Capacity} /\ mMaxFileSize \in MaxFileSizes
  /\ answer.number \in 0 .. W64 - 1
  /\ answer.op = "GetStorageInfo" =>
       StatfsFails \/ answer.number <= answer.length
  /\ entry.size < W64 /\ mSend.size < W64 /\ edit.size < W64
  /\ length <= MaxLength /\ writes <= MaxWrites
  /\ mSend.there /\ call.op = "none" => writes < MaxWrites
  /\ call.op = "SendPartialObject" =>
       call.offset + Len(call.data) <= MaxLength

(* A reservation says what the host will send, as far as 32 bits can, and  *)
(* was weighed against the storage's limit; what has come of it starts the *)
(* file.                                                                   *)
Announcement ==
  /\ mSend.there =>
       /\ mSend.size = Announced(length)
       /\ mMaxFileSize # 0 =>
            mSend.size <= mMaxFileSize /\ mSend.size # W32 - 1
  /\ call.op = "SendObject" =>
       /\ Len(call.data) = length /\ call.initial \in Initial(length)
       /\ Len(file) <= call.initial

(* It was weighed against the space, too, and if others leave that alone   *)
(* it is still there; only a full medium cuts the first bytes short.       *)
Weighed ==
  ~StatfsFails /\ ~Others =>
    /\ mSend.there /\ mSend.size < W32 - 1 /\ length > 0 =>
         free + Used(file) >= ReserveSpace + length
    /\ call.op = "SendObject" =>
         /\ \A i \in 1 .. length : call.data[i] # Hole
         /\ \A i \in 1 .. Len(file) : file[i] = call.data[i]
         /\ Len(file) < call.initial => free = 0
    /\ SplitHeader /\ known /\ call.op # "SendObject" => file = meant

SpaceInv == Spaced /\ Announcement /\ Weighed

LEMMA SpaceInit == Init => SpaceInv
<1> SUFFICES ASSUME Init PROVE SpaceInv
  OBVIOUS
<1>1. PICK there \in BOOLEAN, n \in 0 .. Smaller(MaxLength, Capacity) :
        /\ there \/ n = 0
        /\ file = Data(0, n) /\ exists = there
        /\ entry = IF there THEN Entry(n) ELSE NoEntry
  BY DEF Init
<1>0. /\ MaxLength \in Nat /\ W32 \in Nat /\ W32 > 1 /\ W64 \in Nat
      /\ Capacity \in Nat /\ MaxLength < W64 /\ MaxWrites \in Nat
  BY TransfersAssumption DEF W64
<1>2. n \in Nat /\ n <= MaxLength /\ n <= Capacity
  BY <1>0 DEF Smaller
<1>3. /\ file \in Bytes /\ Len(file) = n
      /\ Used(file) \in Nat /\ Used(file) <= n
  BY <1>1, <1>2, DataBytes, UsedBytes
<1>4. free \in Nat /\ free + Used(file) <= Capacity
  <2>1. free \in 0 .. Capacity - n
    BY <1>3 DEF Init
  <2> QED
    BY <1>0, <1>2, <1>3, <2>1
<1>5. ~exists => file = <<>>
  BY <1>1, <1>3 DEF Bytes
<1>6. /\ mSend = NoEntry /\ edit = NoEdit /\ call = NoCall /\ answer = NoAnswer
      /\ mMaxCapacity = 0 /\ mMaxFileSize \in MaxFileSizes
      /\ length = 0 /\ meant = file /\ known = TRUE /\ writes = 0
      /\ modified = FALSE
  BY DEF Init
<1>7. exists \in BOOLEAN /\ modified \in BOOLEAN /\ known \in BOOLEAN
  BY <1>1, <1>6
<1>8. entry.size < W64 /\ mSend.size < W64 /\ edit.size < W64
  BY <1>0, <1>1, <1>2, <1>6 DEF Entry, NoEntry, NoEdit
<1>9. Spaced
  BY <1>0, <1>3, <1>4, <1>5, <1>6, <1>7, <1>8
     DEF Spaced, NoEntry, NoCall, NoAnswer, Response
<1> QED
  BY <1>6, <1>9 DEF SpaceInv, Announcement, Weighed, NoEntry, NoCall

(* The bounds of the numbers.                                              *)
LEMMA Bounds ==
  /\ MaxLength \in Nat /\ MaxWrites \in Nat /\ Capacity \in Nat
  /\ ReserveSpace \in Nat /\ Buffer \in Nat /\ Buffer < W32 - 1
  /\ W32 \in Nat /\ W32 > 1 /\ W64 \in Nat /\ W32 <= W64
  /\ MaxLength + W32 <= W64 /\ Capacity < W64 - 1
  /\ StatfsFails \in BOOLEAN /\ Others \in BOOLEAN /\ SplitHeader \in BOOLEAN
<1>1. W32 \in Nat /\ W32 > 1 /\ W64 = W32 * W32
  BY TransfersAssumption DEF W64
<1>2. W64 \in Nat /\ W32 <= W64
  BY <1>1
<1> QED
  BY <1>1, <1>2, TransfersAssumption

(* The space a storage reports is not more than there is.                  *)
LEMMA FreeSpaceBounds ==
  ASSUME Spaced, Inv, NEW f \in FreeSpace
  PROVE  /\ f \in 0 .. W64 - 1
         /\ ~StatfsFails =>
              /\ f <= free
              /\ f > 0 => f + ReserveSpace <= free
<1>1. free \in Nat /\ free <= Capacity
  BY UsedBytes, Bounds, SMTT(30) DEF Spaced, Inv, Typed
<1>2. \/ f = W64 - 1 /\ StatfsFails
      \/ f = IF free > ReserveSpace THEN free - ReserveSpace ELSE 0
  BY DEF FreeSpace
<1> QED
  BY <1>1, <1>2, Bounds

LEMMA CapacityBounds ==
  ASSUME Spaced, NEW c \in getMaxCapacity
  PROVE  /\ (IF c = W64 - 1 THEN mMaxCapacity ELSE c) \in {0, Capacity}
         /\ ~StatfsFails => c = Capacity
BY Bounds DEF Spaced, getMaxCapacity

(* Steps between requests that leave the object alone and no reservation.  *)
LEMMA SpaceQuiet ==
  ASSUME Inv, SpaceInv, Idle, Forget, call' = call,
         UNCHANGED <<object, modified, hostVars, mMaxFileSize>>,
         mMaxCapacity' \in {0, Capacity},
         entry'.size < W64, edit'.size < W64, answer'.number \in 0 .. W64 - 1,
         answer'.op = "GetStorageInfo" =>
           StatfsFails \/ answer'.number <= answer'.length
  PROVE  SpaceInv'
<1>1. call'.op = "none" /\ ~mSend'.there /\ mSend'.size < W64
  BY Bounds DEF Idle, NoCall, Forget, NoEntry
<1>2. Spaced'
  <2>1. Used(file)' = Used(file)
    BY DEF object
  <2> QED
    BY <1>1, <2>1 DEF SpaceInv, Spaced, object, hostVars
<1>3. Announcement'
  BY <1>1 DEF Announcement
<1>4. Weighed'
  BY <1>1 DEF SpaceInv, Weighed, object, hostVars, Idle, NoCall
<1> QED
  BY <1>2, <1>3, <1>4 DEF SpaceInv

LEMMA SpaceAsk == Inv /\ SpaceInv /\ Ask => SpaceInv'
<1> SUFFICES ASSUME Inv, SpaceInv, Ask PROVE SpaceInv'
  OBVIOUS
<1>1. /\ Idle /\ Forget
      /\ UNCHANGED <<object, modified, entry, edit, call, hostVars, mMaxFileSize>>
  BY DEF Ask, doGetStorageInfo, doGetObjectInfo, doGetObjectPropValue,
         doGetObject, doGetPartialObject, storageVars
<1>2. /\ entry.size \in Nat /\ entry.size < W64
      /\ edit.size \in Nat /\ edit.size < W64 /\ mMaxCapacity \in {0, Capacity}
  BY DEF Inv, Typed, SpaceInv, Spaced
<1>3. entry.size % W32 \in 0 .. W64 - 1
  <2>1. entry.size % W32 \in 0 .. W32 - 1
    BY <1>2, Bounds
  <2> QED
    BY <2>1, Bounds
<1>4. CASE doGetStorageInfo
  <2>1. PICK c \in getMaxCapacity, f \in FreeSpace :
          /\ mMaxCapacity' = IF c = W64 - 1 THEN mMaxCapacity ELSE c
          /\ answer' = Response("GetStorageInfo", "OK", f, <<>>, 0, c)
    BY <1>4 DEF doGetStorageInfo
  <2>2. mMaxCapacity' \in {0, Capacity} /\ (~StatfsFails => c = Capacity)
    BY <2>1, CapacityBounds DEF SpaceInv
  <2>3. f \in 0 .. W64 - 1 /\ (~StatfsFails => f <= free)
    BY FreeSpaceBounds DEF SpaceInv
  <2>4. ~StatfsFails => f <= c
    <3>1. free \in Nat /\ free <= Capacity
      BY UsedBytes, Bounds, SMTT(30) DEF SpaceInv, Spaced, Inv, Typed
    <3> QED
      BY <2>2, <2>3, <3>1, Bounds
  <2>5. answer'.number = f /\ answer'.length = c
    BY <2>1 DEF Response
  <2> QED
    BY <1>1, <1>2, <2>2, <2>3, <2>4, <2>5, SpaceQuiet
<1>5. CASE doGetObjectInfo \/ doGetObjectPropValue
  <2>1. CompressedSize \in 0 .. W64 - 1
    BY <1>2, <1>3, Bounds DEF CompressedSize, Smaller
  <2>2. /\ answer'.number \in 0 .. W64 - 1 /\ answer'.op # "GetStorageInfo"
        /\ mMaxCapacity' = mMaxCapacity
    BY <1>3, <1>5, <2>1 DEF doGetObjectInfo, doGetObjectPropValue,
       AnswerNumber, Response, storageVars
  <2> QED
    BY <1>1, <1>2, <2>2, SpaceQuiet
<1>6. ASSUME NEW op \in Reads, NEW offset, NEW asked, NEW n \in 0 .. W64 - 1,
             AnswerRange(op, offset, asked, n), mMaxCapacity' = mMaxCapacity
      PROVE  SpaceInv'
  <2>1. answer'.number \in 0 .. W64 - 1 /\ answer'.op # "GetStorageInfo"
    BY <1>6, Bounds DEF AnswerRange, Answer, Response, Reads
  <2> QED
    BY <1>1, <1>2, <1>6, <2>1, SpaceQuiet
<1>7. CASE doGetObject
  BY <1>2, <1>6, <1>7, Bounds DEF doGetObject, Reads, storageVars
<1>8. ASSUME NEW offset \in 0 .. W64 - 1, NEW n \in 0 .. W32 - 1,
             doGetPartialObject(offset, n)
      PROVE  SpaceInv'
  <2>1. PartialLength(offset, n, entry.size) \in 0 .. W64 - 1
    <3> DEFINE left == entry.size - offset
    <3>1. left \in Int /\ n \in 0 .. W64 - 1
      BY <1>2, Bounds
    <3> HIDE DEF left
    <3>2. left % W32 \in 0 .. W32 - 1
      BY <3>1, Bounds
    <3>3. left % W32 \in 0 .. W64 - 1
      BY <3>2, Bounds
    <3> QED
      BY <3>1, <3>3 DEF PartialLength, left
  <2> QED
    BY <1>6, <1>8, <2>1 DEF doGetPartialObject, Reads, storageVars
<1> QED
  BY <1>4, <1>5, <1>7, <1>8 DEF Ask

(* What the blocks of the file's new bytes take is there to be taken.      *)
LEMMA RoomKept ==
  ASSUME Inv, SpaceInv, NEW f \in Bytes, Used(f) <= Used(file) + free, Becomes(f)
  PROVE  /\ file' = f /\ exists' = TRUE /\ modified' \in BOOLEAN
         /\ Used(file) \in Nat /\ Used(f) \in Nat /\ free' \in Nat
         /\ free' + Used(f) = free + Used(file)
         /\ free' + Used(f) <= Capacity
<1>1. Used(f) \in Nat /\ Used(file) \in Nat /\ free \in Nat
  BY UsedBytes DEF Inv, Typed, SpaceInv, Spaced
<1>2. free' = free + Used(file) - Used(f) /\ free + Used(file) <= Capacity
  BY DEF Becomes, SpaceInv, Spaced
<1>3. modified' \in BOOLEAN
  BY DEF Becomes
<1>4. file' = f /\ exists' = TRUE
  BY DEF Becomes
<1> QED
  BY <1>1, <1>2, <1>3, <1>4, Bounds

(* A reservation is weighed against the limit and the space.               *)
LEMMA SpaceInfo ==
  ASSUME Inv, SpaceInv, NEW n \in 0 .. MaxLength, doSendObjectInfo(n)
  PROVE  SpaceInv'
<1>1. PICK space \in FreeSpace :
        LET result == InfoResult(Announced(n), space) IN
        /\ Answer(result)
        /\ IF result = "OK"
           THEN /\ mSend' = Entry(Announced(n)) /\ entry' = mSend'
                /\ length' = n
           ELSE Forget /\ UNCHANGED <<entry, length>>
  BY DEF doSendObjectInfo
<1>2. /\ Idle /\ writes < MaxWrites
      /\ UNCHANGED <<object, modified, edit, storageVars, call, meant, known,
                     writes>>
  BY DEF doSendObjectInfo
<1>3. answer'.number \in 0 .. W64 - 1 /\ answer'.op = "none"
  BY <1>1, Bounds DEF Answer, Response
<1>4. n \in Nat /\ Announced(n) \in Nat /\ Announced(n) < W64 /\ n <= MaxLength
      /\ (Announced(n) < W32 - 1 => Announced(n) = n)
  BY Bounds DEF Announced, Smaller
<1>5. CASE InfoResult(Announced(n), space) = "OK"
  <2>1. /\ mSend' = Entry(Announced(n)) /\ entry' = mSend' /\ length' = n
    BY <1>1, <1>5
  <2>2. mSend'.there /\ mSend'.size = Announced(n) /\ entry'.size = Announced(n)
    BY <2>1 DEF Entry
  <2>3. /\ ~(Announced(n) > space)
        /\ mMaxFileSize # 0 =>
             ~(Announced(n) > mMaxFileSize) /\ Announced(n) # W32 - 1
    BY <1>5 DEF InfoResult
  <2>4. Spaced'
    <3>1. Used(file)' = Used(file)
      BY <1>2 DEF object
    <3>2. writes' < MaxWrites /\ length' <= MaxLength
      BY <1>2, <1>4, <2>1
    <3>3. call'.op = "none"
      BY <1>2 DEF Idle, NoCall
    <3> QED
      BY <1>2, <1>3, <1>4, <2>2, <3>1, <3>2, <3>3
         DEF SpaceInv, Spaced, object, storageVars
  <2>5. Announcement'
    <3>1. mMaxFileSize' = mMaxFileSize /\ mMaxFileSize \in Nat
      BY <1>2, TransfersAssumption DEF storageVars, SpaceInv, Spaced
    <3>2. mMaxFileSize' # 0 =>
            mSend'.size <= mMaxFileSize' /\ mSend'.size # W32 - 1
      BY <1>4, <2>2, <2>3, <3>1
    <3>3. call'.op # "SendObject"
      BY <1>2 DEF Idle, NoCall
    <3> QED
      BY <2>1, <2>2, <3>2, <3>3 DEF Announcement
  <2>6. ~StatfsFails /\ mSend'.size < W32 - 1 /\ length' > 0
          => free' + Used(file)' >= ReserveSpace + length'
    <3>1. Used(file) \in Nat /\ free \in Nat
      BY UsedBytes DEF Inv, Typed, SpaceInv, Spaced
    <3>2. free' = free /\ Used(file)' = Used(file)
      BY <1>2 DEF object
    <3>3. /\ space \in 0 .. W64 - 1
          /\ ~StatfsFails /\ space > 0 => space + ReserveSpace <= free
      BY FreeSpaceBounds DEF SpaceInv
    <3> QED
      BY <1>4, <2>1, <2>2, <2>3, <3>1, <3>2, <3>3, Bounds
  <2>7. Weighed'
    BY <1>2, <2>6 DEF SpaceInv, Weighed, Idle, NoCall, object
  <2> QED
    BY <2>4, <2>5, <2>7 DEF SpaceInv
<1>6. CASE InfoResult(Announced(n), space) # "OK"
  <2>1. Forget /\ UNCHANGED <<entry, length>>
    BY <1>1, <1>6
  <2>2. /\ entry'.size < W64 /\ edit'.size < W64
        /\ mMaxCapacity' \in {0, Capacity}
    BY <1>2, <2>1 DEF SpaceInv, Spaced, storageVars
  <2>3. /\ call' = call
        /\ UNCHANGED <<object, modified, hostVars, mMaxFileSize>>
    BY <1>2, <2>1 DEF hostVars, storageVars
  <2> QED
    BY <1>2, <1>3, <2>1, <2>2, <2>3, SpaceQuiet
<1> QED
  BY <1>5, <1>6

LEMMA SpaceRefused == Inv /\ SpaceInv /\ doSendObjectRefused => SpaceInv'
<1> SUFFICES ASSUME Inv, SpaceInv, doSendObjectRefused PROVE SpaceInv'
  OBVIOUS
<1>1. /\ Idle /\ Forget /\ call' = call
      /\ UNCHANGED <<object, modified, edit, storageVars, hostVars>>
      /\ entry' = NoEntry \/ entry' = entry
      /\ answer'.number = 0 /\ answer'.op = "none"
  BY DEF doSendObjectRefused, Forget, Answer, Response
<1>2. /\ entry'.size < W64 /\ edit'.size < W64 /\ mMaxCapacity' \in {0, Capacity}
      /\ UNCHANGED mMaxFileSize /\ answer'.number \in 0 .. W64 - 1
  BY <1>1, Bounds DEF SpaceInv, Spaced, NoEntry, storageVars
<1> QED
  BY <1>1, <1>2, SpaceQuiet

(* The first bytes start the file, and are cut short on a full medium      *)
(* only.                                                                   *)
LEMMA SpaceBegin == Inv /\ SpaceInv /\ doSendObject => SpaceInv'
<1> SUFFICES ASSUME Inv, SpaceInv, doSendObject PROVE SpaceInv'
  OBVIOUS
<1> DEFINE data == Data(writes + 1, length)
<1>0. PICK initial \in Initial(length) :
        \E n \in Written(<<>>, 0, First(data, initial)) :
          /\ Becomes(First(data, n))
          /\ call' = [op |-> "SendObject", data |-> data, offset |-> 0,
                      initial |-> initial, ret |-> WriteResult(initial, n)]
  BY DEF doSendObject
<1>1. PICK n \in Written(<<>>, 0, First(data, initial)) :
        /\ Becomes(First(data, n))
        /\ call' = [op |-> "SendObject", data |-> data, offset |-> 0,
                    initial |-> initial, ret |-> WriteResult(initial, n)]
  BY <1>0
<1>2. /\ Idle /\ mSend.there /\ writes' = writes + 1
      /\ UNCHANGED <<entry, mSend, edit, storageVars, answer, length, meant, known>>
  BY DEF doSendObject
<1>3. /\ data \in Bytes /\ Len(data) = length
      /\ length \in Nat /\ length <= MaxLength /\ writes \in Nat
  BY DataBytes DEF Inv, Typed, SpaceInv, Spaced
<1>4. \A i \in 1 .. length : data[i] # Hole
  BY <1>3 DEF Data, Hole
<1> HIDE DEF data
<1>5. /\ initial \in Nat /\ initial <= length
      /\ initial \in Initial(length)
  BY <1>3, Bounds DEF Initial, Smaller
<1>6. /\ First(data, initial) \in Bytes /\ Len(First(data, initial)) = initial
  <2>1. Smaller(initial, length) = initial
    BY <1>3, <1>5 DEF Smaller
  <2> QED
    BY <1>3, <1>5, <2>1, FirstBytes
<1>7. /\ n \in 0 .. initial
      /\ Fits(<<>>, 0, First(First(data, initial), n))
      /\ n < initial => ~Fits(<<>>, 0, First(First(data, initial), n + 1))
  BY <1>6 DEF Written
<1>8. ASSUME NEW k \in 0 .. initial
      PROVE  /\ First(First(data, initial), k) = First(data, k)
             /\ First(data, k) \in Bytes /\ Len(First(data, k)) = k
             /\ Used(First(data, k)) = k
             /\ \A i \in 1 .. k : First(data, k)[i] = data[i]
             /\ Overwrite(<<>>, 0, First(data, k)) = First(data, k)
  <2>1. k \in Nat /\ k \in 0 .. Len(First(data, initial))
    BY <1>5, <1>6
  <2>2. /\ First(First(data, initial), k) = First(data, k)
        /\ Len(First(data, k)) = k
        /\ \A i \in 1 .. k : First(data, k)[i] = data[i]
    BY <1>3, <1>5, <2>1, FirstFirst
  <2>3. First(data, k) \in Bytes
    BY <1>3, <2>1, FirstBytes
  <2>4. \A i \in 1 .. k : i \in 1 .. length
    BY <1>3, <1>5
  <2>5. Used(First(data, k)) = k
    BY <1>4, <2>2, <2>3, <2>4, UsedAll
  <2> QED
    BY <2>2, <2>3, <2>5, OverwriteEmpty
<1>9. file = <<>> /\ free \in Nat /\ Used(file) = 0
  <2>1. file = <<>>
    BY <1>2 DEF Inv, Ordered, SpaceInv, Spaced, Idle
  <2>2. file \in Bytes /\ Len(file) = 0
    BY <2>1 DEF Inv, Typed
  <2>3. Used(file) \in Nat /\ Used(file) <= 0
    BY <2>2, UsedBytes
  <2> QED
    BY <2>1, <2>3 DEF SpaceInv, Spaced
<1>10. n <= free
  <2>1. Used(Overwrite(<<>>, 0, First(First(data, initial), n)))
          <= Used(<<>>) + free
    BY <1>7 DEF Fits
  <2> QED
    BY <1>7, <1>8, <1>9, <2>1
<1>11. n < initial => free < n + 1
  <2> SUFFICES ASSUME n < initial PROVE free < n + 1
    OBVIOUS
  <2>1. n + 1 \in 0 .. initial
    BY <1>5, <1>7
  <2>2. ~(/\ 0 + Len(First(First(data, initial), n + 1)) <= MaxLength
          /\ Used(Overwrite(<<>>, 0, First(First(data, initial), n + 1)))
               <= Used(<<>>) + free)
    BY <1>7 DEF Fits
  <2>3. ~(/\ 0 + (n + 1) <= MaxLength
          /\ n + 1 <= 0 + free)
    BY <1>8, <1>9, <2>1, <2>2
  <2> QED
    BY <1>3, <1>5, <1>7, <1>9, <2>3, Bounds
<1>12. /\ file' = First(data, n) /\ Len(file') = n /\ Used(file') = n
       /\ free' \in Nat /\ free' + n = free /\ free' + n <= Capacity
       /\ exists' = TRUE /\ modified' \in BOOLEAN
       /\ \A i \in 1 .. n : file'[i] = data[i]
  <2>1. /\ First(data, n) \in Bytes /\ Len(First(data, n)) = n
        /\ Used(First(data, n)) = n
        /\ \A i \in 1 .. n : First(data, n)[i] = data[i]
    BY <1>7, <1>8
  <2>2. Used(First(data, n)) <= Used(file) + free
    BY <1>7, <1>9, <1>10, <2>1
  <2> DEFINE start == First(data, n)
  <2>3. start \in Bytes /\ Used(start) <= Used(file) + free /\ Becomes(start)
    BY <1>1, <2>1, <2>2
  <2>4. Len(start) = n /\ Used(start) = n /\ \A i \in 1 .. n : start[i] = data[i]
    BY <2>1
  <2> HIDE DEF start
  <2>5. /\ file' = start /\ exists' = TRUE /\ modified' \in BOOLEAN
        /\ free' \in Nat /\ free' + Used(start) = free + Used(file)
        /\ free' + Used(start) <= Capacity
    BY <2>3, RoomKept
  <2>6. file' = First(data, n)
    BY <2>5 DEF start
  <2>7. free' + n = free /\ free' + n <= Capacity
    BY <1>9, <2>4, <2>5
  <2> QED
    BY <2>4, <2>5, <2>6, <2>7
<1>13. /\ call'.op = "SendObject" /\ call'.data = data /\ call'.initial = initial
  BY <1>1
<1>14. Spaced'
  <2>1. writes' <= MaxWrites
    BY <1>2, <1>3, Bounds DEF SpaceInv, Spaced, Idle, NoCall
  <2>2. Used(file)' = n
    BY <1>12
  <2> QED
    BY <1>2, <1>12, <1>13, <2>1, <2>2 DEF SpaceInv, Spaced, storageVars
<1>15. Announcement'
  <2>1. mMaxFileSize' = mMaxFileSize
    BY <1>2 DEF storageVars
  <2>2. Len(file') <= initial
    BY <1>5, <1>7, <1>12
  <2> QED
    BY <1>2, <1>3, <1>5, <1>13, <2>1, <2>2 DEF SpaceInv, Announcement
<1>16. Weighed'
  <2>1. Used(file)' = n
    BY <1>12
  <2>2. ~StatfsFails /\ ~Others =>
          (mSend'.there /\ mSend'.size < W32 - 1 /\ length' > 0
             => free' + Used(file)' >= ReserveSpace + length')
    BY <1>2, <1>9, <1>12, <2>1, Bounds DEF SpaceInv, Weighed
  <2>3. \A i \in 1 .. length' : call'.data[i] # Hole
    BY <1>2, <1>4, <1>13
  <2>4. \A i \in 1 .. Len(file') : file'[i] = call'.data[i]
    BY <1>12, <1>13
  <2>5. Len(file') < call'.initial => free' = 0
    BY <1>7, <1>11, <1>12, <1>13
  <2> QED
    BY <1>13, <2>2, <2>3, <2>4, <2>5 DEF Weighed
<1> QED
  BY <1>14, <1>15, <1>16 DEF SpaceInv

(* What is asked for is the rest of the object, known size or not.         *)
LEMMA AskedRest ==
  ASSUME Inv, SpaceInv, call.op = "SendObject"
  PROVE  /\ call.data \in Bytes /\ Len(call.data) = length
         /\ length \in Nat /\ call.initial \in Nat /\ Len(file) \in Nat
         /\ Len(file) <= call.initial /\ call.initial <= length
         /\ mSend.there /\ mSend.size = Announced(length)
         /\ Remaining = 0 => mSend.size < W32 - 1 /\ call.initial = length
         /\ Remaining # 0 =>
              /\ call.initial < length
              /\ Asked = Rest(call.data, call.initial)
<1>1. /\ call.data \in Bytes /\ call.initial \in Nat /\ length \in Nat
      /\ file \in Bytes /\ mSend.there
  BY DEF Inv, Typed, Ordered
<1>2. /\ Len(call.data) = length /\ call.initial \in Initial(length)
      /\ Len(file) <= call.initial /\ mSend.size = Announced(length)
  BY <1>1 DEF SpaceInv, Announcement
<1>3. /\ call.initial <= length /\ call.initial <= Buffer /\ Len(file) \in Nat
  BY <1>1, <1>2, Bounds DEF Initial, Smaller, Bytes
<1>4. /\ mSend.size \in Nat /\ mSend.size <= W32 - 1 /\ call.initial <= mSend.size
      /\ mSend.size < W32 - 1 => mSend.size = length
      /\ mSend.size = W32 - 1 => call.initial < length
  BY <1>1, <1>2, <1>3, Bounds DEF Announced, Smaller
<1>5. Remaining = mSend.size - call.initial
  <2> DEFINE r == mSend.size - call.initial
  <2>1. r \in Nat /\ r < W64
    BY <1>1, <1>4, Bounds
  <2> HIDE DEF r
  <2>2. r % W64 = r
    BY <2>1, Remainder
  <2> QED
    BY <2>2 DEF r, Remaining
<1>6. Remaining = 0 => mSend.size < W32 - 1 /\ call.initial = length
  BY <1>1, <1>3, <1>4, <1>5, Bounds
<1>7. ASSUME Remaining # 0
      PROVE  call.initial < length /\ Asked = Rest(call.data, call.initial)
  <2> DEFINE rest == Rest(call.data, call.initial)
  <2>1. call.initial < length
    BY <1>1, <1>4, <1>5, <1>7, Bounds
  <2>2. rest \in Bytes /\ Len(rest) = length - call.initial
    <3>1. Smaller(call.initial, length) = call.initial
      BY <1>1, <2>1 DEF Smaller
    <3> QED
      BY <1>1, <1>2, <3>1, RestBytes
  <2>3. Asked = IF mSend.size = W32 - 1 THEN rest ELSE First(rest, Remaining)
    BY DEF Asked
  <2> HIDE DEF rest
  <2>4. CASE mSend.size = W32 - 1
    BY <2>1, <2>3, <2>4 DEF rest
  <2>5. CASE mSend.size # W32 - 1
    <3>1. Remaining = Len(rest)
      BY <1>4, <1>5, <2>2, <2>5, Bounds
    <3>2. rest = [i \in 1 .. Len(rest) |-> rest[i]]
      BY <2>2 DEF Bytes
    <3>3. First(rest, Remaining) = rest
      BY <3>1, <3>2 DEF First, Smaller
    <3> QED
      BY <2>1, <2>3, <2>5, <3>3 DEF rest
  <2> QED
    BY <2>4, <2>5
<1> QED
  BY <1>1, <1>2, <1>3, <1>6, <1>7

(* An object received is no longer than announced; if it was weighed and   *)
(* others left the space alone, it is all that was sent.                   *)
LEMMA Received ==
  ASSUME Inv, SpaceInv, receiveObject
  PROVE  /\ file' \in Bytes /\ Len(file') \in Nat /\ Len(file') <= length
         /\ exists' \in BOOLEAN /\ modified' \in BOOLEAN
         /\ ~exists' => file' = <<>>
         /\ free' \in Nat /\ Used(file') \in Nat
         /\ free' + Used(file') = free + Used(file)
         /\ free' + Used(file') <= Capacity
         /\ ~StatfsFails /\ ~Others => file' = call.data
<1>1. call.op = "SendObject"
  BY DEF receiveObject
<1>2. /\ call.data \in Bytes /\ Len(call.data) = length
      /\ length \in Nat /\ call.initial \in Nat /\ Len(file) \in Nat
      /\ Len(file) <= call.initial /\ call.initial <= length
      /\ mSend.there /\ mSend.size = Announced(length)
  BY <1>1, AskedRest
<1>3. /\ file \in Bytes /\ Used(file) \in Nat /\ Used(file) <= Len(file)
      /\ free \in Nat /\ ReserveSpace \in Nat
  BY UsedBytes, Bounds DEF Inv, Typed, SpaceInv, Spaced
<1>4. ~StatfsFails /\ ~Others =>
        /\ \A i \in 1 .. length : call.data[i] # Hole
        /\ \A i \in 1 .. Len(file) : file[i] = call.data[i]
        /\ Len(file) < call.initial => free = 0
  BY <1>1 DEF SpaceInv, Weighed
<1>5. ASSUME NEW f \in Bytes, Len(f) = length,
             \A i \in 1 .. length : f[i] = call.data[i]
      PROVE  f = call.data
  <2>1. f = [i \in 1 .. length |-> f[i]]
    BY <1>5 DEF Bytes
  <2>2. call.data = [i \in 1 .. length |-> call.data[i]]
    BY <1>2 DEF Bytes
  <2> QED
    BY <1>5, <2>1, <2>2
<1>6. CASE Remaining = 0
  <2>1. call.initial = length /\ mSend.size < W32 - 1
    BY <1>1, <1>6, AskedRest
  <2>2. UNCHANGED <<file, exists, free, modified>>
    BY <1>6 DEF receiveObject, object
  <2>3. ASSUME ~StatfsFails, ~Others PROVE file = call.data
    <3>1. Len(file) = length
      <4>1. SUFFICES ASSUME Len(file) < length PROVE FALSE
        BY <1>2, <2>1
      <4>2. free = 0 /\ length > 0
        BY <1>2, <1>4, <2>1, <2>3, <4>1
      <4>3. free + Used(file) >= ReserveSpace + length
        BY <1>2, <2>1, <2>3, <4>2 DEF SpaceInv, Weighed
      <4> QED
        BY <1>2, <1>3, <4>1, <4>2, <4>3
    <3>2. \A i \in 1 .. length : file[i] = call.data[i]
      BY <1>4, <2>3, <3>1
    <3> QED
      BY <1>3, <1>5, <3>1, <3>2
  <2> QED
    BY <1>2, <1>3, <2>2, <2>3 DEF SpaceInv, Spaced
<1>7. CASE Remaining # 0
  <2> DEFINE rest == Rest(call.data, call.initial)
             whole == Overwrite(file, call.initial, rest)
  <2>1. call.initial < length /\ Asked = rest
    BY <1>1, <1>7, AskedRest
  <2>2. Fits(file, call.initial, rest) /\ Becomes(whole)
    BY <1>7, <2>1 DEF receiveObject
  <2>3. /\ rest \in Bytes /\ Len(rest) = length - call.initial
        /\ \A i \in 1 .. length - call.initial :
             rest[i] = call.data[i + call.initial]
    <3>1. Smaller(call.initial, length) = call.initial
      BY <1>2 DEF Smaller
    <3>2. rest \in Bytes /\ Len(rest) = length - call.initial
      BY <1>2, <3>1, RestBytes
    <3> QED
      BY <1>2, <3>1, <3>2 DEF Rest
  <2> HIDE DEF rest
  <2>4. rest # <<>>
    BY <1>2, <2>1, <2>3
  <2>5. Larger(Len(file), call.initial + Len(rest)) = length
    BY <1>2, <2>3 DEF Larger
  <2>6. whole \in Bytes /\ Len(whole) = length
    BY <1>2, <1>3, <2>3, <2>4, <2>5, OverwriteBytes
  <2>7. \A i \in 1 .. length :
          whole[i] = IF call.initial < i THEN call.data[i]
                     ELSE IF i <= Len(file) THEN file[i] ELSE Hole
    <3>1. whole = [i \in 1 .. length |->
                     IF call.initial < i /\ i <= call.initial + Len(rest)
                     THEN rest[i - call.initial]
                     ELSE IF i <= Len(file) THEN file[i] ELSE Hole]
      BY <2>4, <2>5 DEF Overwrite
    <3>2. ASSUME NEW i \in 1 .. length, call.initial < i
          PROVE  i <= call.initial + Len(rest)
                 /\ rest[i - call.initial] = call.data[i]
      <4>1. i - call.initial \in 1 .. length - call.initial
            /\ (i - call.initial) + call.initial = i
        BY <1>2, <3>2
      <4>2. rest[i - call.initial] = call.data[(i - call.initial) + call.initial]
        BY <2>3, <4>1
      <4> QED
        BY <1>2, <2>3, <4>1, <4>2
    <3> QED
      BY <3>1, <3>2
  <2>8. Used(whole) <= Used(file) + free
    BY <2>2 DEF Fits
  <2> HIDE DEF whole
  <2>9. /\ file' = whole /\ exists' = TRUE /\ modified' \in BOOLEAN
        /\ Used(whole) \in Nat /\ free' \in Nat
        /\ free' + Used(whole) = free + Used(file)
        /\ free' + Used(whole) <= Capacity
    BY <2>2, <2>6, <2>8, RoomKept
  <2>10. ASSUME ~StatfsFails, ~Others PROVE whole = call.data
    <3>1. Len(file) = call.initial
      <4>1. SUFFICES ASSUME Len(file) < call.initial PROVE FALSE
        BY <1>2
      <4>2. free = 0
        BY <1>4, <2>10, <4>1
      <4>3. length \in Blocks(whole) /\ length \notin Blocks(file)
        <5>1. length \in 1 .. length /\ call.data[length] # Hole
              /\ whole[length] = call.data[length]
          BY <1>2, <1>4, <2>1, <2>7, <2>10
        <5>2. length \notin 1 .. Len(file)
          BY <1>2, <2>1, <4>1
        <5> QED
          BY <2>6, <5>1, <5>2 DEF Blocks
      <4>4. Blocks(file) \subseteq Blocks(whole)
        <5>1. \A i \in 1 .. Len(file) : i \in 1 .. length /\ whole[i] = file[i]
          BY <1>2, <2>1, <2>7, <4>1
        <5> QED
          BY <2>6, <5>1 DEF Blocks
      <4>5. Used(whole) >= Used(file) + 1
        BY <1>3, <2>6, <4>3, <4>4, UsedMore
      <4> QED
        BY <1>3, <2>8, <2>9, <4>2, <4>5
    <3>2. \A i \in 1 .. length : whole[i] = call.data[i]
      <4>1. \A i \in 1 .. length : ~(call.initial < i) => i \in 1 .. Len(file)
        BY <1>2, <3>1
      <4> QED
        BY <1>2, <1>4, <2>7, <2>10, <4>1
    <3> QED
      BY <1>5, <2>6, <3>2
  <2> QED
    BY <1>2, <2>6, <2>9, <2>10
<1> QED
  BY <1>6, <1>7

LEMMA SpaceReceived == Inv /\ SpaceInv /\ receiveObject => SpaceInv'
<1> SUFFICES ASSUME Inv, SpaceInv, receiveObject PROVE SpaceInv'
  OBVIOUS
<1>1. /\ call' = NoCall /\ mSend' = NoEntry /\ entry' = Entry(Len(file'))
      /\ length' = 0 /\ meant' = call.data /\ known' = TRUE
      /\ answer'.op = "none" /\ answer'.number = 0
      /\ UNCHANGED <<edit, storageVars, writes>>
  BY DEF receiveObject, EndSend, Answer, Response
<1>2. /\ file' \in Bytes /\ Len(file') \in Nat /\ Len(file') <= length
      /\ exists' \in BOOLEAN /\ modified' \in BOOLEAN
      /\ ~exists' => file' = <<>>
      /\ free' \in Nat /\ Used(file') \in Nat
      /\ free' + Used(file') <= Capacity
      /\ ~StatfsFails /\ ~Others => file' = call.data
  BY Received
<1>3. /\ length \in Nat /\ length <= MaxLength /\ call.data \in Bytes
      /\ writes <= MaxWrites /\ edit.size < W64
  BY DEF Inv, Typed, SpaceInv, Spaced
<1>4. /\ entry'.size < W64 /\ mSend'.size < W64 /\ ~mSend'.there
      /\ call'.op = "none"
  BY <1>1, <1>2, <1>3, Bounds DEF Entry, NoEntry, NoCall
<1>5. Spaced'
  <2>1. Used(file)' = Used(file')
    OBVIOUS
  <2> QED
    BY <1>1, <1>2, <1>3, <1>4, <2>1, Bounds DEF SpaceInv, Spaced, storageVars
<1>6. Announcement' /\ Weighed'
  BY <1>1, <1>2, <1>4 DEF Announcement, Weighed
<1> QED
  BY <1>5, <1>6 DEF SpaceInv

LEMMA SpaceFails == Inv /\ SpaceInv /\ receiveObjectFails => SpaceInv'
<1> SUFFICES ASSUME Inv, SpaceInv, receiveObjectFails PROVE SpaceInv'
  OBVIOUS
<1>1. /\ call' = NoCall /\ mSend' = NoEntry /\ entry' = NoEntry
      /\ file' = <<>> /\ exists' = FALSE /\ free' = free + Used(file)
      /\ length' = 0 /\ meant' = <<>> /\ known' = TRUE
      /\ answer'.op = "none" /\ answer'.number = 0
      /\ UNCHANGED <<modified, edit, storageVars, writes>>
  BY DEF receiveObjectFails, Answer, Response
<1>2. /\ <<>> \in Bytes /\ Used(<<>>) = 0 /\ Used(file) \in Nat
  <2>1. <<>> \in Bytes /\ Len(<<>>) = 0
    BY DEF Bytes
  <2> QED
    BY <2>1, UsedBytes DEF Inv, Typed
<1>3. Spaced'
  <2>1. Used(file)' = 0
    BY <1>1, <1>2
  <2>2. free' \in Nat /\ free' + 0 <= Capacity
    BY <1>1, <1>2, Bounds DEF SpaceInv, Spaced
  <2>3. /\ free' + Used(file)' <= Capacity /\ exists' \in BOOLEAN
        /\ meant' \in Bytes /\ known' \in BOOLEAN
    BY <1>1, <1>2, <2>1, <2>2
  <2>4. modified' \in BOOLEAN
    BY <1>1 DEF SpaceInv, Spaced
  <2>5. /\ entry'.size < W64 /\ mSend'.size < W64 /\ ~mSend'.there
        /\ call'.op = "none" /\ answer'.number \in 0 .. W64 - 1
        /\ length' <= MaxLength
    BY <1>1, Bounds DEF NoEntry, NoCall
  <2>6. /\ edit'.size < W64 /\ writes' <= MaxWrites
        /\ mMaxCapacity' \in {0, Capacity} /\ mMaxFileSize' \in MaxFileSizes
    BY <1>1 DEF SpaceInv, Spaced, storageVars
  <2> QED
    BY <1>1, <2>2, <2>3, <2>4, <2>5, <2>6 DEF Spaced
<1>4. Announcement' /\ Weighed'
  BY <1>1 DEF Announcement, Weighed, NoEntry, NoCall
<1> QED
  BY <1>3, <1>4 DEF SpaceInv

(* Steps of an edit: no object is sent, and the file's bytes fit.          *)
LEMMA SpaceEdited ==
  ASSUME Inv, SpaceInv, NEW f \in Bytes, Used(f) <= Used(file) + free,
         Becomes(f) \/ (f = file /\ UNCHANGED <<object, modified>>),
         edit.open, UNCHANGED <<storageVars, length, entry>>,
         ~mSend'.there, mSend'.size < W64, edit'.size < W64,
         call'.op # "SendObject",
         call'.op = "SendPartialObject" =>
           call'.offset + Len(call'.data) <= MaxLength,
         answer'.number \in 0 .. W64 - 1, answer'.op # "GetStorageInfo",
         meant' \in Bytes, known' \in BOOLEAN, writes' <= MaxWrites,
         ~StatfsFails /\ ~Others /\ SplitHeader /\ known' => f = meant'
  PROVE  SpaceInv'
<1>1. /\ file' = f /\ exists' = TRUE /\ modified' \in BOOLEAN
      /\ free' \in Nat /\ free' + Used(f) <= Capacity
  <2>1. CASE Becomes(f)
    BY <2>1, RoomKept
  <2>2. CASE f = file /\ UNCHANGED <<object, modified>>
    <3>1. /\ file' = file /\ exists' = exists /\ free' = free
          /\ modified' = modified
      BY <2>2 DEF object
    <3>2. exists /\ exists \in BOOLEAN
      BY DEF Inv, Ordered, SpaceInv, Spaced
    <3>3. /\ modified \in BOOLEAN /\ free \in Nat
          /\ free + Used(file) <= Capacity
      BY DEF SpaceInv, Spaced
    <3>4. exists = TRUE
      BY <3>2
    <3> QED
      BY <2>2, <3>1, <3>3, <3>4
  <2> QED
    BY <2>1, <2>2
<1>2. Spaced'
  <2>1. Used(file)' = Used(f)
    BY <1>1
  <2> QED
    BY <1>1, <2>1 DEF SpaceInv, Spaced, storageVars
<1>3. Announcement'
  BY DEF Announcement
<1>4. Weighed'
  BY <1>1 DEF Weighed
<1> QED
  BY <1>2, <1>3, <1>4 DEF SpaceInv

(* A part sent whole is what the host means, wherever it begins; a part    *)
(* cut short the host does not know.                                       *)
LEMMA SpacePart ==
  ASSUME Inv, SpaceInv, NEW offset \in 0 .. MaxLength, NEW k \in 0 .. MaxLength,
         doSendPartialObject(offset, k)
  PROVE  SpaceInv'
<1> DEFINE data == Data(writes + 1, k)
<1>1. PICK initial \in (IF SplitHeader THEN {0} ELSE Initial(k)) :
        \E w \in Written(file, edit.pos, First(data, initial)) :
          /\ Becomes(Overwrite(file, edit.pos, First(data, w)))
          /\ edit' = [edit EXCEPT !.pos = @ + w]
          /\ call' = [op |-> "SendPartialObject", data |-> data,
                      offset |-> offset, initial |-> initial,
                      ret |-> WriteResult(initial, w)]
  BY DEF doSendPartialObject
<1>2. PICK w \in Written(file, edit.pos, First(data, initial)) :
        /\ Becomes(Overwrite(file, edit.pos, First(data, w)))
        /\ edit' = [edit EXCEPT !.pos = @ + w]
        /\ call' = [op |-> "SendPartialObject", data |-> data,
                    offset |-> offset, initial |-> initial,
                    ret |-> WriteResult(initial, w)]
  BY <1>1
<1>3. /\ Idle /\ mSend' = NoEntry /\ writes < MaxWrites /\ writes' = writes + 1
      /\ edit.open /\ offset + k <= MaxLength
      /\ UNCHANGED <<entry, storageVars, answer, length, meant, known>>
  BY DEF doSendPartialObject, Forget
<1>4. data \in Bytes /\ Len(data) = k /\ k \in Nat
  BY Bounds, DataBytes DEF Inv, Typed
<1> HIDE DEF data
<1>5. initial \in Nat /\ (SplitHeader => initial = 0)
  BY <1>4, Bounds DEF Initial, Smaller
<1>6. /\ First(data, initial) \in Bytes /\ Len(First(data, initial)) \in Nat
      /\ (SplitHeader => Len(First(data, initial)) = 0)
  BY <1>4, <1>5, FirstBytes DEF Smaller, Bytes
<1>7. /\ w \in 0 .. Len(First(data, initial))
      /\ Fits(file, edit.pos, First(First(data, initial), w))
  BY <1>2 DEF Written
<1>8. /\ First(First(data, initial), w) = First(data, w)
      /\ w \in Nat /\ First(data, w) \in Bytes
  BY <1>4, <1>5, <1>6, <1>7, FirstFirst, FirstBytes
<1> DEFINE f == Overwrite(file, edit.pos, First(data, w))
<1>9. file \in Bytes /\ edit.pos \in Nat
  BY DEF Inv, Typed
<1>10. f \in Bytes /\ Used(f) <= Used(file) + free /\ Becomes(f)
  BY <1>2, <1>7, <1>8, <1>9, OverwriteBytes DEF Fits
<1>11. SplitHeader => f = file
  <2>1. SUFFICES ASSUME SplitHeader PROVE f = file
    OBVIOUS
  <2>2. w = 0
    BY <1>6, <1>7, <2>1
  <2>3. First(data, w) = <<>>
    BY <1>4, <2>2 DEF First, Smaller
  <2> QED
    BY <1>9, <2>3, OverwriteNothing
<1> HIDE DEF f
<1>12. ~StatfsFails /\ ~Others /\ SplitHeader /\ known => f = meant
  BY <1>3, <1>11 DEF SpaceInv, Weighed, Idle, NoCall
<1>13. edit'.size = edit.size
  BY <1>2 DEF Inv, Typed
<1>14. /\ mSend'.size < W64 /\ ~mSend'.there /\ edit'.size < W64
       /\ call'.op = "SendPartialObject"
       /\ call'.offset + Len(call'.data) <= MaxLength
  BY <1>2, <1>3, <1>4, <1>13, Bounds DEF NoEntry, SpaceInv, Spaced
<1>15. answer'.number \in 0 .. W64 - 1 /\ answer'.op # "GetStorageInfo"
  BY <1>3, Bounds DEF Idle, NoAnswer, Response
<1>16. meant' \in Bytes /\ known' \in BOOLEAN /\ writes' <= MaxWrites
  BY <1>3, Bounds DEF Inv, Typed, SpaceInv, Spaced
<1> QED
  BY <1>3, <1>10, <1>12, <1>14, <1>15, <1>16, SpaceEdited

LEMMA SpaceReceivePart ==
  ASSUME Inv, SpaceInv, receivePart \/ receivePartFails
  PROVE  SpaceInv'
<1>1. /\ call.op = "SendPartialObject" /\ call' = NoCall
      /\ UNCHANGED <<entry, mSend, storageVars, length, writes>>
  BY DEF receivePart, receivePartFails
<1>2. edit.open /\ ~mSend.there
  BY <1>1 DEF Inv, Ordered
<1>3. /\ call.data \in Bytes /\ call.offset \in Nat /\ call.initial \in Nat
      /\ file \in Bytes /\ meant \in Bytes /\ Len(call.data) \in Nat
      /\ call.offset + Len(call.data) <= MaxLength
      /\ mSend.size < W64 /\ writes <= MaxWrites
  BY <1>1 DEF Inv, Typed, SpaceInv, Spaced, Bytes
<1>4. /\ PartRest \in Bytes /\ Len(PartRest) \in Nat
      /\ Len(PartRest) <= Len(call.data)
  <2>1. /\ PartRest \in Bytes
        /\ Len(PartRest) = Len(call.data) - Smaller(call.initial, Len(call.data))
    BY <1>3, RestBytes DEF PartRest
  <2> QED
    BY <1>3, <2>1 DEF Smaller, Bytes
<1>5. /\ ~mSend'.there /\ mSend'.size < W64 /\ writes' <= MaxWrites
      /\ call'.op = "none"
  BY <1>1, <1>2, <1>3 DEF NoCall
<1> DEFINE at == call.offset + call.initial
<1>6. at \in Nat
  BY <1>3
<1> HIDE DEF at
<1>7. ASSUME NEW d \in Bytes, Fits(file, at, d)
      PROVE  /\ Overwrite(file, at, d) \in Bytes
             /\ Used(Overwrite(file, at, d)) <= Used(file) + free
  BY <1>3, <1>6, <1>7, OverwriteBytes DEF Fits
<1>8. file \in Bytes /\ Used(file) <= Used(file) + free
  BY <1>3, UsedBytes DEF SpaceInv, Spaced
<1>9. CASE receivePart
  <2> DEFINE end == call.offset + Len(call.data)
  <2>1. /\ edit' = [edit EXCEPT !.size = Larger(@, end)]
        /\ answer'.op = "SendPartialObject" /\ answer'.number = Len(PartRest)
        /\ meant' = Overwrite(meant, call.offset, call.data)
        /\ known' = known
    BY <1>9 DEF receivePart, AnswerNumber, Response
  <2>2. edit'.size < W64
    <3>1. edit \in [open : BOOLEAN, size : Nat, pos : Nat] /\ edit.size < W64
      BY DEF Inv, Typed, SpaceInv, Spaced
    <3>2. end \in Nat /\ end < W64
      BY <1>3, Bounds
    <3> HIDE DEF end
    <3>3. edit'.size = Larger(edit.size, end)
      BY <2>1, <3>1
    <3> QED
      BY <3>1, <3>2, <3>3 DEF Larger
  <2>3. answer'.number \in 0 .. W64 - 1 /\ answer'.op # "GetStorageInfo"
    BY <1>3, <1>4, <2>1, Bounds
  <2>4. meant' \in Bytes /\ known' \in BOOLEAN
    <3>1. meant' \in Bytes
      BY <1>3, <2>1, OverwriteBytes
    <3> QED
      BY <2>1, <3>1 DEF SpaceInv, Spaced
  <2>5. SplitHeader => at = call.offset /\ PartRest = call.data
    <3>1. SplitHeader => call.initial = 0
      BY <1>1 DEF Inv, EditCounted
    <3>2. call.initial = 0 => Rest(call.data, call.initial) = call.data
      <4>1. call.data = [i \in 1 .. Len(call.data) |-> call.data[i]]
        BY <1>3 DEF Bytes
      <4>2. Smaller(0, Len(call.data)) = 0
        BY <1>3 DEF Smaller
      <4>3. Rest(call.data, 0) =
              [i \in 1 .. Len(call.data) - 0 |-> call.data[i + 0]]
        BY <4>2 DEF Rest
      <4>4. Rest(call.data, 0) = [i \in 1 .. Len(call.data) |-> call.data[i]]
        BY <1>3, <4>3
      <4> QED
        BY <4>1, <4>4
    <3> QED
      BY <1>3, <3>1, <3>2 DEF at, PartRest
  <2>6. ~StatfsFails /\ ~Others /\ SplitHeader /\ known => file = meant
    BY <1>1 DEF SpaceInv, Weighed
  <2>7. CASE PartRest # <<>>
    <3> DEFINE f == Overwrite(file, at, PartRest)
    <3>1. Fits(file, at, PartRest) /\ Becomes(f)
      BY <1>9, <2>7 DEF receivePart, at
    <3>2. f \in Bytes /\ Used(f) <= Used(file) + free
      BY <1>4, <1>7, <3>1
    <3>3. ~StatfsFails /\ ~Others /\ SplitHeader /\ known' => f = meant'
      BY <2>1, <2>5, <2>6
    <3> HIDE DEF f
    <3> QED
      BY <1>1, <1>2, <1>5, <2>2, <2>3, <2>4, <3>1, <3>2, <3>3, SpaceEdited
  <2>8. CASE PartRest = <<>>
    <3>1. UNCHANGED <<object, modified>>
      BY <1>9, <2>8 DEF receivePart
    <3>2. SplitHeader => meant' = meant
      BY <1>3, <2>1, <2>5, <2>8, OverwriteNothing
    <3>3. ~StatfsFails /\ ~Others /\ SplitHeader /\ known' => file = meant'
      BY <2>1, <2>6, <3>2
    <3> QED
      BY <1>1, <1>2, <1>5, <1>8, <2>2, <2>3, <2>4, <3>1, <3>3, SpaceEdited
  <2> QED
    BY <2>7, <2>8
<1>10. CASE receivePartFails
  <2>1. /\ known' = FALSE /\ UNCHANGED <<edit, meant>>
        /\ answer'.op = "none" /\ answer'.number = 0
    BY <1>10 DEF receivePartFails, Answer, Response
  <2>2. /\ edit'.size < W64 /\ meant' \in Bytes /\ known' \in BOOLEAN
        /\ answer'.number \in 0 .. W64 - 1 /\ answer'.op # "GetStorageInfo"
    <3>1. known' \in BOOLEAN
      BY <2>1
    <3>2. edit'.size < W64 /\ meant' \in Bytes
      BY <1>3, <2>1 DEF SpaceInv, Spaced
    <3>3. answer'.number \in 0 .. W64 - 1 /\ answer'.op # "GetStorageInfo"
      BY <2>1, Bounds
    <3> QED
      BY <3>1, <3>2, <3>3
  <2>3. CASE UNCHANGED <<object, modified>>
    BY <1>1, <1>2, <1>5, <1>8, <2>1, <2>2, <2>3, SpaceEdited
  <2>4. CASE ~UNCHANGED <<object, modified>>
    <3>1. PICK n \in 0 .. Len(PartRest) :
            /\ Fits(file, at, First(PartRest, n))
            /\ Becomes(Overwrite(file, at, First(PartRest, n)))
      BY <1>10, <2>4 DEF receivePartFails, at
    <3> DEFINE f == Overwrite(file, at, First(PartRest, n))
    <3>2. First(PartRest, n) \in Bytes
      BY <1>4, FirstBytes
    <3>3. f \in Bytes /\ Used(f) <= Used(file) + free /\ Becomes(f)
      BY <1>7, <3>1, <3>2
    <3> HIDE DEF f
    <3> QED
      BY <1>1, <1>2, <1>5, <2>1, <2>2, <3>3, SpaceEdited
  <2> QED
    BY <2>3, <2>4
<1> QED
  BY <1>9, <1>10

LEMMA SpaceTruncate ==
  ASSUME Inv, SpaceInv, NEW n \in 0 .. MaxLength, doTruncateObject(n)
  PROVE  SpaceInv'
<1>1. /\ Idle /\ Forget /\ call' = call
      /\ UNCHANGED <<entry, storageVars, length, known, writes>>
      /\ answer'.op = "none" /\ answer'.number = 0
  BY DEF doTruncateObject, Answer, Response
<1>2. /\ answer'.number \in 0 .. W64 - 1 /\ answer'.op # "GetStorageInfo"
      /\ ~mSend'.there /\ mSend'.size < W64 /\ call'.op = "none"
  BY <1>1, Bounds DEF Forget, NoEntry, Idle, NoCall
<1>3. /\ n \in Nat /\ n < W64 /\ file \in Bytes /\ meant \in Bytes
      /\ free \in Nat /\ writes <= MaxWrites /\ known \in BOOLEAN
      /\ edit \in [open : BOOLEAN, size : Nat, pos : Nat]
  BY Bounds DEF Inv, Typed, SpaceInv, Spaced
<1>4. CASE ~edit.open
  <2>1. UNCHANGED <<object, modified, edit, meant>>
    BY <1>1, <1>4 DEF doTruncateObject
  <2>2. /\ UNCHANGED <<object, modified, hostVars, mMaxFileSize>>
        /\ entry'.size < W64 /\ edit'.size < W64
        /\ mMaxCapacity' \in {0, Capacity}
    BY <1>1, <2>1 DEF hostVars, storageVars, SpaceInv, Spaced
  <2> QED
    BY <1>1, <1>2, <2>2, SpaceQuiet
<1>5. CASE edit.open
  <2> DEFINE f == Resized(file, n)
  <2>1. /\ Becomes(f) /\ edit' = [edit EXCEPT !.size = n]
        /\ meant' = Resized(meant, n)
    BY <1>5 DEF doTruncateObject
  <2>2. f \in Bytes /\ Used(f) <= Used(file) + free
    <3>1. f \in Bytes /\ Used(f) \in Nat /\ Used(file) \in Nat
      BY <1>3, ResizedBytes, UsedBytes
    <3>2. Used(f) <= Used(file)
      BY <1>3, UsedResized
    <3> HIDE DEF f
    <3> QED
      BY <1>3, <3>1, <3>2
  <2>3. edit'.size < W64 /\ meant' \in Bytes
    BY <1>3, <2>1, ResizedBytes
  <2>4. ~StatfsFails /\ ~Others /\ SplitHeader /\ known => file = meant
    BY <1>1 DEF SpaceInv, Weighed, Idle, NoCall
  <2>5. ~StatfsFails /\ ~Others /\ SplitHeader /\ known' => f = meant'
    BY <1>1, <2>1, <2>4
  <2> HIDE DEF f
  <2>6. known' \in BOOLEAN /\ writes' <= MaxWrites
    BY <1>1, <1>3
  <2> QED
    BY <1>1, <1>2, <1>5, <2>1, <2>2, <2>3, <2>5, <2>6, SpaceEdited
<1> QED
  BY <1>4, <1>5

LEMMA SpaceEdit == Inv /\ SpaceInv /\ Edit => SpaceInv'
<1> SUFFICES ASSUME Inv, SpaceInv, Edit PROVE SpaceInv'
  OBVIOUS
<1>1. CASE doBeginEditObject \/ doEndEditObject \/ doSendPartialObjectRefused
  <2>1. /\ Idle /\ Forget /\ call' = call
        /\ UNCHANGED <<object, modified, storageVars, hostVars>>
        /\ answer'.op = "none" /\ answer'.number = 0
        /\ \/ entry' = entry
           \/ entry' = Entry(Len(file))
        /\ \/ edit' = edit
           \/ edit' = NoEdit
           \/ edit' = [open |-> TRUE, size |-> entry.size, pos |-> 0]
    BY <1>1 DEF doBeginEditObject, doEndEditObject, doSendPartialObjectRefused,
                Answer, Response
  <2>2. Len(file) < W64 /\ entry.size < W64 /\ edit.size < W64
    BY Bounds DEF Inv, Typed, SpaceInv, Spaced, Bytes
  <2>3. entry'.size < W64 /\ edit'.size < W64
    BY <2>1, <2>2, Bounds DEF Entry, NoEdit
  <2>4. /\ mMaxCapacity' \in {0, Capacity} /\ UNCHANGED mMaxFileSize
        /\ answer'.number \in 0 .. W64 - 1 /\ answer'.op # "GetStorageInfo"
    BY <2>1, Bounds DEF storageVars, SpaceInv, Spaced
  <2> QED
    BY <2>1, <2>3, <2>4, SpaceQuiet
<1>2. CASE receivePart \/ receivePartFails
  BY <1>2, SpaceReceivePart
<1> QED
  BY <1>1, <1>2, SpacePart, SpaceTruncate DEF Edit

(* Others keep within the medium, and away from an object that is coming.  *)
LEMMA SpaceBeside ==
  ASSUME Inv, SpaceInv, TakeAnswer \/ Modified \/ OthersUseSpace
  PROVE  SpaceInv'
<1>1. UNCHANGED <<file, exists, mSend, edit, storageVars, call, hostVars>>
  BY DEF TakeAnswer, Modified, OthersUseSpace, object
<1>2. /\ free' \in Nat /\ free' + Used(file) <= Capacity
      /\ ~Others /\ mSend.there => free' = free
  <2>1. Used(file) \in Nat /\ free \in Nat /\ free + Used(file) <= Capacity
    BY UsedBytes DEF Inv, Typed, SpaceInv, Spaced
  <2>2. free' = free \/ (free' \in 0 .. Capacity - Used(file)
                         /\ (Others \/ ~mSend.there))
    BY DEF TakeAnswer, Modified, OthersUseSpace, object
  <2> QED
    BY <2>1, <2>2, Bounds
<1>3. entry'.size < W64
  <2>1. entry' = entry \/ entry' = Entry(Len(file))
    BY DEF TakeAnswer, Modified, OthersUseSpace
  <2>2. Len(file) < W64 /\ entry.size < W64
    BY Bounds DEF Inv, Typed, SpaceInv, Spaced, Bytes
  <2> QED
    BY <2>1, <2>2 DEF Entry
<1>4. modified' \in BOOLEAN
  BY DEF TakeAnswer, Modified, OthersUseSpace, SpaceInv, Spaced
<1>5. answer' = answer \/ answer' = NoAnswer
  BY DEF TakeAnswer, Modified, OthersUseSpace
<1>6. /\ answer'.number \in 0 .. W64 - 1
      /\ answer'.op = "GetStorageInfo" =>
           StatfsFails \/ answer'.number <= answer'.length
  BY <1>5, Bounds DEF NoAnswer, Response, SpaceInv, Spaced
<1>7. Used(file)' = Used(file)
  BY <1>1
<1>8. Spaced'
  BY <1>1, <1>2, <1>3, <1>4, <1>6, <1>7
     DEF SpaceInv, Spaced, hostVars, storageVars
<1>9. Announcement'
  BY <1>1 DEF SpaceInv, Announcement, hostVars, storageVars
<1>10. Weighed'
  <2>1. call.op = "SendObject" => mSend.there
    BY DEF Inv, Ordered
  <2> QED
    BY <1>1, <1>2, <1>7, <2>1 DEF SpaceInv, Weighed, hostVars
<1> QED
  BY <1>8, <1>9, <1>10 DEF SpaceInv

LEMMA SpaceNext == Inv /\ SpaceInv /\ [Next]_vars => SpaceInv'
<1> SUFFICES ASSUME Inv, SpaceInv, [Next]_vars PROVE SpaceInv'
  OBVIOUS
<1>1. CASE Send
  BY <1>1, SpaceInfo, SpaceRefused, SpaceBegin, SpaceReceived, SpaceFails DEF Send
<1>2. CASE UNCHANGED vars
  BY <1>2 DEF vars, object, hostVars, storageVars, SpaceInv, Spaced,
              Announcement, Weighed
<1> QED
  BY <1>1, <1>2, SpaceAsk, SpaceEdit, SpaceBeside DEF Next

LEMMA SpaceHolds == Spec => []SpaceInv
BY SpaceInit, SpaceNext, InvHolds, PTL DEF Spec

-----------------------------------------------------------------------------
(* Sizes keep to 64 bits, whatever statfs says, and the medium is never    *)
(* given out twice.                                                        *)
LEMMA TransfersTyped == Inv /\ SpaceInv => TransfersTypeOK
<1> SUFFICES ASSUME Inv, SpaceInv PROVE TransfersTypeOK
  OBVIOUS
<1>1. /\ file \in Bytes /\ meant \in Bytes
      /\ {exists, modified, known} \subseteq BOOLEAN
  BY DEF Inv, Typed, SpaceInv, Spaced
<1>2. free \in 0 .. Capacity
  <2>1. Used(file) \in Nat
    BY <1>1, UsedBytes
  <2>2. free \in Nat /\ free + Used(file) <= Capacity
    BY DEF SpaceInv, Spaced
  <2> QED
    BY <2>1, <2>2, Bounds
<1>3. ASSUME NEW e \in [there : BOOLEAN, size : Nat], e.size < W64
      PROVE  e \in Entries
  BY <1>3, Bounds DEF Entries
<1>4. entry \in Entries /\ mSend \in Entries
  BY <1>3 DEF Inv, Typed, SpaceInv, Spaced
<1>5. edit \in [open : BOOLEAN, size : 0 .. W64 - 1, pos : Nat]
  <2>1. edit \in [open : BOOLEAN, size : Nat, pos : Nat] /\ edit.size < W64
    BY DEF Inv, Typed, SpaceInv, Spaced
  <2> QED
    BY <2>1, Bounds
<1>6. /\ mMaxCapacity \in 0 .. W64 - 1 /\ mMaxFileSize \in MaxFileSizes
      /\ answer.number \in 0 .. W64 - 1
      /\ length \in 0 .. MaxLength /\ writes \in 0 .. MaxWrites
  BY Bounds DEF Inv, Typed, SpaceInv, Spaced
<1> QED
  BY <1>1, <1>2, <1>4, <1>5, <1>6 DEF TransfersTypeOK, Bytes

(* The numbers keep their widths, and while statfs answers, the space a    *)
(* storage reports is within its capacity (src/MtpStorage.cpp:63).         *)
THEOREM TransfersInvHolds ==
  ASSUME StatfsFails = FALSE
  PROVE  Spec => []TransfersInv
<1>1. Inv /\ SpaceInv => TransfersInv
  <2>1. SpaceInv => SpaceConsistent
    BY DEF SpaceInv, Spaced, SpaceConsistent
  <2> QED
    BY <2>1, TransfersTyped DEF TransfersInv
<1> QED
  BY <1>1, InvHolds, SpaceHolds, PTL

(* A send ends when the rest has come or has not.                          *)
LEMMA SendEnds ==
  ASSUME Inv, [Next]_vars, call.op = "SendObject", call' = NoCall
  PROVE  receiveObject \/ receiveObjectFails
<1>1. call' # call /\ ~Idle
  BY DEF NoCall, Idle
<1>2. ~Ask /\ ~Edit
  <2>1. ~Ask
    BY <1>1 DEF Ask, doGetStorageInfo, doGetObjectInfo, doGetObjectPropValue,
       doGetObject, doGetPartialObject
  <2>2. \A offset, n \in 0 .. MaxLength :
          ~doSendPartialObject(offset, n) /\ ~doTruncateObject(n)
    BY <1>1 DEF doSendPartialObject, doTruncateObject
  <2>3. ~(receivePart \/ receivePartFails)
    BY DEF receivePart, receivePartFails
  <2>4. ~(doBeginEditObject \/ doEndEditObject \/ doSendPartialObjectRefused)
    BY <1>1 DEF doBeginEditObject, doEndEditObject, doSendPartialObjectRefused
  <2> QED
    BY <2>1, <2>2, <2>3, <2>4 DEF Edit
<1>3. ~(TakeAnswer \/ Modified \/ OthersUseSpace \/ UNCHANGED vars)
  BY <1>1 DEF TakeAnswer, Modified, OthersUseSpace, vars
<1>4. Send
  BY <1>2, <1>3 DEF Next
<1> QED
  BY <1>1, <1>4 DEF Send, doSendObjectInfo, doSendObjectRefused, doSendObject

(* What was received whole is within the storage's limit, whoever uses     *)
(* space meanwhile and whatever statfs says: a length of 0xFFFFFFFF, which *)
(* does not tell the size, was refused (src/MtpServer.cpp:912).            *)
THEOREM LimitKeptHolds == Spec => LimitKept
<1>1. Inv /\ SpaceInv /\ [Next]_vars =>
        [call.op = "SendObject" /\ call' = NoCall /\ exists' /\ mMaxFileSize # 0
           => Len(file') <= mMaxFileSize]_vars
  <2> SUFFICES ASSUME Inv, SpaceInv, [Next]_vars, call.op = "SendObject",
                      call' = NoCall, exists', mMaxFileSize # 0
               PROVE  Len(file') <= mMaxFileSize
    OBVIOUS
  <2>1. receiveObject
    BY SendEnds DEF receiveObjectFails
  <2>2. Len(file') \in Nat /\ Len(file') <= length
    BY <2>1, Received
  <2>3. /\ mSend.there /\ mSend.size = Announced(length) /\ length \in Nat
    BY AskedRest
  <2>4. /\ mSend.size <= mMaxFileSize /\ mSend.size # W32 - 1
        /\ mMaxFileSize \in Nat
    BY <2>3, TransfersAssumption DEF SpaceInv, Announcement, Spaced
  <2>5. mSend.size = length
    BY <2>3, <2>4, Bounds DEF Announced, Smaller
  <2> QED
    BY <2>2, <2>3, <2>4, <2>5
<1> QED
  BY <1>1, InvHolds, SpaceHolds, PTL DEF Spec, LimitKept

(* An object that was weighed against the space leaves the reserve, when   *)
(* statfs answered and nobody else used space while it came.               *)
THEOREM ReceivedFitsHolds ==
  ASSUME StatfsFails = FALSE, Others = FALSE
  PROVE  Spec => ReceivedFits
<1>1. Inv /\ SpaceInv /\ [Next]_vars =>
        [call.op = "SendObject" /\ call' = NoCall /\ mSend.size < W32 - 1
           /\ file' # <<>> => free' >= ReserveSpace]_vars
  <2> SUFFICES ASSUME Inv, SpaceInv, [Next]_vars, call.op = "SendObject",
                      call' = NoCall, mSend.size < W32 - 1, file' # <<>>
               PROVE  free' >= ReserveSpace
    OBVIOUS
  <2>1. receiveObject
    BY SendEnds DEF receiveObjectFails
  <2>2. /\ file' \in Bytes /\ Len(file') \in Nat /\ Len(file') <= length
        /\ free' \in Nat /\ Used(file') \in Nat
        /\ free' + Used(file') = free + Used(file)
    BY <2>1, Received
  <2>3. Used(file') <= Len(file') /\ Len(file') # 0
    BY <2>2, UsedBytes DEF Bytes
  <2>4. mSend.there /\ length \in Nat /\ length > 0
    BY <2>2, <2>3, AskedRest
  <2>5. free + Used(file) >= ReserveSpace + length
    BY <2>4 DEF SpaceInv, Weighed
  <2> QED
    BY <2>2, <2>3, <2>4, <2>5, Bounds
<1>2. Spec => ReserveKept
  BY <1>1, InvHolds, SpaceHolds, PTL DEF Spec, ReserveKept
<1> QED
  BY <1>2, LimitKeptHolds DEF ReceivedFits

(* Between requests the object is what the host means it to be: sends that *)
(* are cut short on a full medium leave nothing, and with headers in       *)
(* transfers of their own parts land at their offsets.                     *)
THEOREM ContentMeantHolds ==
  ASSUME StatfsFails = FALSE, Others = FALSE, SplitHeader = TRUE
  PROVE  Spec => []ContentMeant
<1>1. SpaceInv => ContentMeant
  BY DEF SpaceInv, Weighed, ContentMeant, NoCall
<1> QED
  BY <1>1, SpaceHolds, PTL
=============================================================================
