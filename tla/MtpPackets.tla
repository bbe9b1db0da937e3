----------------------------- MODULE MtpPackets -----------------------------
(***************************************************************************)
(* MtpPacket, MtpDataPacket and MtpStringBuffer: a buffer with an offset   *)
(* into which one side puts numbers, strings and arrays and out of which   *)
(* the other side gets them.  Nothing in a packet says where an item ends  *)
(* or what it is: reader and writer must agree on every width.             *)
(*                                                                         *)
(* A byte is a triple <<value, place, width>>: number or text, which byte  *)
(* of it, and of how many.  Numbers below 256 are bytes as they are, with  *)
(* zeros above them, so that counts and zero fields keep their exact       *)
(* layout; of larger ones a reader must take exactly the bytes written.    *)
(* A string is an identity; Characters and Astral say how long it is.      *)
(***************************************************************************)
EXTENDS Integers, SequencesExt

CONSTANTS
  Characters,   \* string -> its characters of up to three bytes in UTF-8
  Astral,       \* string -> its characters of four bytes in UTF-8
  BufferSize    \* MTP_BUFFER_SIZE

ASSUME PacketsAssumption ==
  /\ Characters \in [DOMAIN Characters -> Nat]
  /\ Astral \in [DOMAIN Characters -> Nat]
  /\ BufferSize \in Nat \ {0}

\* The types of items: a number is its width, an array minus that of its
\* elements.
UINT8 == 1
UINT16 == 2
UINT32 == 4
UINT64 == 8
UINT128 == 16
STR == 0
AUINT16 == -2
AUINT32 == -4

HEADER_SIZE == 12

\* What a reader finds who takes other bytes than were written together.
Garbage == -2
EmptyString == 0
Zero == <<0, 0, 0>>

Bytes(v, w) ==
  [i \in 1..w |-> IF v \notin 0..255 THEN <<v, i, w>>
                  ELSE IF i = 1 THEN <<v, 0, 0>> ELSE Zero]

\* The number in a sequence of bytes.
Value(bs) ==
  IF bs = Bytes(bs[1][1], Len(bs)) THEN bs[1][1] ELSE Garbage

-----------------------------------------------------------------------------
(* Putting.                                                                *)

Item(type, value) == [type |-> type, value |-> value]
Number(w, n) == Item(w, <<n>>)
String(s) == Item(STR, <<s>>)

\* MtpStringBuffer::set counts a character of four bytes as four.
CharCount(s) == Characters[s] + 4 * Astral[s]

Text(s, n) == [i \in 1..n |-> <<s, i, n>>]

\* A mutant: the count leaves out the terminator.
StringBytesUncounted(s) ==
  LET n == CharCount(s) IN
  IF n = 0 THEN <<Zero>> ELSE Bytes(n, 1) \o Text(s, 2 * (n + 1))

\* writeToPacket: the number of 16-bit units with the terminator, in a byte,
\* and the units.  Characters of four bytes become units of something else.
StringBytes(s) ==
  LET n == CharCount(s) IN
  IF n = 0 THEN <<Zero>>
  ELSE Bytes((n + 1) % 256, 1)
         \o Text(IF Astral[s] > 0 THEN Garbage ELSE s, 2 * (n + 1))

ArrayBytes(values, w) ==
  Bytes(Len(values), 4)
    \o [i \in 1..(w * Len(values)) |->
          Bytes(values[((i - 1) \div w) + 1], w)[((i - 1) % w) + 1]]

ItemBytes(item) ==
  CASE item.type = STR -> StringBytes(item.value[1])
    [] item.type < 0   -> ArrayBytes(item.value, -item.type)
    [] item.type > 0   -> Bytes(item.value[1], item.type)

\* past: a get went beyond what the packet holds; what follows is undefined.
\* got: what the gets returned so far.
Packet(bytes) ==
  [bytes |-> bytes, offset |-> HEADER_SIZE, got |-> <<>>, past |-> FALSE]

\* reset() and the first put after construction leave a header of zeros.
EmptyPacket == Packet([i \in 1..HEADER_SIZE |-> Zero])

\* put...: over what is at the offset, the packet grows when it must.
PutItem(p, item) ==
  LET bs == ItemBytes(item)
      end == p.offset + Len(bs)
  IN [p EXCEPT !.offset = end,
               !.bytes = SubSeq(@, 1, p.offset) \o bs
                           \o SubSeq(@, end + 1, Len(@))]

PutItems(p, items) == FoldLeft(PutItem, p, items)

\* write(): the container's length goes into the header.
Container(p) == Bytes(Len(p.bytes), 4) \o SubSeq(p.bytes, 5, Len(p.bytes))

-----------------------------------------------------------------------------
(* Getting.                                                                *)

\* The n bytes from the k-th after the offset on.
Ahead(p, k, n) == SubSeq(p.bytes, p.offset + k, p.offset + k + n - 1)

Holds(p, n) == p.offset + n <= Len(p.bytes)

\* A get of n bytes that returns v.
Got(p, n, v) ==
  IF Holds(p, n) THEN [p EXCEPT !.offset = @ + n, !.got = Append(@, v)]
  ELSE [p EXCEPT !.past = TRUE]

GetNumber(p, w) ==
  Got(p, w, IF Holds(p, w) THEN <<Value(Ahead(p, 1, w))>> ELSE <<>>)

\* The count in front of a string (one byte) or an array (four).
Count(p, w) ==
  IF ~Holds(p, w) THEN Len(p.bytes)
  ELSE LET n == Value(Ahead(p, 1, w)) IN
       IF n < 0 THEN Len(p.bytes) ELSE n

\* readFromPacket: as many units as the count says, the terminator included.
GetString(p) ==
  LET n == Count(p, 1)
      units == Ahead(p, 2, 2 * n)
      text == IF n = 0 THEN EmptyString
              ELSE IF units = Text(units[1][1], 2 * n) THEN units[1][1]
              ELSE Garbage
  IN Got(p, 1 + 2 * n, IF Holds(p, 1 + 2 * n) THEN <<text>> ELSE <<>>)

GetArray(p, w) ==
  LET n == Count(p, 4) IN
  Got(p, 4 + n * w,
      IF Holds(p, 4 + n * w)
      THEN [i \in 1..n |-> Value(Ahead(p, 5 + (i - 1) * w, w))] ELSE <<>>)

GetItem(p, type) ==
  CASE p.past                 -> p
    [] ~p.past /\ type = STR  -> GetString(p)
    [] ~p.past /\ type < 0    -> GetArray(p, -type)
    [] ~p.past /\ type > 0    -> GetNumber(p, type)

GetItems(p, types) == FoldLeft(GetItem, p, types)
=============================================================================
