---------------------------- MODULE MtpDatasets -----------------------------
(***************************************************************************)
(* The datasets that the two ends of a session exchange: what a request    *)
(* carries, what the responder writes (the handlers of MtpServer and the   *)
(* database) and what the initiator reads (MtpDevice and the read methods  *)
(* of the info classes), and the other way round.  The two sides share no  *)
(* description of a dataset: each is a list of puts here and a list of     *)
(* gets there.  Packets are used again and again, and keep what was in     *)
(* them.                                                                   *)
(*                                                                         *)
(* The initiator is MtpDevice or, for the operations MtpDevice lacks, an   *)
(* external program.                                                       *)
(***************************************************************************)
EXTENDS MtpPackets

CONSTANTS
  Objects,    \* records: handle, storage, format, size, parent, name
  Lists,      \* lists of handles a responder may answer with
  Forms,      \* forms a description may have; UbuntuMtpDatabase sets none
  Cuts,       \* lengths at which a bulk transfer may end
  Ops,        \* operations asked
  BriefHost,  \* other programs leave out the parameters MTP calls optional
  MaxCalls    \* bound: calls in one behaviour

\* A transfer that brings less than a header ends the call (MtpDevice).
ASSUME DatasetsAssumption ==
  /\ \A o \in Objects : o.name \in DOMAIN Characters
  /\ \A l \in Lists : \A i \in DOMAIN l : l[i] \in Nat
  /\ \A n \in Cuts : n \in Nat /\ n >= HEADER_SIZE
  /\ BriefHost \in BOOLEAN
  /\ MaxCalls \in Nat

VARIABLES
  library,    \* the initiator is MtpDevice
  call,       \* the operation and what it is about
  pc,         \* how far the transaction is
  hostData,   \* the initiator's mData
  serverData, \* the responder's mData
  params,     \* the parameters of the request as sent
  mRequest,   \* the five parameters in the responder's mRequest
  wire,       \* the pipe: the transfers sent and not read yet
  calls       \* history: calls so far

vars == <<library, call, pc, hostData, serverData, params, mRequest, wire,
          calls>>

-----------------------------------------------------------------------------
(* Properties of objects.                                                  *)

STORAGE_ID == 56321
OBJECT_FORMAT == 56322
PROTECTION_STATUS == 56323
OBJECT_SIZE == 56324
ASSOCIATION_TYPE == 56325
ASSOCIATION_DESC == 56326
OBJECT_FILE_NAME == 56327
DATE_CREATED == 56328
DATE_MODIFIED == 56329
PARENT_OBJECT == 56331
HIDDEN == 56333
PERSISTENT_UID == 56385
NON_CONSUMABLE == 56399
DISPLAY_NAME == 56544
DEVICE_FRIENDLY_NAME == 54274
ALL_PROPERTIES == -1
MTP_PARENT_ROOT == -1

ASSOCIATION == 12289

\* Strings the code puts besides the objects' names.
Extensions == 901
Manufacturer == 902
Version == 903
Description == 904
DateString == 905
Keywords == 906

AssociationType(o) == IF o.format = ASSOCIATION THEN 1 ELSE 0

Row(code, type, value) == [code |-> code, type |-> type, value |-> <<value>>]

\* What getObjectPropertyValue and getObjectPropertyList say of an object, in
\* the list's order.
Properties(o) ==
  << Row(PERSISTENT_UID, UINT128, o.handle),
     Row(STORAGE_ID, UINT32, o.storage),
     Row(PARENT_OBJECT, UINT32, o.parent),
     Row(OBJECT_FORMAT, UINT16, o.format),
     Row(OBJECT_SIZE, UINT32, o.size),
     Row(OBJECT_FILE_NAME, STR, o.name),
     Row(DISPLAY_NAME, STR, o.name),
     Row(ASSOCIATION_TYPE, UINT16, AssociationType(o)),
     Row(ASSOCIATION_DESC, UINT32, 0),
     Row(PROTECTION_STATUS, UINT16, 0),
     Row(DATE_CREATED, STR, DateString),
     Row(DATE_MODIFIED, STR, DateString),
     Row(HIDDEN, UINT16, 0),
     Row(NON_CONSUMABLE, UINT16, IF o.format = ASSOCIATION THEN 0 ELSE 1) >>

PropertyCodes == {Properties(o)[i].code : o \in Objects, i \in 1..14}

PropertyOf(o, code) ==
  CHOOSE r \in ToSet(Properties(o)) : r.code = code

\* The type with which getObjectPropertyDesc describes a property.
DescribedType(code) ==
  CASE code \in {DISPLAY_NAME, OBJECT_FILE_NAME, DATE_CREATED, DATE_MODIFIED,
                 DEVICE_FRIENDLY_NAME} -> STR
    [] code = PERSISTENT_UID -> UINT128
    [] code \in {OBJECT_FORMAT, ASSOCIATION_TYPE, PROTECTION_STATUS, HIDDEN,
                 NON_CONSUMABLE} -> UINT16
    [] code \in {STORAGE_ID, PARENT_OBJECT, OBJECT_SIZE,
                 ASSOCIATION_DESC} -> UINT32

Writeable(code) ==
  IF code \in {PARENT_OBJECT, DISPLAY_NAME, OBJECT_FILE_NAME} THEN 1 ELSE 0

\* The codes of the types.
TypeCode(type) ==
  CASE type = UINT16 -> 4 [] type = UINT32 -> 6 [] type = UINT128 -> 10
    [] type = STR -> 65535

TypesOfCode(n) ==
  {type \in {UINT16, UINT32, UINT128, STR} : TypeCode(type) = n}

IsDeviceProperty(code) == code \div 4096 = 5 \/ code \div 2048 = 26

-----------------------------------------------------------------------------
(* What the responder puts.                                                *)

kFormNone == 0
kFormRange == 1
kFormEnum == 2

\* The values of a form: minimum, maximum and step, or an enumeration.
FormValues(form) ==
  CASE form = kFormNone -> <<>> [] form = kFormRange -> <<1, 90, 2>>
    [] form = kFormEnum -> <<1, 2, 3, 4>>

DeviceInfo ==
  << Number(UINT16, 100), Number(UINT32, 6), Number(UINT16, 100),
     String(Extensions), Number(UINT16, 0),
     Item(AUINT16, <<4097, 4098, 4099>>), Item(AUINT16, <<16386, 16387>>),
     Item(AUINT16, <<54274, 54273>>), Item(AUINT16, <<12289, 14347>>),
     Item(AUINT16, <<12288, 12289>>),
     String(Manufacturer), String(Manufacturer), String(Version),
     String(Manufacturer) >>

StorageInfo ==
  << Number(UINT16, 3), Number(UINT16, 2), Number(UINT16, 0),
     Number(UINT64, 2000), Number(UINT64, 1000), Number(UINT32, 1073741824),
     String(Description), String(EmptyString) >>

ObjectInfo(o) ==
  << Number(UINT32, o.storage), Number(UINT16, o.format), Number(UINT16, 0),
     Number(UINT32, o.size), Number(UINT16, 0), Number(UINT32, 0),
     Number(UINT32, 0), Number(UINT32, 0), Number(UINT32, 0),
     Number(UINT32, 0), Number(UINT32, 0), Number(UINT32, o.parent),
     Number(UINT16, AssociationType(o)), Number(UINT32, 0),
     Number(UINT32, 0), String(o.name), String(EmptyString),
     String(DateString), String(EmptyString) >>

\* MtpProperty::write: the group code always, the form flag for properties of
\* objects only (so a form of a device property would be lost: none has one).
PropertyDesc(code, form) ==
  LET type == DescribedType(code)
      zero == Item(type, <<0>>)
  IN << Number(UINT16, code), Number(UINT16, TypeCode(type)),
        Number(UINT8, Writeable(code)), zero >>
       \o (IF IsDeviceProperty(code) THEN <<zero>> ELSE <<>>)
       \o << Number(UINT32, 0) >>
       \o (IF IsDeviceProperty(code) THEN <<>> ELSE << Number(UINT8, form) >>)
       \o (IF form = kFormEnum THEN << Number(UINT16, 4) >> ELSE <<>>)
       \o [i \in DOMAIN FormValues(form) |-> Item(type, <<FormValues(form)[i]>>)]

\* doGetObjectPropValue; the value of NON_CONSUMABLE follows a break.
PropertyValue(o, code) ==
  IF code = NON_CONSUMABLE THEN <<>>
  ELSE << Item(PropertyOf(o, code).type, PropertyOf(o, code).value) >>

\* One quadruple of a list: handle, code, type, value.
Quadruple(o, code, r) ==
  << Number(UINT32, o.handle), Number(UINT16, code),
     Number(UINT16, TypeCode(r.type)), Item(r.type, r.value) >>

\* The quadruples for one object.  The date of modification goes out as a
\* second date of creation.
ObjectQuadruples(o, code) ==
  LET wanted == SelectSeq(Properties(o),
                          LAMBDA r : code \in {ALL_PROPERTIES, r.code})
  IN FlattenSeq([i \in DOMAIN wanted |->
       Quadruple(o, IF wanted[i].code = DATE_MODIFIED THEN DATE_CREATED
                    ELSE wanted[i].code, wanted[i])])

\* getObjectPropertyList for the children of a directory, objs in the order
\* of the map.  It announces six properties of each and writes fourteen; the
\* break after NON_CONSUMABLE leaves the loop over the objects.
PropertyList(objs, code) ==
  LET per == IF code = ALL_PROPERTIES THEN 6 ELSE 1
      last == IF code \in {ALL_PROPERTIES, NON_CONSUMABLE} /\ objs # <<>>
              THEN 1 ELSE Len(objs)
  IN << Number(UINT32, per * Len(objs)) >>
       \o FlattenSeq([i \in 1..last |-> ObjectQuadruples(objs[i], code)])

\* The objects in a directory: those the model knows, by handle.
InOrder == SetToSortSeq(Objects, LAMBDA a, b : a.handle < b.handle)

\* What the handler of a request puts into the reset mData.
Response(c) ==
  CASE c.op = "GetDeviceInfo"    -> DeviceInfo
    [] c.op = "GetStorageInfo"   -> StorageInfo
    [] c.op \in {"GetStorageIDs", "GetObjectHandles", "GetObjectReferences"}
                                 -> << Item(AUINT32, c.list) >>
    [] c.op = "GetObjectPropsSupported"
                                 -> << Item(AUINT16, <<STORAGE_ID, HIDDEN>>) >>
    [] c.op = "GetObjectInfo"    -> ObjectInfo(c.object)
    [] c.op \in {"GetObjectPropDesc", "GetDevicePropDesc"}
                                 -> PropertyDesc(c.property, c.form)
    [] c.op = "GetObjectPropValue" -> PropertyValue(c.object, c.property)
    [] c.op = "GetObjectPropList"  -> PropertyList(InOrder, c.property)

-----------------------------------------------------------------------------
(* What the initiator puts.                                                *)

\* MtpDevice::sendObjectInfo.
SentObjectInfo(o) ==
  << Number(UINT32, o.storage), Number(UINT16, o.format), Number(UINT16, 0),
     Number(UINT32, o.size), Number(UINT16, 0), Number(UINT32, 0),
     Number(UINT32, 0), Number(UINT32, 0), Number(UINT32, 0),
     Number(UINT32, 0), Number(UINT32, 0), Number(UINT32, o.parent),
     Number(UINT16, AssociationType(o)), Number(UINT32, 0),
     Number(UINT32, 0), String(o.name), String(DateString),
     String(DateString), String(Keywords) >>

\* dataIn: the operations with data from the initiator.
Sending == {"SendObjectInfo", "SetObjectPropValue", "SetObjectReferences"}

Request(c) ==
  CASE c.op = "SendObjectInfo"      -> SentObjectInfo(c.object)
    [] c.op = "SetObjectPropValue"  -> << String(c.object.name) >>
    [] c.op = "SetObjectReferences" -> << Item(AUINT32, c.list) >>

\* The parameters the initiator sets.  MtpDevice sends an object's parent as
\* it is, not the MTP_PARENT_ROOT it has computed for an object at the root.
Parameters(c) ==
  CASE c.op \in {"GetDeviceInfo", "GetStorageIDs"} -> <<>>
    [] c.op = "GetStorageInfo" -> << c.object.storage >>
    [] c.op = "GetObjectHandles" ->
         IF BriefHost /\ ~library THEN << c.object.storage >>
         ELSE << c.object.storage, 0, c.object.parent >>
    [] c.op \in {"GetObjectInfo", "GetObjectReferences",
                 "SetObjectReferences"} -> << c.object.handle >>
    [] c.op = "GetObjectPropsSupported" -> << c.object.format >>
    [] c.op = "GetObjectPropDesc" -> << c.property, c.object.format >>
    [] c.op = "GetDevicePropDesc" -> << c.property >>
    [] c.op = "SendObjectInfo" -> << c.object.storage, c.object.parent >>
    [] c.op \in {"GetObjectPropValue", "SetObjectPropValue"}
         -> << c.object.handle, c.property >>
    [] c.op = "GetObjectPropList" -> << c.object.parent, 0, c.property, 0, 1 >>

-----------------------------------------------------------------------------
(* What the reader gets.                                                   *)

Repeat(type, n) == [i \in 1..n |-> type]

\* A mutant: one string more than the responder puts.
DeviceInfoFieldsMore ==
  <<UINT16, UINT32, UINT16, STR, UINT16>> \o Repeat(AUINT16, 5)
    \o Repeat(STR, 5)

DeviceInfoFields ==
  <<UINT16, UINT32, UINT16, STR, UINT16>> \o Repeat(AUINT16, 5)
    \o Repeat(STR, 4)

StorageInfoFields ==
  <<UINT16, UINT16, UINT16, UINT64, UINT64, UINT32, STR, STR>>

ObjectInfoNumbers ==
  <<UINT32, UINT16, UINT16, UINT32, UINT16>> \o Repeat(UINT32, 7)
    \o <<UINT16, UINT32, UINT32>>

\* doSendObjectInfo leaves the keywords.
SentObjectInfoFields == ObjectInfoNumbers \o Repeat(STR, 3)
ObjectInfoFields == ObjectInfoNumbers \o Repeat(STR, 4)

\* What the last get of a packet returned.
Latest(p) == IF p.past THEN Garbage ELSE Last(p.got)[1]

\* readValue: nothing is read for a type it does not know.
ReadValue(p, typeCode) ==
  LET types == TypesOfCode(typeCode) IN
  IF types = {} THEN p ELSE GetItem(p, CHOOSE type \in types : TRUE)

ReadValues(p, typeCode, n) ==
  FoldLeft(LAMBDA q, i : ReadValue(q, typeCode), p, [i \in 1..n |-> i])

\* MtpProperty::read: the group code for properties of objects only, the form
\* flag always.
ReadProperty(p) ==
  LET code == GetItem(p, UINT16)
      type == GetItem(code, UINT16)
      t == Latest(type)
      device == IsDeviceProperty(Latest(code))
      values == ReadValues(GetItem(type, UINT8), t, IF device THEN 2 ELSE 1)
      flag == GetItem(IF device THEN values ELSE GetItem(values, UINT32),
                      UINT8)
      count == GetItem(flag, UINT16)
  IN CASE Latest(flag) = kFormRange -> ReadValues(flag, t, 3)
       [] Latest(flag) = kFormEnum  -> ReadValues(count, t, Latest(count))
       [] OTHER -> flag

\* Another program's reader of a property list: it goes by the types it finds.
ReadQuadruple(p, i) ==
  LET q == GetItems(p, <<UINT32, UINT16, UINT16>>)
  IN IF q.past THEN q ELSE ReadValue(q, Latest(q))

ReadPropertyList(p) ==
  LET count == GetItem(p, UINT32)
  IN FoldLeft(ReadQuadruple, count, [i \in 1..Latest(count) |-> i])

Read(c, p) ==
  CASE c.op = "GetDeviceInfo"  -> GetItems(p, DeviceInfoFields)
    [] c.op = "GetStorageInfo" -> GetItems(p, StorageInfoFields)
    [] c.op = "GetObjectInfo"  -> GetItems(p, ObjectInfoFields)
    [] c.op = "SendObjectInfo" -> GetItems(p, SentObjectInfoFields)
    [] c.op \in {"GetStorageIDs", "GetObjectHandles", "GetObjectReferences",
                 "SetObjectReferences"} -> GetItem(p, AUINT32)
    [] c.op = "GetObjectPropsSupported" -> GetItem(p, AUINT16)
    [] c.op \in {"GetObjectPropDesc", "GetDevicePropDesc"} -> ReadProperty(p)
    [] c.op = "GetObjectPropValue" -> GetItem(p, DescribedType(c.property))
    [] c.op = "GetObjectPropList"  -> ReadPropertyList(p)
    [] c.op = "SetObjectPropValue" -> GetItem(p, STR)

-----------------------------------------------------------------------------
(* A transaction.                                                          *)

LibraryOps ==
  {"GetDeviceInfo", "GetStorageIDs", "GetStorageInfo", "GetObjectHandles",
   "GetObjectInfo", "GetObjectPropsSupported", "GetObjectPropDesc",
   "GetDevicePropDesc", "SendObjectInfo"}

OtherOps ==
  {"GetObjectHandles", "GetObjectReferences", "GetObjectPropValue",
   "GetObjectPropList"} \cup Sending

Call(op, o, p, f, l) ==
  [op |-> op, object |-> o, property |-> p, form |-> f, list |-> l]

\* A form has numbers: a property of another type has none.
FormsOf(code) == IF DescribedType(code) \in {UINT16, UINT32} THEN Forms
                 ELSE {kFormNone}

\* The calls of an operation, about the objects and what else it is about.
CallsOf(op) ==
  CASE op \in {"GetStorageIDs", "GetObjectHandles", "GetObjectReferences",
               "SetObjectReferences"}
         -> {Call(op, o, 0, kFormNone, l) : o \in Objects, l \in Lists}
    [] op \in {"GetObjectPropDesc"}
         -> UNION {{Call(op, o, p, f, <<>>) : f \in FormsOf(p), o \in Objects}
                   : p \in PropertyCodes}
    [] op = "GetDevicePropDesc"
         -> {Call(op, o, DEVICE_FRIENDLY_NAME, kFormNone, <<>>) :
               o \in Objects}
    [] op = "GetObjectPropValue"
         -> {Call(op, o, p, kFormNone, <<>>) :
               o \in Objects, p \in PropertyCodes}
    [] op = "GetObjectPropList"
         -> {Call(op, o, p, kFormNone, <<>>) :
               o \in Objects, p \in PropertyCodes \cup {ALL_PROPERTIES}}
    [] OTHER -> {Call(op, o, OBJECT_FILE_NAME, kFormNone, <<>>) :
                   o \in Objects}

Init ==
  /\ library \in BOOLEAN
  /\ call = Call("OpenSession", CHOOSE o \in Objects : TRUE, 0, kFormNone, <<>>)
  /\ pc = "idle"
  /\ hostData = EmptyPacket /\ serverData = EmptyPacket
  /\ params = <<1>> /\ mRequest = <<1, 0, 0, 0, 0>>
  /\ wire = <<>> /\ calls = 0

\* The server's mRequest: a request is read over what the last one left.
Received(ps) ==
  [i \in 1..5 |-> IF i \in DOMAIN ps THEN ps[i] ELSE mRequest[i]]

\* A container on its way to the responder.  MtpDataPacket::write of the library
\* sends the header in a transfer of its own; other programs send one.
Transfers(container) ==
  IF library
  THEN << SubSeq(container, 1, HEADER_SIZE),
          SubSeq(container, HEADER_SIZE + 1, Len(container)) >>
  ELSE << container >>

\* The transfer a read of the pipe takes from, and the pipe without the first n
\* bytes of it.
Arriving == IF wire = <<>> THEN <<>> ELSE Head(wire)
Without(n) ==
  IF n = Len(Head(wire)) THEN Tail(wire)
  ELSE [wire EXCEPT ![1] = SubSeq(@, n + 1, Len(@))]

\* A call: MtpDevice::initialize begins with GetDeviceInfo.  sendObjectInfo puts
\* its dataset at the offset where mData is; other programs begin a new packet.
\* What a call left in the pipe would be the next request: there the behaviour
\* ends.
Ask(c) ==
  /\ pc = "idle" /\ wire = <<>> /\ calls < MaxCalls
  /\ c.op \in IF library THEN LibraryOps ELSE OtherOps
  /\ library /\ calls = 0 => c.op = "GetDeviceInfo"
  /\ call' = c /\ calls' = calls + 1
  /\ params' = Parameters(c)
  /\ mRequest' = Received(params')
  /\ IF c.op \in Sending
     THEN /\ hostData' = PutItems(IF library THEN hostData ELSE EmptyPacket,
                                  Request(c))
          /\ wire' = Transfers(Container(hostData'))
          /\ pc' = "sent"
     ELSE /\ pc' = "asked"
          /\ UNCHANGED <<hostData, wire>>
  /\ UNCHANGED <<library, serverData>>

\* The server's loop reads the data, with one read of the pipe: one transfer, or
\* as much of it as the buffer takes.  The handler gets its fields.
Receive ==
  /\ pc = "sent"
  /\ LET n == Min({Len(Arriving), BufferSize}) IN
       /\ serverData' = Read(call, Packet(SubSeq(Arriving, 1, n)))
       /\ wire' = Without(n)
  /\ pc' = "idle"
  /\ UNCHANGED <<library, call, hostData, params, mRequest, calls>>

\* The handler puts the dataset into the reset mData.  Nothing is sent when
\* it put nothing: the initiator then meets the response, and has no data.
Respond ==
  /\ pc = "asked"
  /\ serverData' = PutItems(EmptyPacket, Response(call))
  /\ IF Len(serverData'.bytes) > HEADER_SIZE
     THEN /\ wire' = << Container(serverData') >> /\ pc' = "answered"
          /\ UNCHANGED hostData
     ELSE /\ wire' = <<>> /\ pc' = "idle"
          /\ hostData' = EmptyPacket
  /\ UNCHANGED <<library, call, params, mRequest, calls>>

\* readData resets mData; the first transfer fills the buffer at most.  A
\* buffer that has grown only takes more at once.
ReadFirst(n) ==
  /\ pc = "answered"
  /\ n <= BufferSize /\ n <= Len(Arriving)
  /\ hostData' = Packet(SubSeq(Arriving, 1, n))
  /\ wire' = Without(n)
  /\ pc' = "reading"
  /\ UNCHANGED <<library, call, serverData, params, mRequest, calls>>

\* What the header announces and has not come yet.
Missing == Value(SubSeq(hostData.bytes, 1, 4)) - Len(hostData.bytes)

\* As long as the header says there is more.
ReadMore(n) ==
  /\ pc = "reading" /\ Missing > 0
  /\ n <= Missing
  /\ hostData' = [hostData EXCEPT !.bytes = @ \o SubSeq(Arriving, 1, n)]
  /\ wire' = Without(n)
  /\ UNCHANGED <<library, call, pc, serverData, params, mRequest, calls>>

\* The response is OK: the call reads its dataset.
ReadDataset ==
  /\ pc = "reading" /\ Missing <= 0
  /\ hostData' = Read(call, hostData)
  /\ pc' = "idle"
  /\ UNCHANGED <<library, call, serverData, params, mRequest, wire, calls>>

Next ==
  \/ \E op \in Ops : \E c \in CallsOf(op) : Ask(c)
  \/ Receive \/ Respond \/ ReadDataset
  \/ \E n \in Cuts \cup {BufferSize, Len(Arriving)} : ReadFirst(n)
  \/ \E n \in Cuts \cup {Len(Arriving)} : n > 0 /\ ReadMore(n)

DatasetsSpec == Init /\ [][Next]_vars

-----------------------------------------------------------------------------
(* Properties.                                                             *)

\* What the reader of the latest call has got.
Reader == IF call.op \in Sending THEN serverData ELSE hostData

Values(items) == [i \in DOMAIN items |-> items[i].value]

\* What a property list should hold: one quadruple for each property asked of
\* each object, and in front how many.
TrueList(objs, code) ==
  LET rows(o) == SelectSeq(Properties(o),
                           LAMBDA r : code \in {ALL_PROPERTIES, r.code})
      quadruples == FlattenSeq([i \in DOMAIN objs |->
        FlattenSeq([j \in DOMAIN rows(objs[i]) |->
          Quadruple(objs[i], rows(objs[i])[j].code, rows(objs[i])[j])])])
  IN << Number(UINT32, Len(quadruples) \div 4) >> \o quadruples

\* A description as its reader means it: a device's has no group code.
TrueDesc(code, form) ==
  LET desc == PropertyDesc(code, form)
  IN IF IsDeviceProperty(code) THEN SubSeq(desc, 1, 5)
                                      \o << Number(UINT8, form) >>
                                      \o SubSeq(desc, 7, Len(desc))
     ELSE desc

\* What the two sides mean by the dataset of a call.
Meant(c) ==
  CASE c.op = "SendObjectInfo"    -> SubSeq(SentObjectInfo(c.object), 1, 18)
    [] c.op = "GetObjectPropList" -> TrueList(InOrder, c.property)
    [] c.op = "GetObjectPropValue" ->
         << Item(DescribedType(c.property),
                 PropertyOf(c.object, c.property).value) >>
    [] c.op \in {"GetObjectPropDesc", "GetDevicePropDesc"} ->
         TrueDesc(c.property, c.form)
    [] c.op \in Sending \ {"SendObjectInfo"} -> Request(c)
    [] OTHER -> Response(c)

Arrived == Reader.got = Values(Meant(call)) /\ ~Reader.past

\* What the code is known to get wrong, one claim of MCMtpDatasets each.
LongName == CharCount(call.object.name) > 254
Emoji == Astral[call.object.name] > 0
MixedList == call.op = "GetObjectPropList"
               /\ call.property \in {ALL_PROPERTIES, NON_CONSUMABLE,
                                     DATE_MODIFIED}
NoValue == call.op = "GetObjectPropValue" /\ call.property = NON_CONSUMABLE
LongReferences == call.op = "SetObjectReferences"
                    /\ 16 + 4 * Len(call.list) > BufferSize

HeaderAlone == library /\ call.op = "SendObjectInfo"
ShortList == call.op = "GetObjectPropList" /\ call.property = NON_CONSUMABLE
               /\ Cardinality(Objects) > 1

Expressible ==
  ~(LongName \/ Emoji \/ MixedList \/ NoValue \/ LongReferences \/ HeaderAlone)

PacketOK(p) ==
  p.past \in BOOLEAN /\ Len(p.bytes) >= HEADER_SIZE /\ p.offset >= HEADER_SIZE

PacketsTypeOK ==
  /\ library \in BOOLEAN
  /\ pc \in {"idle", "sent", "asked", "answered", "reading"}
  /\ PacketOK(hostData) /\ PacketOK(serverData)
  /\ mRequest \in [1..5 -> Int] /\ Len(params) <= 5
  /\ calls \in 0..MaxCalls

\* Between calls nothing is left in the pipe, wherever the transfers were cut,
\* but for what the server's one read does not take: the end of references
\* longer than its buffer, and the dataset the library sends after its header.
NothingLeft == pc = "idle" => (wire # <<>> <=> LongReferences \/ HeaderAlone)

\* No get goes beyond the end of what came, whatever the counts in strings,
\* arrays, descriptions and lists say, but for these two and for a list that
\* announces more elements than it holds.
NoneReadPast ==
  pc = "idle" => (Reader.past <=> LongReferences \/ HeaderAlone \/ ShortList)

\* At the end of a call the reader has exactly the values the writer meant,
\* each with its width, in its place, no byte from elsewhere, and wherever the
\* transfers were cut: the put sequences of MtpServer, the database,
\* MtpProperty and MtpDevice fit the get sequences on the other side.
DatasetsAgree ==
  pc = "idle" /\ calls > 0 /\ Expressible => Arrived

\* What the handler of a call takes from mRequest (getParameter).
Wanted(c) ==
  CASE c.op \in {"GetDeviceInfo", "GetStorageIDs"} -> <<>>
    [] c.op = "GetStorageInfo" -> << c.object.storage >>
    [] c.op = "GetObjectHandles" -> << c.object.storage, 0, c.object.parent >>
    [] c.op \in {"GetObjectInfo", "GetObjectReferences",
                 "SetObjectReferences"} -> << c.object.handle >>
    [] c.op = "GetObjectPropsSupported" -> << c.object.format >>
    [] c.op = "GetObjectPropDesc" -> << c.property, c.object.format >>
    [] c.op = "GetDevicePropDesc" -> << c.property >>
    [] c.op = "SendObjectInfo" ->
         << c.object.storage,
            IF c.object.parent = 0 THEN MTP_PARENT_ROOT ELSE c.object.parent >>
    [] c.op \in {"GetObjectPropValue", "SetObjectPropValue"}
         -> << c.object.handle, c.property >>
    [] c.op = "GetObjectPropList" -> << c.object.parent, 0, c.property, 0, 1 >>

\* A handler's parameters are those its caller meant, although mRequest keeps
\* the parameters of earlier, longer requests.
ParametersMeant ==
  pc \in {"sent", "asked"} =>
    \A i \in DOMAIN Wanted(call) : mRequest[i] = Wanted(call)[i]

\* Types; what is sent is read to its end and not beyond, save in the cases
\* named; and no handler takes what another request meant.
PacketsInv ==
  PacketsTypeOK /\ NothingLeft /\ NoneReadPast /\ ParametersMeant

-----------------------------------------------------------------------------
(* Claims the code does not keep (README, section 6).                      *)

\* "maximum of 255 characters" (MtpStringBuffer.h): every name arrives.
NamesArrive == pc = "idle" /\ calls > 0 /\ call.op = "GetObjectInfo" => Arrived

\* "1- Number of elements (quadruples)": a list is what it announces.
ListsTrue ==
  pc = "idle" /\ call.op = "GetObjectPropList" => Arrived

\* A supported property has a value.
ValuesArrive ==
  pc = "idle" /\ call.op = "GetObjectPropValue" => Arrived

\* The server gets the info that MtpDevice was given.
InfoArrives ==
  pc = "idle" /\ call.op = "SendObjectInfo" => Arrived

\* ... or it would, had it come in one transfer.
InfoSent ==
  pc = "sent" /\ call.op = "SendObjectInfo" =>
    Read(call, Packet(FlattenSeq(wire))).got = Values(Meant(call))

\* References sent arrive.
ReferencesArrive ==
  pc = "idle" /\ call.op = "SetObjectReferences" => Arrived
=============================================================================
