-------------------------- MODULE MtpServerProofs ---------------------------
(***************************************************************************)
(* Theorems about the MTP responder over the object database, for every    *)
(* set of operations, every host, polite or not, every fault and every     *)
(* number of requests, files and threads' steps.                           *)
(***************************************************************************)
EXTENDS MtpServer, UbuntuMtpDatabaseProofs

-----------------------------------------------------------------------------
(* Renaming and writing through a descriptor.                              *)

\* What a sequence of a prefix and a rest says of both.
LEMMA PathSplit ==
  ASSUME NEW p \in Paths, NEW q \in Paths, NEW s \in Paths, IsPrefix(p, s)
  PROVE  LET w == SubSeq(s, Len(p) + 1, Len(s))
             r == q \o w
         IN  r \in Paths /\ p \o SubSeq(r, Len(q) + 1, Len(r)) = s
<1> DEFINE w == SubSeq(s, Len(p) + 1, Len(s))
           r == q \o w
           v == SubSeq(r, Len(q) + 1, Len(r))
<1>1. Len(p) \in Nat /\ Len(q) \in Nat /\ Len(s) \in Nat
  BY LenProperties DEF Paths
<1>2. Len(p) <= Len(s) /\ \A i \in 1 .. Len(p) : p[i] = s[i]
  <2>1. DOMAIN p = 1 .. Len(p) /\ DOMAIN s = 1 .. Len(s)
    BY LenProperties DEF Paths
  <2> QED BY <1>1, <2>1 DEF IsPrefix
<1>3. \A i \in Len(p) + 1 .. Len(s) : s[i] \in PathNames
  <2> SUFFICES ASSUME NEW i \in Len(p) + 1 .. Len(s) PROVE s[i] \in PathNames
    OBVIOUS
  <2>1. i \in 1 .. Len(s)
    BY <1>1
  <2> QED BY <2>1, ElementOfSeq DEF Paths
<1>4. /\ w \in Seq(PathNames) /\ Len(w) = Len(s) - Len(p)
      /\ \A i \in 1 .. Len(s) - Len(p) : w[i] = s[Len(p) + i]
  <2>1. Len(p) + 1 \in Int /\ Len(s) \in Int
    BY <1>1
  <2>2. /\ w \in Seq(PathNames)
        /\ Len(w) = IF Len(p) + 1 <= Len(s) THEN Len(s) - (Len(p) + 1) + 1 ELSE 0
        /\ \A i \in 1 .. Len(s) - (Len(p) + 1) + 1 : w[i] = s[Len(p) + 1 + i - 1]
    BY <1>3, <2>1, SubSeqProperties
  <2>3. Len(w) = Len(s) - Len(p)
    BY <1>1, <1>2, <2>2
  <2>4. \A i \in 1 .. Len(s) - Len(p) : w[i] = s[Len(p) + i]
    <3> SUFFICES ASSUME NEW i \in 1 .. Len(s) - Len(p)
                 PROVE  w[i] = s[Len(p) + i]
      OBVIOUS
    <3>1. i \in 1 .. Len(s) - (Len(p) + 1) + 1 /\ Len(p) + 1 + i - 1 = Len(p) + i
      BY <1>1, <1>2
    <3> QED BY <2>2, <3>1
  <2> QED BY <2>2, <2>3, <2>4
<1> HIDE DEF w
<1>5. /\ r \in Seq(PathNames) /\ Len(r) = Len(q) + Len(w)
      /\ \A i \in 1 .. Len(q) + Len(w) :
           r[i] = IF i <= Len(q) THEN q[i] ELSE w[i - Len(q)]
  BY <1>4, ConcatProperties DEF Paths
<1> HIDE DEF r
<1>6. Len(w) \in Nat /\ Len(r) \in Nat
  BY <1>1, <1>2, <1>4, <1>5
<1>7. \A i \in Len(q) + 1 .. Len(r) : r[i] \in PathNames
  <2> SUFFICES ASSUME NEW i \in Len(q) + 1 .. Len(r) PROVE r[i] \in PathNames
    OBVIOUS
  <2>1. i \in 1 .. Len(r)
    BY <1>1, <1>6
  <2> QED BY <1>5, <2>1, ElementOfSeq
<1>8. /\ v \in Seq(PathNames)
      /\ Len(v) = IF Len(q) + 1 <= Len(r) THEN Len(r) - (Len(q) + 1) + 1 ELSE 0
      /\ \A i \in 1 .. Len(r) - (Len(q) + 1) + 1 : v[i] = r[Len(q) + 1 + i - 1]
  <2>1. Len(q) + 1 \in Int /\ Len(r) \in Int
    BY <1>1, <1>6
  <2> QED BY <1>7, <2>1, SubSeqProperties
<1> HIDE DEF v
<1>9. Len(v) = Len(w)
  BY <1>1, <1>5, <1>6, <1>8
<1>10. \A i \in 1 .. Len(w) : v[i] = w[i]
  <2> SUFFICES ASSUME NEW i \in 1 .. Len(w) PROVE v[i] = w[i]
    OBVIOUS
  <2>1. /\ i \in 1 .. Len(r) - (Len(q) + 1) + 1
        /\ Len(q) + 1 + i - 1 = Len(q) + i /\ Len(q) + i \in 1 .. Len(q) + Len(w)
        /\ ~(Len(q) + i <= Len(q)) /\ Len(q) + i - Len(q) = i
    BY <1>1, <1>5, <1>6
  <2> QED BY <1>5, <1>8, <2>1
<1>11. v = w
  BY <1>4, <1>8, <1>9, <1>10, SeqEqual
<1>12. /\ p \o w \in Seq(PathNames) /\ Len(p \o w) = Len(p) + Len(w)
       /\ \A i \in 1 .. Len(p) + Len(w) :
            (p \o w)[i] = IF i <= Len(p) THEN p[i] ELSE w[i - Len(p)]
  BY <1>4, ConcatProperties DEF Paths
<1>13. \A i \in 1 .. Len(p \o w) : (p \o w)[i] = s[i]
  <2> SUFFICES ASSUME NEW i \in 1 .. Len(p \o w) PROVE (p \o w)[i] = s[i]
    OBVIOUS
  <2>1. i \in 1 .. Len(p) + Len(w)
    BY <1>12
  <2>2. CASE i <= Len(p)
    <3>1. i \in 1 .. Len(p)
      BY <1>1, <2>1, <2>2
    <3> QED BY <1>2, <1>12, <2>1, <2>2, <3>1
  <2>3. CASE ~(i <= Len(p))
    <3>1. i - Len(p) \in 1 .. Len(s) - Len(p) /\ Len(p) + (i - Len(p)) = i
      BY <1>1, <1>4, <2>1, <2>3
    <3> QED BY <1>4, <1>12, <2>1, <2>3, <3>1
  <2> QED BY <2>2, <2>3
<1>14. Len(p \o w) = Len(s)
  BY <1>1, <1>4, <1>12
<1>15. p \o w = s
  BY <1>12, <1>13, <1>14, SeqEqual DEF Paths
<1> QED BY <1>5, <1>11, <1>15 DEF r, w, v, Paths

\* rename(2) moves typed objects to typed paths.
LEMMA RenameTyped ==
  ASSUME KernelTyped, NEW p \in DOMAIN fs, NEW q \in Paths, FsRename(p, q)
  PROVE  KernelTyped'
<1> DEFINE to(r) == q \o SubSeq(r, Len(p) + 1, Len(r))
           from(r) == p \o SubSeq(r, Len(q) + 1, Len(r))
           moved == {to(r) : r \in Below(p)}
           kept == (DOMAIN fs \ Below(p)) \ {q}
<1>1. /\ p \in Paths /\ Below(p) \subseteq DOMAIN fs
      /\ DOMAIN fs \subseteq Paths /\ IsFiniteSet(DOMAIN fs)
      /\ \A r \in DOMAIN fs : fs[r] \in Nodes
  BY DEF Below, KernelTyped, TreeTyped
<1>2. \A r \in Below(p) : to(r) \in Paths /\ from(to(r)) = r
  <2> SUFFICES ASSUME NEW r \in Below(p)
               PROVE  to(r) \in Paths /\ from(to(r)) = r
    OBVIOUS
  <2>1. r \in Paths /\ IsPrefix(p, r)
    BY <1>1 DEF Below
  <2> QED BY <1>1, <2>1, PathSplit
<1>3. /\ fs' = IF p = q THEN fs
               ELSE [r \in kept \cup moved |->
                       IF r \in moved THEN fs[from(r)] ELSE fs[r]]
      /\ UNCHANGED <<queue, nextIno, nextWd>>
      /\ watch' \in {watch, WatchWithout(fs[q].ino)}
  BY DEF FsRename
<1>4. TreeTyped'
  <2>1. CASE p = q
    BY <1>1, <1>3, <2>1 DEF TreeTyped
  <2>2. CASE p # q
    <3> HIDE DEF to, from
    <3>1. DOMAIN fs' = kept \cup moved
      BY <1>3, <2>2
    <3>2. IsFiniteSet(moved)
      <4> DEFINE f == [r \in Below(p) |-> to(r)]
      <4>1. f \in Surjection(Below(p), moved)
        BY DEF Surjection
      <4>2. IsFiniteSet(Below(p))
        BY <1>1, FS_Subset
      <4> QED BY <4>1, <4>2, FS_Surjection
    <3>3. IsFiniteSet(kept)
      BY <1>1, FS_Subset
    <3>4. IsFiniteSet(DOMAIN fs')
      BY <3>1, <3>2, <3>3, FS_Union
    <3>5. DOMAIN fs' \subseteq Paths
      BY <1>1, <1>2, <3>1
    <3>6. \A r \in DOMAIN fs' : fs'[r] \in Nodes
      <4> SUFFICES ASSUME NEW r \in DOMAIN fs' PROVE fs'[r] \in Nodes
        OBVIOUS
      <4>1. CASE r \in moved
        <5>1. PICK s \in Below(p) : r = to(s)
          BY <4>1
        <5>2. from(r) = s
          BY <1>2, <5>1
        <5>3. fs'[r] = fs[s]
          BY <1>3, <2>2, <3>1, <4>1, <5>2
        <5> QED BY <1>1, <5>3
      <4>2. CASE r \notin moved
        <5>1. r \in kept /\ fs'[r] = fs[r]
          BY <1>3, <2>2, <3>1, <4>2
        <5> QED BY <1>1, <5>1
      <4> QED BY <4>1, <4>2
    <3> QED BY <3>4, <3>5, <3>6 DEF TreeTyped
  <2> QED BY <2>1, <2>2
<1>5. DOMAIN watch' \subseteq Int
  BY <1>3, EraseDomainInt DEF WatchWithout, KernelTyped, WatchesTyped
<1> QED BY <1>3, <1>4, <1>5 DEF KernelTyped, WatchesTyped, QueueTyped

\* A write through a descriptor.
LEMMA WriteInodeTyped ==
  ASSUME KernelTyped, NEW ino, NEW z \in Int, WriteInode(ino, z)
  PROVE  KernelTyped'
<1>1. CASE \E p \in DOMAIN fs : fs[p].ino = ino
  <2> DEFINE q == CHOOSE p \in DOMAIN fs : fs[p].ino = ino
  <2>1. q \in DOMAIN fs /\ FsResize(q, z)
    BY <1>1 DEF WriteInode
  <2>2. PICK p : p = q
    OBVIOUS
  <2>3. p \in DOMAIN fs /\ FsResize(p, z)
    BY <2>1, <2>2
  <2> QED BY <2>3, ResizeTyped
<1>2. CASE ~\E p \in DOMAIN fs : fs[p].ino = ino
  BY <1>2, KernelUnchanged DEF WriteInode
<1> QED BY <1>1, <1>2

-----------------------------------------------------------------------------
(* Types of the server's state.                                            *)

OpNames ==
  PlainOps \cup StorageOps \cup ObjectOps \cup
  {"OpenSession", "CloseSession", "SendObjectInfo", "SendObject", "MoveObject",
   "SetObjectPropValue", "TruncateObject", "SendPartialObject", "none"}
\* A request; one that brings data also brings a name.
ReqRecs ==
  [op : OpNames, handle : Int, parent : Int, storage : StorageIds \cup {0},
   name : Names \cup {NoName}, format : Formats, size : Int, offset : Int]
Asked == {r \in ReqRecs : r.op \in DataIn => r.name \in Names}

SvPcs ==
  {"boot", "loop", "handle", "begin", "receive", "unlink", "end_send",
   "delete_path", "delete_tree", "set_path", "reply", "closing", "closed"}
Frames == [path : Paths, left : SUBSET Paths]
SvRecs ==
  [pc : SvPcs, req : Asked, result : Codes, hasData : BOOLEAN,
   command : BOOLEAN, path : Paths, stack : Seq(Frames), ino : Int]
SendRecs == [handle : Int, path : Paths, format : Formats, size : Int]
EditRecs == [handle : Nat, path : Paths, size : Int, format : Formats,
             ino : Int, pos : Int]

\* The parts: the storages and the session, the object to send and the open
\* edits, the thread (deleteRecursive has a directory to read), ...
SessionTyped == mStorages \in Seq(StorageIds) /\ mSessionOpen \in BOOLEAN
SendTyped == mSend \in SendRecs
EditsTyped == mObjectEditList \in Seq(EditRecs)
SvTyped == sv \in SvRecs /\ (sv.pc = "delete_tree" => sv.stack # <<>>)
\* ... the pipe (a whole request, or the data a handler left in it), ...
InboxTyped ==
  inbox # <<>> =>
    LET r == Head(inbox).req IN
    /\ r \in Asked
    /\ \/ inbox = Containers(r)
       \/ r.op \in HandlerData /\ inbox = <<Container("DATA", r)>>
\* (while a request is served, only what its handler is to read is left)
InboxServed ==
  sv.pc \notin {"loop", "closing", "closed"} =>
    \/ inbox = <<>>
    \/ \E r \in Asked : r.op \in HandlerData /\ inbox = <<Container("DATA", r)>>
\* ... the host and the card.
HostTyped ==
  /\ host \in [state : {"idle", "waiting"}, sent : Nat, answers : Seq(Nat)]
  /\ host.sent = Len(host.answers)
CardTyped == card \in {"out", "scanning", "exposed", "hidden", "removed"}

ServerTyped ==
  /\ SessionTyped /\ SendTyped /\ EditsTyped /\ SvTyped
  /\ InboxTyped /\ InboxServed /\ HostTyped /\ CardTyped
ServerTypeInv == TypeInv /\ ServerTyped

-----------------------------------------------------------------------------
(* The database's part of the types, by what a step of the server touches. *)

LEMMA DatabaseStutter ==
  ASSUME TypeInv, UNCHANGED databaseVars
  PROVE  TypeInv'
BY TypeStep DEF databaseVars

LEMMA KernelOnlyTyped ==
  ASSUME TypeInv, KernelTyped', UNCHANGED dbVars
  PROVE  TypeInv'
<1>1. HandlesPositive'
  BY PositiveKept DEF TypeInv, dbVars
<1> QED BY <1>1 DEF TypeInv, dbVars, EntriesTyped, TasksTyped, FlagsTyped

LEMMA EntriesOnlyTyped ==
  ASSUME TypeInv, KernelTyped', EntriesTyped', FlagsTyped',
         DOMAIN db' \subseteq DOMAIN db, UNCHANGED <<counter, issued, task>>
  PROVE  TypeInv'
<1>1. HandlesPositive'
  BY PositiveKept DEF TypeInv
<1>2. TasksTyped'
  BY DEF TypeInv, TasksTyped
<1> QED BY <1>1, <1>2 DEF TypeInv

LEMMA EndSendDomain ==
  ASSUME NEW p, NEW h, NEW format, NEW ok, EndSendObject(p, h, format, ok)
  PROVE  DOMAIN db' \subseteq DOMAIN db
<1>1. CASE db' = Erase(db, {h})
  <2>1. DOMAIN Erase(db, {h}) = DOMAIN db \ {h}
    BY EraseDomain
  <2> QED BY <1>1, <2>1
<1>2. CASE db' = [db EXCEPT ![h].object_size = fs[p].size]
  BY <1>2
<1>3. CASE db' = db
  BY <1>3
<1> QED BY <1>1, <1>2, <1>3 DEF EndSendObject

\* endSendObject as a step of its own.
LEMMA EndSendStepTyped ==
  ASSUME TypeInv, NEW p, NEW h, NEW format, NEW ok,
         EndSendObject(p, h, format, ok),
         UNCHANGED <<counter, local_server, issued, task, ub, alive, kernelVars>>
  PROVE  TypeInv'
<1>1. KernelTyped /\ EntriesTyped /\ FlagsTyped
  BY DEF TypeInv
<1>2. KernelTyped' /\ FlagsTyped'
  BY <1>1, KernelUnchanged DEF FlagsTyped
<1>3. EntriesTyped' /\ DOMAIN db' \subseteq DOMAIN db
  BY <1>1, EndSendTyped, EndSendDomain
<1> QED BY <1>2, <1>3, EntriesOnlyTyped

\* The flags of a session.
LEMMA FlagsOnlyTyped ==
  ASSUME TypeInv, UNCHANGED <<kernelVars, db, counter, issued, task, ub>>,
         local_server' \in BOOLEAN, alive' \in BOOLEAN
  PROVE  TypeInv'
<1>1. KernelTyped' /\ EntriesTyped' /\ FlagsTyped'
  BY KernelUnchanged DEF TypeInv, EntriesTyped, FlagsTyped
<1> QED BY <1>1, EntriesOnlyTyped

\* run(), the handlers that only answer, and the sessions.
LEMMA PlainDatabaseTyped ==
  ASSUME ServerTypeInv,
         \/ Run \/ ReadRequest \/ CancelData \/ WriteResponse \/ Finish
         \/ doPlain \/ doStorageQuery \/ doGetObjectInfo \/ doGetObject
         \/ doGetThumb \/ doGetObjectReferences
         \/ doOpenSession \/ doCloseSession
  PROVE  TypeInv'
<1>1. TypeInv /\ local_server \in BOOLEAN /\ alive \in BOOLEAN
      /\ mSessionOpen \in BOOLEAN
  BY DEF ServerTypeInv, ServerTyped, SessionTyped, TypeInv, FlagsTyped
<1>2. CASE UNCHANGED databaseVars
  BY <1>1, <1>2, DatabaseStutter
<1>3. CASE Finish
  <2>1. UNCHANGED <<counter, issued, task, ub, alive, kernelVars>>
    BY <1>3 DEF Finish, fsVars, kernelVars
  <2>2. CASE mObjectEditList # <<>>
    <3> DEFINE e == Head(mObjectEditList)
    <3>1. EndSendObject(e.path, e.handle, e.format, TRUE)
          /\ UNCHANGED local_server
      BY <1>3, <2>2 DEF Finish
    <3> QED BY <1>1, <2>1, <3>1, EndSendStepTyped
  <2>3. CASE mObjectEditList = <<>>
    <3>1. UNCHANGED db /\ local_server' = (local_server /\ ~mSessionOpen)
      BY <1>3, <2>3 DEF Finish
    <3>2. local_server' \in BOOLEAN
      BY <1>1, <3>1, Zenon
    <3> QED BY <1>1, <2>1, <3>1, <3>2, FlagsOnlyTyped
  <2> QED BY <2>2, <2>3
<1>4. CASE doOpenSession
  <2>1. /\ UNCHANGED <<kernelVars, db, counter, issued, task, ub, alive>>
        /\ local_server' = (mSessionOpen => local_server)
    BY <1>4 DEF doOpenSession, fsVars, kernelVars
  <2>2. local_server' \in BOOLEAN
    BY <1>1, <2>1, Zenon
  <2> QED BY <1>1, <2>1, <2>2, FlagsOnlyTyped
<1>5. CASE doCloseSession
  <2>1. /\ UNCHANGED <<kernelVars, db, counter, issued, task, ub, alive>>
        /\ local_server' = (local_server /\ ~mSessionOpen)
    BY <1>5 DEF doCloseSession, fsVars, kernelVars
  <2>2. local_server' \in BOOLEAN
    BY <1>1, <2>1, Zenon
  <2> QED BY <1>1, <2>1, <2>2, FlagsOnlyTyped
<1>6. CASE /\ alive' = FALSE
           /\ UNCHANGED <<fsVars, db, counter, local_server, task, issued, ub>>
  <2>1. UNCHANGED <<kernelVars, db, counter, issued, task, ub, local_server>>
    BY <1>6 DEF fsVars, kernelVars
  <2>2. local_server' \in BOOLEAN /\ alive' \in BOOLEAN
    BY <1>1, <1>6
  <2> QED BY <1>1, <2>1, <2>2, FlagsOnlyTyped
<1>7. CASE doGetThumb
  BY <1>2, <1>6, <1>7 DEF doGetThumb, OnlyAnswer
<1>8. CASE doGetObjectReferences
  BY <1>2, <1>6, <1>8 DEF doGetObjectReferences, OnlyAnswer
<1>9. CASE doPlain \/ doStorageQuery \/ doGetObjectInfo \/ doGetObject
  <2>1. UNCHANGED databaseVars
    BY <1>9 DEF doPlain, doStorageQuery, doGetObjectInfo, doGetObject,
       OnlyAnswer
  <2> QED BY <1>2, <2>1
<1>10. CASE Run \/ ReadRequest \/ CancelData \/ WriteResponse
  BY <1>2, <1>10 DEF Run, ReadRequest, CancelData, WriteResponse
<1> QED BY <1>3, <1>4, <1>5, <1>7, <1>8, <1>9, <1>10

\* SendObjectInfo and SendObject.
LEMMA SendDatabaseTyped ==
  ASSUME ServerTypeInv, SendStep
  PROVE  TypeInv'
<1>1. /\ TypeInv /\ KernelTyped /\ EntriesTyped /\ TasksTyped /\ FlagsTyped
      /\ HandlesPositive /\ HandlesPositive
      /\ mSend \in SendRecs /\ sv \in SvRecs /\ mSend.path \in Paths
  BY DEF ServerTypeInv, ServerTyped, SendTyped, SvTyped, TypeInv, SendRecs
<1>2. CASE UNCHANGED databaseVars
  BY <1>1, <1>2, DatabaseStutter
<1>3. CASE UNCHANGED dbVars /\ UNCHANGED kernelVars
  BY <1>1, <1>3, KernelUnchanged, KernelOnlyTyped
<1>4. CASE doSendObjectInfo
  <2> DEFINE r == sv.req
  <2>1. CASE OnlyAnswer(Refusals(r) \cup NoSpace)
    BY <1>2, <2>1 DEF OnlyAnswer
  <2>2. CASE /\ Refusals(r) = {} /\ r.op = "SendObjectInfo"
             /\ BeginSendObject(Append(TargetPath(r), r.name), r.format,
                                TargetParent(r), r.storage, r.size)
    <3>1. r \in Asked
      BY <1>1 DEF SvRecs
    <3>2. /\ r.name \in PathNames /\ r.format \in Formats /\ r.storage \in Int
          /\ r.size \in Int /\ r.parent \in Int
      <4>1. r \in ReqRecs /\ r.name \in Names
        BY <2>2, <3>1 DEF Asked, DataIn
      <4>2. r.storage \in {3, 4, 0}
        BY <4>1 DEF ReqRecs, StorageIds, MTP_STORAGE_FIXED_RAM,
                    MTP_STORAGE_REMOVABLE_RAM
      <4>3. r.name \in PathNames
        BY <4>1 DEF PathNames
      <4>4. r.storage \in Int
        BY <4>2
      <4>5. r.format \in Formats /\ r.size \in Int /\ r.parent \in Int
        BY <4>1 DEF ReqRecs
      <4> QED BY <4>3, <4>4, <4>5
    <3>3. TargetParent(r) \in Int
      BY <3>2 DEF TargetParent
    <3>4. TargetPath(r) \in Paths
      <4>1. CASE r.parent = MTP_PARENT_ROOT
        <5>1. Home \in Paths /\ Card \in Paths
          BY DEF Home, Card, Paths, PathNames
        <5> QED BY <4>1, <5>1 DEF TargetPath, StorageRoot
      <4>2. CASE r.parent # MTP_PARENT_ROOT
        <5>1. FilePathResponse(r.parent) = "OK"
          BY <2>2, <4>2 DEF Refusals
        <5>2. r.parent \in DOMAIN db
          BY <5>1 DEF FilePathResponse
        <5>3. db[r.parent].path \in Paths
          BY <1>1, <5>2 DEF EntriesTyped, DbEntry, Paths
        <5> QED BY <4>2, <5>3 DEF TargetPath
      <4> QED BY <4>1, <4>2
    <3> DEFINE p0 == Append(TargetPath(r), r.name)
               q0 == TargetParent(r)
    <3>5. p0 \in Paths
      BY <3>2, <3>4, AppendPath
    <3>6. PICK p, f, q, s, z : /\ p = p0 /\ f = r.format /\ q = q0
                               /\ s = r.storage /\ z = r.size
      OBVIOUS
    <3>7. /\ p \in Paths /\ f \in Formats /\ q \in Int /\ s \in Int /\ z \in Int
          /\ BeginSendObject(p, f, q, s, z)
      BY <2>2, <3>2, <3>3, <3>5, <3>6
    <3>8. SendCall
      BY <3>7 DEF SendCall
    <3> QED BY <1>1, <3>7, <3>8, BeginTyped, SendPositive DEF TypeInv
  <2> QED BY <1>4, <2>1, <2>2 DEF doSendObjectInfo, Handling
<1>5. CASE BeginStep
  <2>1. ReserveEntry \/ FinishBeginSend
    BY <1>5 DEF BeginStep
  <2>2. SendCall
    BY <2>1 DEF SendCall
  <2> QED BY <1>1, <2>1, <2>2, ReserveTyped, SendPositive DEF TypeInv
<1>6. CASE FinishObjectInfo
  <2> DEFINE c == task["server"].cur
  <2>1. c.path \in Paths /\ UNCHANGED dbVars
    BY <1>1, <1>6 DEF FinishObjectInfo, TasksTyped, Tasks, Calls, Threads
  <2>2. (FsCreate(c.path, "dir") \/ UNCHANGED kernelVars)
    BY <1>6 DEF FinishObjectInfo
  <2>3. PICK p \in Paths : p = c.path
    BY <2>1
  <2>4. FsCreate(p, "dir") \/ UNCHANGED kernelVars
    BY <2>2, <2>3
  <2>5. KernelTyped'
    BY <1>1, <2>4, CreateTyped, KernelUnchanged DEF Kinds
  <2> QED BY <1>1, <2>1, <2>5, KernelOnlyTyped
<1>7. CASE doSendObjectRefused
  BY <1>2, <1>7 DEF doSendObjectRefused
<1>8. CASE doSendObject
  <2>1. PICK p \in Paths : p = mSend.path
    BY <1>1
  <2>2. /\ (IsFile(p) /\ FsResize(p, 0)) \/ (CanCreate(p) /\ FsCreate(p, "file"))
        /\ UNCHANGED dbVars
    BY <1>8, <2>1 DEF doSendObject
  <2>3. CASE IsFile(p) /\ FsResize(p, 0)
    <3>1. p \in DOMAIN fs
      BY <2>3 DEF IsFile
    <3>2. KernelTyped'
      BY <1>1, <2>3, <3>1, ResizeTyped
    <3> QED BY <1>1, <2>2, <3>2, KernelOnlyTyped
  <2>4. CASE FsCreate(p, "file")
    <3>1. KernelTyped'
      BY <1>1, <2>4, CreateTyped DEF Kinds
    <3> QED BY <1>1, <2>2, <3>1, KernelOnlyTyped
  <2> QED BY <2>2, <2>3, <2>4
<1>9. CASE ReceiveFile
  <2>1. UNCHANGED dbVars /\ \E z \in Int : WriteInode(sv.ino, z)
    <3>1. mSend.size \in Int /\ \A z \in Sizes : z \in Int
      BY <1>1, FileSystemAssumption DEF SendRecs, Sizes
    <3> QED BY <1>9, <3>1 DEF ReceiveFile
  <2>2. PICK z \in Int : WriteInode(sv.ino, z)
    BY <2>1
  <2>3. PICK ino : ino = sv.ino
    OBVIOUS
  <2>4. WriteInode(ino, z)
    BY <2>2, <2>3
  <2>5. KernelTyped'
    BY <1>1, <2>4, WriteInodeTyped
  <2> QED BY <1>1, <2>1, <2>5, KernelOnlyTyped
<1>10. CASE UnlinkPartial
  <2>1. PICK p \in Paths : p = mSend.path
    BY <1>1
  <2>2. /\ (IsFile(p) /\ FsRemove(p)) \/ UNCHANGED kernelVars
        /\ UNCHANGED dbVars
    BY <1>10, <2>1 DEF UnlinkPartial
  <2>3. CASE IsFile(p) /\ FsRemove(p)
    <3>1. p \in DOMAIN fs
      BY <2>3 DEF IsFile
    <3>2. KernelTyped'
      BY <1>1, <2>3, <3>1, RemoveTyped
    <3> QED BY <1>1, <2>2, <3>2, KernelOnlyTyped
  <2> QED BY <1>3, <2>2, <2>3
<1>11. CASE FinishSendObject
  <2>1. EndSendObject(mSend.path, mSend.handle, mSend.format, sv.result = "OK")
    BY <1>11 DEF FinishSendObject
  <2>2. UNCHANGED <<counter, local_server, issued, task, ub, alive, kernelVars>>
    BY <1>11 DEF FinishSendObject, fsVars, kernelVars
  <2>3. PICK p, h, format, ok : /\ p = mSend.path /\ h = mSend.handle
                                /\ format = mSend.format
                                /\ ok = (sv.result = "OK")
    OBVIOUS
  <2>4. EndSendObject(p, h, format, ok)
    BY <2>1, <2>3
  <2> QED BY <1>1, <2>2, <2>4, EndSendStepTyped
<1> QED BY <1>4, <1>5, <1>6, <1>7, <1>8, <1>9, <1>10, <1>11 DEF SendStep

\* DeleteObject: the entry, then what is on disk.
LEMMA DeleteDatabaseTyped ==
  ASSUME ServerTypeInv, DeleteStep
  PROVE  TypeInv'
<1>1. /\ TypeInv /\ KernelTyped /\ EntriesTyped /\ FlagsTyped
      /\ sv \in SvRecs /\ sv.path \in Paths
      /\ sv.pc = "delete_tree" => sv.stack # <<>>
  BY DEF ServerTypeInv, ServerTyped, SvTyped, TypeInv, SvRecs
<1>2. CASE doDeleteObject
  <2>1. UNCHANGED <<fs, queue, nextIno, nextWd, counter, local_server, task,
                    issued>>
    BY <1>2 DEF doDeleteObject
  <2>2. PICK h : h = sv.req.handle
    OBVIOUS
  <2>3. DeleteFile(h, {}) \/ UNCHANGED <<watch, db, ub, alive>>
    BY <1>2, <2>2 DEF doDeleteObject
  <2>4. CASE DeleteFile(h, {})
    <3>1. {} \subseteq UbKinds
      OBVIOUS
    <3>2. EntriesTyped' /\ FlagsTyped' /\ DOMAIN watch' \subseteq Int
      BY <1>1, <2>1, <2>4, <3>1, DeleteFileTyped
    <3>3. KernelTyped'
      BY <1>1, <2>1, <3>2, KernelKept DEF KernelTyped, QueueTyped
    <3>4. DOMAIN db' \subseteq DOMAIN db
      BY <2>4, DeleteFileDomain
    <3> QED BY <1>1, <2>1, <3>2, <3>3, <3>4, EntriesOnlyTyped
  <2>5. CASE UNCHANGED <<watch, db, ub, alive>>
    <3>1. KernelTyped' /\ EntriesTyped' /\ FlagsTyped'
      BY <1>1, <2>1, <2>5, KernelUnchanged
         DEF kernelVars, EntriesTyped, FlagsTyped
    <3> QED BY <1>1, <2>1, <2>5, <3>1, EntriesOnlyTyped
  <2> QED BY <2>3, <2>4, <2>5
<1>3. ASSUME UNCHANGED dbVars,
             UNCHANGED kernelVars \/ \E p \in DOMAIN fs : FsRemove(p)
      PROVE  TypeInv'
  <2>1. KernelTyped'
    BY <1>1, <1>3, RemoveTyped, KernelUnchanged
  <2> QED BY <1>1, <1>3, <2>1, KernelOnlyTyped
<1>4. CASE DeletePath
  <2>1. /\ UNCHANGED dbVars
        /\ UNCHANGED kernelVars \/ \E p \in DOMAIN fs : FsRemove(p)
    BY <1>4 DEF DeletePath, IsFile
  <2> QED BY <1>3, <2>1
<1>5. CASE DeleteRecursive
  <2>1. /\ UNCHANGED dbVars
        /\ UNCHANGED kernelVars \/ \E p \in DOMAIN fs : FsRemove(p)
    BY <1>5 DEF DeleteRecursive, CanRemove
  <2> QED BY <1>3, <2>1
<1> QED BY <1>2, <1>4, <1>5 DEF DeleteStep

\* MoveObject and renaming.
LEMMA MoveDatabaseTyped ==
  ASSUME ServerTypeInv, MoveStep
  PROVE  TypeInv'
<1> DEFINE r == sv.req
<1>1. /\ TypeInv /\ KernelTyped /\ EntriesTyped /\ FlagsTyped
      /\ r \in Asked /\ r \in ReqRecs /\ sv.path \in Paths
      /\ r.handle \in Int /\ r.parent \in Int
  BY DEF ServerTypeInv, ServerTyped, SvTyped, TypeInv, SvRecs, Asked, ReqRecs
<1>2. \A h \in DOMAIN db : db[h].path \in Paths
  BY <1>1 DEF EntriesTyped, DbEntry, Paths
<1>3. \A h : FilePathResponse(h) = "OK" => h \in DOMAIN db
  BY DEF FilePathResponse
<1>4. CASE doMoveObject
  <2>1. UNCHANGED <<counter, local_server, task, issued, ub, alive>>
    BY <1>4 DEF doMoveObject
  <2>2. FlagsTyped'
    BY <1>1, <2>1 DEF FlagsTyped
  <2>3. \/ UNCHANGED <<db, kernelVars>>
        \/ /\ MoveFile(r.handle, r.parent) /\ r.handle \in DOMAIN db
           /\ \/ UNCHANGED kernelVars
              \/ /\ CanRename(db[r.handle].path, db[r.handle].path)
                 /\ FsRename(db[r.handle].path, db[r.handle].path)
    BY <1>3, <1>4 DEF doMoveObject
  <2>4. CASE UNCHANGED <<db, kernelVars>>
    <3>1. KernelTyped' /\ EntriesTyped'
      BY <1>1, <2>4, KernelUnchanged DEF EntriesTyped
    <3> QED BY <1>1, <2>1, <2>2, <2>4, <3>1, EntriesOnlyTyped
  <2>5. CASE /\ MoveFile(r.handle, r.parent) /\ r.handle \in DOMAIN db
             /\ \/ UNCHANGED kernelVars
                \/ /\ CanRename(db[r.handle].path, db[r.handle].path)
                   /\ FsRename(db[r.handle].path, db[r.handle].path)
    <3>1. PICK h \in DOMAIN db, q \in Int, p \in Paths :
            h = r.handle /\ q = r.parent /\ p = db[h].path
      BY <1>1, <1>2, <2>5
    <3>2. MoveFile(h, q) /\ (UNCHANGED kernelVars \/
                             (CanRename(p, p) /\ FsRename(p, p)))
      BY <2>5, <3>1
    <3>3. EntriesTyped'
      BY <1>1, <3>2, MoveFileTyped
    <3>4. KernelTyped'
      BY <1>1, <3>2, RenameTyped, KernelUnchanged DEF CanRename
    <3>5. DOMAIN db' \subseteq DOMAIN db
      BY <3>2 DEF MoveFile
    <3> QED BY <1>1, <2>1, <2>2, <3>3, <3>4, <3>5, EntriesOnlyTyped
  <2> QED BY <2>3, <2>4, <2>5
<1>5. CASE doSetObjectPropValue
  <2> DEFINE h == r.handle
             p == db[h].path
             q == Append(Front(p), r.name)
  <2>1. UNCHANGED dbVars
    BY <1>5 DEF doSetObjectPropValue
  <2>2. /\ r.op = "SetObjectPropValue"
        /\ \/ UNCHANGED kernelVars
           \/ /\ FilePathResponse(h) = "OK" /\ CanRename(p, q) /\ FsRename(p, q)
    BY <1>5 DEF doSetObjectPropValue, Handling
  <2>3. CASE UNCHANGED kernelVars
    BY <1>1, <2>1, <2>3, KernelUnchanged, KernelOnlyTyped
  <2>4. CASE FilePathResponse(h) = "OK" /\ CanRename(p, q) /\ FsRename(p, q)
    <3>1. p \in Paths /\ r.name \in PathNames
      BY <1>1, <1>2, <1>3, <2>2, <2>4 DEF Asked, DataIn, PathNames
    <3>2. q \in Paths
      BY <3>1, FrontPath, AppendPath
    <3>3. PICK a \in Paths, b \in Paths : a = p /\ b = q
      BY <3>1, <3>2
    <3>4. CanRename(a, b) /\ FsRename(a, b)
      BY <2>4, <3>3
    <3>5. KernelTyped'
      BY <1>1, <3>4, RenameTyped DEF CanRename
    <3> QED BY <1>1, <2>1, <3>5, KernelOnlyTyped
  <2> QED BY <2>2, <2>3, <2>4
<1>6. CASE FinishRename
  <2>1. /\ UNCHANGED <<kernelVars, counter, local_server, task, issued, ub,
                       alive>>
        /\ SetPath(r.handle, sv.path)
    BY <1>6 DEF FinishRename, fsVars, kernelVars
  <2>2. PICK h \in Int, p \in Paths : h = r.handle /\ p = sv.path
    BY <1>1
  <2>3. SetPath(h, p)
    BY <2>1, <2>2
  <2>4. KernelTyped' /\ FlagsTyped'
    BY <1>1, <2>1, KernelUnchanged DEF FlagsTyped
  <2>5. EntriesTyped' /\ DOMAIN db' \subseteq DOMAIN db
    BY <1>1, <2>3, SetPathTyped DEF SetPath
  <2> QED BY <1>1, <2>1, <2>4, <2>5, EntriesOnlyTyped
<1> QED BY <1>4, <1>5, <1>6 DEF MoveStep

\* The greatest of a few numbers is one of them.
LEMMA MaxOfThree ==
  ASSUME NEW a \in Int, NEW b \in Int, NEW c \in Int
  PROVE  Max({a, b, c}) \in {a, b, c}
<1>1. \E x \in {a, b, c} : \A y \in {a, b, c} : x >= y
  <2>1. CASE a >= b /\ a >= c
    BY <2>1
  <2>2. CASE b >= a /\ b >= c
    BY <2>2
  <2>3. CASE c >= a /\ c >= b
    BY <2>3
  <2> QED BY <2>1, <2>2, <2>3
<1> QED BY <1>1 DEF Max

LEMMA MaxOfTwo ==
  ASSUME NEW a \in Int, NEW b \in Int
  PROVE  Max({a, b}) \in {a, b}
<1>1. \E x \in {a, b} : \A y \in {a, b} : x >= y
  <2>1. CASE a >= b
    BY <2>1
  <2>2. CASE b >= a
    BY <2>2
  <2> QED BY <2>1, <2>2
<1> QED BY <1>1 DEF Max

\* The edit an operation works on is one of the list, and has its handle.
LEMMA EditFound ==
  ASSUME EditsTyped, NEW h, HasEdit(h)
  PROVE  /\ EditIndex(h) \in 1 .. Len(mObjectEditList)
         /\ mObjectEditList[EditIndex(h)] \in EditRecs
         /\ mObjectEditList[EditIndex(h)].handle = h
<1>1. DOMAIN mObjectEditList = 1 .. Len(mObjectEditList)
      /\ Len(mObjectEditList) \in Nat
  BY LenProperties DEF EditsTyped
<1>2. EditsOf(h) \in SUBSET Nat /\ EditsOf(h) # {}
  BY <1>1 DEF EditsOf, HasEdit
<1>3. EditIndex(h) \in EditsOf(h)
  BY <1>2, MinIsLeast DEF EditIndex
<1>4. EditIndex(h) \in 1 .. Len(mObjectEditList)
      /\ mObjectEditList[EditIndex(h)].handle = h
  BY <1>1, <1>3 DEF EditsOf
<1> QED BY <1>4, ElementOfSeq DEF EditsTyped

LEMMA InodeSizeTyped ==
  ASSUME KernelTyped, NEW ino
  PROVE  InodeSize(ino) \in Int
<1>1. CASE \E p \in DOMAIN fs : fs[p].ino = ino
  <2>1. (CHOOSE p \in DOMAIN fs : fs[p].ino = ino) \in DOMAIN fs
    BY <1>1
  <2> QED BY <1>1, <2>1 DEF InodeSize, KernelTyped, TreeTyped, Nodes
<1>2. CASE ~\E p \in DOMAIN fs : fs[p].ino = ino
  BY <1>2 DEF InodeSize
<1> QED BY <1>1, <1>2

\* Editing in place.
LEMMA EditDatabaseTyped ==
  ASSUME ServerTypeInv, EditStep
  PROVE  TypeInv'
<1> DEFINE r == sv.req
           i == EditIndex(r.handle)
           e == mObjectEditList[i]
<1>1. /\ TypeInv /\ KernelTyped /\ EditsTyped
      /\ r.handle \in Int /\ r.offset \in Int /\ r.size \in Int
  BY DEF ServerTypeInv, ServerTyped, SvTyped, TypeInv, SvRecs, Asked, ReqRecs
<1>2. CASE doBeginEditObject \/ doSendPartialObjectRefused
  <2>1. UNCHANGED databaseVars
    BY <1>2 DEF doBeginEditObject, doSendPartialObjectRefused, OnlyAnswer
  <2> QED BY <1>1, <2>1, DatabaseStutter
<1>3. ASSUME NEW ino, NEW z \in Int, WriteInode(ino, z), UNCHANGED dbVars
      PROVE  TypeInv'
  <2>1. KernelTyped'
    BY <1>1, <1>3, WriteInodeTyped
  <2> QED BY <1>1, <1>3, <2>1, KernelOnlyTyped
<1>4. HasEdit(r.handle) => e \in EditRecs
  BY <1>1, EditFound
<1>5. CASE doSendPartialObject
  <2>1. UNCHANGED dbVars /\ e \in EditRecs
    BY <1>4, <1>5 DEF doSendPartialObject
  <2>2. PICK initial \in 0 .. r.size :
          LET written == IF initial > 0 THEN e.pos + initial ELSE 0
              received == IF initial < r.size THEN r.offset + r.size ELSE 0
          IN  \/ WriteInode(e.ino, Max({InodeSize(e.ino), written, received}))
              \/ WriteInode(e.ino, Max({InodeSize(e.ino), written}))
    BY <1>5 DEF doSendPartialObject
  <2> DEFINE written == IF initial > 0 THEN e.pos + initial ELSE 0
             received == IF initial < r.size THEN r.offset + r.size ELSE 0
  <2>3. written \in Int /\ received \in Int /\ InodeSize(e.ino) \in Int
    BY <1>1, <2>1, InodeSizeTyped DEF EditRecs
  <2>4. PICK a \in Int, b \in Int, c \in Int, ino \in Int :
          a = InodeSize(e.ino) /\ b = written /\ c = received /\ ino = e.ino
    BY <2>1, <2>3 DEF EditRecs
  <2>5. WriteInode(ino, Max({a, b, c})) \/ WriteInode(ino, Max({a, b}))
    BY <2>2, <2>4
  <2>6. Max({a, b, c}) \in Int /\ Max({a, b}) \in Int
    BY MaxOfThree, MaxOfTwo
  <2> QED BY <1>3, <2>1, <2>5, <2>6
<1>6. CASE doTruncateObject
  <2>1. /\ UNCHANGED dbVars
        /\ WriteInode(e.ino, r.offset) \/ UNCHANGED kernelVars
    BY <1>6 DEF doTruncateObject
  <2>2. PICK z \in Int : z = r.offset
    BY <1>1
  <2>3. PICK ino : ino = e.ino
    OBVIOUS
  <2>4. WriteInode(ino, z) \/ UNCHANGED kernelVars
    BY <2>1, <2>2, <2>3
  <2> QED BY <1>1, <1>3, <2>1, <2>4, KernelUnchanged, KernelOnlyTyped
<1>7. CASE doEndEditObject
  <2>1. UNCHANGED <<counter, local_server, task, issued, ub, alive, kernelVars>>
    BY <1>7 DEF doEndEditObject, fsVars, kernelVars
  <2>2. EndSendObject(e.path, e.handle, e.format, TRUE) \/ UNCHANGED db
    BY <1>7 DEF doEndEditObject
  <2>3. CASE EndSendObject(e.path, e.handle, e.format, TRUE)
    <3>1. PICK p, h, f : p = e.path /\ h = e.handle /\ f = e.format
      OBVIOUS
    <3>2. EndSendObject(p, h, f, TRUE)
      BY <2>3, <3>1
    <3> QED BY <1>1, <2>1, <3>2, EndSendStepTyped
  <2>4. CASE UNCHANGED db
    <3>1. EntriesTyped' /\ KernelTyped' /\ FlagsTyped'
      BY <1>1, <2>1, <2>4, KernelUnchanged DEF TypeInv, EntriesTyped, FlagsTyped
    <3> QED BY <1>1, <2>1, <2>4, <3>1, EntriesOnlyTyped
  <2> QED BY <2>2, <2>3, <2>4
<1> QED BY <1>2, <1>5, <1>6, <1>7 DEF EditStep

\* The notifier, the daemon, other programs, the host and the cable.
LEMMA OthersDatabaseTyped ==
  ASSUME ServerTypeInv,
         Notifier \/ Daemon \/ LocalProcess \/ HostRequest \/ Unplug
  PROVE  TypeInv'
<1>1. TypeInv
  BY DEF ServerTypeInv
<1>2. ASSUME NEW t \in Threads, AddEntryStep(t)
      PROVE  TypeInv'
  BY <1>1, <1>2, AddEntryTyped, AddEntryPositive DEF TypeInv
<1>3. CASE InotifyHandler
  <2>1. HandlesPositive'
    BY <1>1, <1>3, InotifyDomain, PositiveKept DEF TypeInv, Threads
  <2> QED BY <1>1, <1>3, <2>1, InotifyTyped DEF TypeInv
<1>4. CASE Notifier
  BY <1>2, <1>3, <1>4 DEF Notifier, Threads
<1>5. CASE InsertCard
  <2>1. AddStoragePath(Card, MTP_STORAGE_REMOVABLE_RAM, TRUE)
    BY <1>5 DEF InsertCard
  <2>2. HandlesPositive'
    BY <1>1, <2>1, PositiveKept DEF AddStoragePath, Threads, TypeInv
  <2> QED BY <1>1, <2>1, <2>2, AddStorageTyped DEF TypeInv
<1>6. CASE RemoveStorageFromDatabase
  <2>1. RemoveStorage(MTP_STORAGE_REMOVABLE_RAM)
    BY <1>6 DEF RemoveStorageFromDatabase
  <2>2. HandlesPositive'
    BY <1>1, <2>1, RemoveStorageDomain, PositiveKept DEF TypeInv
  <2> QED BY <1>1, <2>1, <2>2, RemoveStorageTyped DEF TypeInv
<1>7. CASE AddStorage \/ RemoveStorageFromServer \/ HostRequest \/ Unplug
  <2>1. UNCHANGED databaseVars
    BY <1>7 DEF AddStorage, RemoveStorageFromServer, HostRequest, Unplug
  <2> QED BY <1>1, <2>1, DatabaseStutter
<1>8. CASE Daemon
  BY <1>2, <1>5, <1>6, <1>7, <1>8 DEF Daemon, StorageStep, Threads
<1>9. CASE LocalProcess
  <2>1. KernelTyped' /\ UNCHANGED dbVars
    BY <1>1, <1>9, LocalTyped DEF LocalProcess, Local, TypeInv
  <2> QED BY <1>1, <2>1, KernelOnlyTyped
<1> QED BY <1>4, <1>7, <1>8, <1>9

\* Every step of the composition keeps the types of the database.
LEMMA DatabaseTypedStep ==
  ASSUME ServerTypeInv, Step
  PROVE  TypeInv'
BY PlainDatabaseTyped, SendDatabaseTyped, DeleteDatabaseTyped,
   MoveDatabaseTyped, EditDatabaseTyped, OthersDatabaseTyped
   DEF Step, ServerStep

-----------------------------------------------------------------------------
(* The server's part of the types.                                         *)

\* vector::erase: what is left, in order.
LEMMA RemoveAtElements ==
  ASSUME NEW S, NEW s \in Seq(S), NEW i \in 1 .. Len(s)
  PROVE  /\ RemoveAt(s, i) \in Seq(S)
         /\ Len(RemoveAt(s, i)) = Len(s) - 1
         /\ \A j \in 1 .. Len(s) - 1 :
              RemoveAt(s, i)[j] = IF j < i THEN s[j] ELSE s[j + 1]
<1> DEFINE a == SubSeq(s, 1, i - 1)
           b == SubSeq(s, i + 1, Len(s))
<1>1. Len(s) \in Nat /\ i \in Nat /\ 1 <= i /\ i <= Len(s)
      /\ \A j \in 1 .. Len(s) : s[j] \in S
  BY LenProperties, ElementOfSeq
<1>2. /\ a \in Seq(S) /\ Len(a) = i - 1
      /\ \A j \in 1 .. i - 1 : a[j] = s[j]
  <2>1. i - 1 \in Int /\ 1 \in Int
    BY <1>1
  <2>2. \A j \in 1 .. i - 1 : s[j] \in S
    <3>1. \A j \in 1 .. i - 1 : j \in 1 .. Len(s)
      BY <1>1
    <3> QED BY <1>1, <3>1
  <2>3. /\ a \in Seq(S)
        /\ Len(a) = IF 1 <= i - 1 THEN i - 1 - 1 + 1 ELSE 0
        /\ \A j \in 1 .. i - 1 - 1 + 1 : a[j] = s[1 + j - 1]
    BY <2>1, <2>2, SubSeqProperties
  <2> HIDE DEF a
  <2>4. Len(a) = i - 1
    BY <1>1, <2>3
  <2>5. ASSUME NEW j \in 1 .. i - 1 PROVE a[j] = s[j]
    <3>1. j \in 1 .. i - 1 - 1 + 1 /\ 1 + j - 1 = j
      BY <1>1
    <3> QED BY <2>3, <3>1
  <2> QED BY <2>3, <2>4, <2>5
<1>3. /\ b \in Seq(S) /\ Len(b) = Len(s) - i
      /\ \A j \in 1 .. Len(s) - i : b[j] = s[i + j]
  <2>1. i + 1 \in Int /\ Len(s) \in Int
    BY <1>1
  <2>2. \A j \in i + 1 .. Len(s) : s[j] \in S
    <3>1. \A j \in i + 1 .. Len(s) : j \in 1 .. Len(s)
      BY <1>1
    <3> QED BY <1>1, <3>1
  <2>3. /\ b \in Seq(S)
        /\ Len(b) = IF i + 1 <= Len(s) THEN Len(s) - (i + 1) + 1 ELSE 0
        /\ \A j \in 1 .. Len(s) - (i + 1) + 1 : b[j] = s[i + 1 + j - 1]
    BY <2>1, <2>2, SubSeqProperties
  <2> HIDE DEF b
  <2>4. Len(b) = Len(s) - i
    BY <1>1, <2>3
  <2>5. ASSUME NEW j \in 1 .. Len(s) - i PROVE b[j] = s[i + j]
    <3>1. j \in 1 .. Len(s) - (i + 1) + 1 /\ i + 1 + j - 1 = i + j
      BY <1>1
    <3> QED BY <2>3, <3>1
  <2> QED BY <2>3, <2>4, <2>5
<1> HIDE DEF a, b
<1> DEFINE c == a \o b
<1>4. /\ c \in Seq(S) /\ Len(c) = Len(a) + Len(b)
      /\ \A j \in 1 .. Len(a) + Len(b) :
           c[j] = IF j <= Len(a) THEN a[j] ELSE b[j - Len(a)]
  BY <1>2, <1>3, ConcatProperties
<1>5. RemoveAt(s, i) = c
  BY DEF RemoveAt, a, b
<1> HIDE DEF c
<1>6. Len(c) = Len(s) - 1
  BY <1>1, <1>2, <1>3, <1>4
<1>7. ASSUME NEW j \in 1 .. Len(s) - 1
      PROVE  c[j] = IF j < i THEN s[j] ELSE s[j + 1]
  <2>1. j \in 1 .. Len(a) + Len(b)
    BY <1>1, <1>2, <1>3
  <2>2. CASE j < i
    <3>1. j \in 1 .. i - 1 /\ j <= Len(a)
      BY <1>1, <1>2, <2>2
    <3> QED BY <1>2, <1>4, <2>1, <2>2, <3>1
  <2>3. CASE ~(j < i)
    <3>1. /\ ~(j <= Len(a)) /\ j - Len(a) \in 1 .. Len(s) - i
          /\ i + (j - Len(a)) = j + 1
      BY <1>1, <1>2, <2>3
    <3> QED BY <1>3, <1>4, <2>1, <2>3, <3>1
  <2> QED BY <2>2, <2>3
<1> QED BY <1>4, <1>5, <1>6, <1>7

LEMMA RemoveFirstTyped ==
  ASSUME NEW S, NEW s \in Seq(S), NEW e
  PROVE  RemoveFirst(s, e) \in Seq(S)
<1> DEFINE I == {i \in 1 .. Len(s) : s[i] = e}
<1>1. CASE \E i \in 1 .. Len(s) : s[i] = e
  <2>1. I \in SUBSET Nat /\ I # {}
    BY <1>1
  <2>2. Min(I) \in I
    BY <2>1, MinIsLeast
  <2>3. PICK k \in 1 .. Len(s) : k = Min(I)
    BY <2>2
  <2>4. SelectInSeq(s, LAMBDA v : v = e) = k
    BY <2>1, <2>3 DEF SelectInSeq
  <2>5. RemoveFirst(s, e) = RemoveAt(s, k)
    BY <1>1, <2>4 DEF RemoveFirst
  <2> QED BY <2>5, RemoveAtElements
<1>2. CASE ~\E i \in 1 .. Len(s) : s[i] = e
  BY <1>2 DEF RemoveFirst
<1> QED BY <1>1, <1>2

LEMMA SessionTypedStep ==
  ASSUME SessionTyped, Step
  PROVE  SessionTyped'
<1> USE DEF SessionTyped
<1>0. MTP_STORAGE_FIXED_RAM \in StorageIds
      /\ MTP_STORAGE_REMOVABLE_RAM \in StorageIds
  BY DEF StorageIds
<1>1. CASE UNCHANGED <<mStorages, mSessionOpen>>
  BY <1>1
<1>2. CASE Run
  BY <1>0, <1>2 DEF Run
<1>3. CASE doOpenSession \/ doCloseSession
  BY <1>3 DEF doOpenSession, doCloseSession
<1>4. CASE Daemon
  <2>1. CASE AddStorage
    BY <1>0, <2>1, AppendProperties DEF AddStorage
  <2>2. CASE RemoveStorageFromServer
    BY <1>0, <2>2, RemoveFirstTyped DEF RemoveStorageFromServer
  <2>3. CASE InsertCard \/ RemoveStorageFromDatabase
             \/ (/\ AddEntryStep("daemon")
                 /\ UNCHANGED <<locals, srvVars, envVars>>)
    BY <2>3 DEF InsertCard, RemoveStorageFromDatabase, srvVars
  <2> QED BY <1>4, <2>1, <2>2, <2>3 DEF Daemon, StorageStep
<1>5. CASE Notifier \/ LocalProcess \/ HostRequest \/ Unplug
  BY <1>5 DEF Notifier, LocalProcess, HostRequest, Unplug, srvVars
<1>6. CASE ReadRequest \/ CancelData \/ WriteResponse \/ Finish
  BY <1>6 DEF ReadRequest, CancelData, WriteResponse, Finish, srvVars
<1>7. CASE doPlain \/ doStorageQuery \/ doGetObjectInfo \/ doGetObject
           \/ doGetThumb \/ doGetObjectReferences
  <2>1. UNCHANGED <<mStorages, mSessionOpen>>
    BY <1>7 DEF doPlain, doStorageQuery, doGetObjectInfo, doGetObject,
                doGetThumb, doGetObjectReferences, OnlyAnswer, srvVars
  <2> QED BY <1>1, <2>1
<1>8. CASE SendStep
  <2>1. UNCHANGED <<mStorages, mSessionOpen>>
    BY <1>8 DEF SendStep, doSendObjectInfo, BeginStep, FinishObjectInfo,
                doSendObjectRefused, doSendObject, ReceiveFile, UnlinkPartial,
                FinishSendObject, OnlyAnswer, srvVars
  <2> QED BY <1>1, <2>1
<1>9. CASE DeleteStep \/ MoveStep
  BY <1>9 DEF DeleteStep, MoveStep, doDeleteObject, DeletePath,
              DeleteRecursive, doMoveObject, doSetObjectPropValue, FinishRename
<1>10. CASE EditStep
  BY <1>10 DEF EditStep, doBeginEditObject, doSendPartialObjectRefused,
               doSendPartialObject, doTruncateObject, doEndEditObject,
               OnlyAnswer
<1> QED BY <1>2, <1>3, <1>4, <1>5, <1>6, <1>7, <1>8, <1>9, <1>10
    DEF Step, ServerStep

\* The reservation: taken by ReadRequest or FinishSendObject, made by
\* FinishObjectInfo, left alone by everything else.
LEMMA SendTypedStep ==
  ASSUME ServerTypeInv, Step
  PROVE  SendTyped'
<1>0. mSend \in SendRecs /\ TasksTyped /\ HandlesPositive
  BY DEF ServerTypeInv, ServerTyped, SendTyped, TypeInv
<1>1. CASE UNCHANGED mSend
  BY <1>0, <1>1 DEF SendTyped
<1>2. CASE ReadRequest
  <2>1. \/ mSend' = mSend
        \/ mSend' = [mSend EXCEPT !.handle = kInvalidObjectHandle]
    BY <1>2 DEF ReadRequest
  <2> QED BY <1>0, <2>1 DEF SendRecs, SendTyped, kInvalidObjectHandle
<1>3. CASE FinishSendObject
  <2>1. mSend' = [mSend EXCEPT !.handle = kInvalidObjectHandle,
                               !.format = UNDEFINED]
    BY <1>3 DEF FinishSendObject
  <2>2. kInvalidObjectHandle \in Int /\ UNDEFINED \in Formats
    BY DEF kInvalidObjectHandle, Formats
  <2> QED BY <1>0, <2>1, <2>2 DEF SendRecs, SendTyped
<1>4. CASE FinishObjectInfo
  <2> DEFINE t == task["server"]
  <2>1. /\ t.handle \in Int /\ t.cur.path \in Paths /\ t.cur.format \in Formats
        /\ t.cur.size \in Int
    <3>1. t \in Tasks /\ t.handle \in Int
      BY <1>0 DEF TasksTyped, Threads, Tasks
    <3>2. t.cur \in Calls
      BY <3>1 DEF Tasks
    <3> QED BY <3>1, <3>2 DEF Calls
  <2>2. \/ UNCHANGED mSend
        \/ mSend' = [handle |-> t.handle, path |-> t.cur.path,
                     format |-> t.cur.format, size |-> t.cur.size]
    BY <1>4 DEF FinishObjectInfo
  <2> QED BY <1>1, <2>1, <2>2 DEF SendRecs, SendTyped
<1>5. CASE Notifier \/ Daemon \/ LocalProcess \/ HostRequest \/ Unplug
  BY <1>1, <1>5 DEF Notifier, Daemon, StorageStep, InsertCard, AddStorage,
     RemoveStorageFromServer, RemoveStorageFromDatabase, LocalProcess,
     HostRequest, Unplug, srvVars
<1>6. CASE Run \/ CancelData \/ WriteResponse \/ Finish
           \/ doOpenSession \/ doCloseSession
  BY <1>1, <1>6 DEF Run, CancelData, WriteResponse, Finish, doOpenSession,
                    doCloseSession, srvVars
<1>7. CASE doPlain \/ doStorageQuery \/ doGetObjectInfo \/ doGetObject
           \/ doGetThumb \/ doGetObjectReferences
  <2>1. UNCHANGED mSend
    BY <1>7 DEF doPlain, doStorageQuery, doGetObjectInfo, doGetObject,
                doGetThumb, doGetObjectReferences, OnlyAnswer, srvVars
  <2> QED BY <1>1, <2>1
<1>8. CASE doSendObjectInfo \/ BeginStep \/ doSendObjectRefused \/ doSendObject
           \/ ReceiveFile \/ UnlinkPartial
  <2>1. UNCHANGED mSend
    BY <1>8 DEF doSendObjectInfo, BeginStep, doSendObjectRefused, doSendObject,
                ReceiveFile, UnlinkPartial, OnlyAnswer, srvVars
  <2> QED BY <1>1, <2>1
<1>9. CASE DeleteStep \/ MoveStep
  BY <1>1, <1>9 DEF DeleteStep, MoveStep, doDeleteObject, DeletePath,
     DeleteRecursive, doMoveObject, doSetObjectPropValue, FinishRename
<1>10. CASE EditStep
  BY <1>1, <1>10 DEF EditStep, doBeginEditObject, doSendPartialObjectRefused,
     doSendPartialObject, doTruncateObject, doEndEditObject, OnlyAnswer
<1> QED BY <1>2, <1>3, <1>4, <1>5, <1>6, <1>7, <1>8, <1>9, <1>10
    DEF Step, ServerStep, SendStep

\* What a step may do to the list of open edits: close the first one, open one
\* for an object that has none, change one but not its object or path, close
\* one.
EditsChange ==
  LET list == mObjectEditList IN
  \/ list' = list
  \/ list # <<>> /\ list' = Tail(list)
  \/ \E e \in EditRecs :
       /\ ~HasEdit(e.handle) /\ list' = Append(list, e)
       /\ e.handle \in DOMAIN db /\ e.path = db[e.handle].path
       /\ UNCHANGED databaseVars
  \/ \E i \in 1 .. Len(list), e \in EditRecs :
       /\ e.handle = list[i].handle /\ e.path = list[i].path
       /\ list' = [list EXCEPT ![i] = e]
  \/ \E i \in 1 .. Len(list) : list' = RemoveAt(list, i)

LEMMA EditsChanged ==
  ASSUME ServerTypeInv, Step
  PROVE  EditsChange
<1> DEFINE r == sv.req
           list == mObjectEditList
           i == EditIndex(r.handle)
<1>0. /\ EditsTyped /\ TypeInv /\ KernelTyped /\ EntriesTyped
      /\ DOMAIN db \subseteq Nat
      /\ sv \in SvRecs /\ r \in Asked /\ r.offset \in Int /\ r.size \in Int
  BY DEF ServerTypeInv, ServerTyped, SvTyped, SvRecs, Asked, ReqRecs, TypeInv,
         HandlesPositive, Positive
<1>1. CASE UNCHANGED mObjectEditList
  BY <1>1 DEF EditsChange
<1>2. CASE Finish
  BY <1>2 DEF Finish, EditsChange
<1>3. CASE doBeginEditObject
  <2> DEFINE h == r.handle
             p == db[h].path
             e == [handle |-> h, path |-> p, size |-> db[h].object_size,
                   format |-> db[h].object_format, ino |-> fs[p].ino,
                   pos |-> 0]
  <2>1. CASE ~HasEdit(h) /\ FilePathResponse(h) = "OK" /\ IsFile(p)
    <3>1. h \in DOMAIN db /\ h \in Nat /\ db[h] \in DbEntry
      BY <1>0, <2>1 DEF FilePathResponse, EntriesTyped
    <3>2. fs[p].ino \in Int
      BY <1>0, <2>1 DEF IsFile, KernelTyped, TreeTyped, Nodes
    <3>3. e \in EditRecs
      BY <3>1, <3>2 DEF DbEntry, EditRecs, Paths
    <3>4. list' = Append(list, e) /\ e.handle = h /\ e.path = db[h].path
          /\ UNCHANGED databaseVars
      BY <1>3, <2>1 DEF doBeginEditObject
    <3> HIDE DEF e
    <3> QED BY <2>1, <3>1, <3>3, <3>4 DEF EditsChange
  <2>2. CASE ~(~HasEdit(h) /\ FilePathResponse(h) = "OK" /\ IsFile(p))
    <3>1. list' = list
      BY <1>3, <2>2 DEF doBeginEditObject
    <3> QED BY <1>1, <3>1
  <2> QED BY <2>1, <2>2
<1>4. HasEdit(r.handle) => i \in 1 .. Len(list) /\ list[i] \in EditRecs
  BY <1>0, EditFound
<1>5. DOMAIN list = 1 .. Len(list)
  BY <1>0, LenProperties DEF EditsTyped
<1>6. CASE doSendPartialObject
  <2>1. i \in 1 .. Len(list) /\ list[i] \in EditRecs
    BY <1>4, <1>6 DEF doSendPartialObject
  <2>2. PICK initial \in 0 .. r.size :
          \/ list' = [list EXCEPT ![i].pos = @ + initial,
                                  ![i].size = Max({@, r.offset + r.size})]
          \/ list' = [list EXCEPT ![i].pos = @ + initial]
    BY <1>6 DEF doSendPartialObject
  <2>3. PICK k \in 1 .. Len(list) : k = i
    BY <2>1
  <2>4. initial \in Int
    BY <1>0
  <2>5. PICK a \in Int, b \in Int : a = list[k].size /\ b = r.offset + r.size
    BY <1>0, <2>1, <2>3 DEF EditRecs
  <2> DEFINE m == Max({a, b})
             e1 == [list[k] EXCEPT !.pos = @ + initial, !.size = m]
             e2 == [list[k] EXCEPT !.pos = @ + initial]
  <2>6. m \in Int
    BY MaxOfTwo
  <2> HIDE DEF m
  <2>7. /\ e1 \in EditRecs /\ e1.handle = list[k].handle
        /\ e2 \in EditRecs /\ e2.handle = list[k].handle
        /\ e1.path = list[k].path /\ e2.path = list[k].path
    <3>1. PICK x \in EditRecs : x = list[k]
      BY <2>1, <2>3
    <3>2. x.pos + initial \in Int
      BY <2>4 DEF EditRecs
    <3>3. /\ [x EXCEPT !.pos = @ + initial, !.size = m] \in EditRecs
          /\ [x EXCEPT !.pos = @ + initial] \in EditRecs
      BY <2>6, <3>2 DEF EditRecs
    <3>4. /\ [x EXCEPT !.pos = @ + initial, !.size = m].handle = x.handle
          /\ [x EXCEPT !.pos = @ + initial].handle = x.handle
          /\ [x EXCEPT !.pos = @ + initial, !.size = m].path = x.path
          /\ [x EXCEPT !.pos = @ + initial].path = x.path
      BY DEF EditRecs
    <3> QED BY <3>1, <3>3, <3>4
  <2>8. list' = [list EXCEPT ![k] = e1] \/ list' = [list EXCEPT ![k] = e2]
    <3>1. CASE list' = [list EXCEPT ![i].pos = @ + initial]
      BY <2>3, <3>1
    <3>2. CASE list' = [list EXCEPT ![i].pos = @ + initial,
                                    ![i].size = Max({@, r.offset + r.size})]
      <4>1. list' = [list EXCEPT ![k] =
                       [list[k] EXCEPT !.pos = @ + initial,
                                       !.size = Max({@, r.offset + r.size})]]
        BY <1>5, <2>1, <2>3, <3>2 DEF EditRecs
      <4>2. Max({list[k].size, r.offset + r.size}) = m
        BY <2>5 DEF m
      <4> QED BY <2>1, <2>3, <4>1, <4>2 DEF EditRecs
    <3> QED BY <2>2, <3>1, <3>2
  <2> HIDE DEF e1, e2
  <2> QED BY <2>7, <2>8 DEF EditsChange
<1>7. CASE doTruncateObject
  <2>1. CASE HasEdit(r.handle)
    <3>1. i \in 1 .. Len(list) /\ list[i] \in EditRecs
      BY <1>4, <2>1
    <3>2. PICK k \in 1 .. Len(list) : k = i
      BY <3>1
    <3> DEFINE e == [list[k] EXCEPT !.size = r.offset]
    <3>3. e \in EditRecs /\ e.handle = list[k].handle /\ e.path = list[k].path
      BY <1>0, <3>1, <3>2 DEF EditRecs
    <3>4. list' = [list EXCEPT ![k] = e]
      BY <1>7, <2>1, <3>2 DEF doTruncateObject
    <3> HIDE DEF e
    <3> QED BY <3>3, <3>4 DEF EditsChange
  <2>2. CASE ~HasEdit(r.handle)
    <3>1. list' = list
      BY <1>7, <2>2 DEF doTruncateObject
    <3> QED BY <1>1, <3>1
  <2> QED BY <2>1, <2>2
<1>8. CASE doEndEditObject
  <2>1. CASE HasEdit(r.handle)
    <3>1. list' = RemoveAt(list, i)
      BY <1>8, <2>1 DEF doEndEditObject
    <3> QED BY <1>4, <2>1, <3>1 DEF EditsChange
  <2>2. CASE ~HasEdit(r.handle)
    <3>1. list' = list
      BY <1>8, <2>2 DEF doEndEditObject
    <3> QED BY <1>1, <3>1
  <2> QED BY <2>1, <2>2
<1>9. CASE doSendPartialObjectRefused
  BY <1>1, <1>9 DEF doSendPartialObjectRefused, OnlyAnswer
<1>10. CASE Notifier \/ Daemon \/ LocalProcess \/ HostRequest \/ Unplug
  BY <1>1, <1>10 DEF Notifier, Daemon, StorageStep, InsertCard, AddStorage,
     RemoveStorageFromServer, RemoveStorageFromDatabase, LocalProcess,
     HostRequest, Unplug, srvVars
<1>11. CASE Run \/ ReadRequest \/ CancelData \/ WriteResponse
            \/ doOpenSession \/ doCloseSession
  BY <1>1, <1>11 DEF Run, ReadRequest, CancelData, WriteResponse,
                     doOpenSession, doCloseSession, srvVars
<1>12. CASE doPlain \/ doStorageQuery \/ doGetObjectInfo \/ doGetObject
            \/ doGetThumb \/ doGetObjectReferences
  <2>1. UNCHANGED mObjectEditList
    BY <1>12 DEF doPlain, doStorageQuery, doGetObjectInfo, doGetObject,
                 doGetThumb, doGetObjectReferences, OnlyAnswer, srvVars
  <2> QED BY <1>1, <2>1
<1>13. CASE SendStep
  <2>1. UNCHANGED mObjectEditList
    BY <1>13 DEF SendStep, doSendObjectInfo, BeginStep, FinishObjectInfo,
                 doSendObjectRefused, doSendObject, ReceiveFile, UnlinkPartial,
                 FinishSendObject, OnlyAnswer, srvVars
  <2> QED BY <1>1, <2>1
<1>14. CASE DeleteStep \/ MoveStep
  BY <1>1, <1>14 DEF DeleteStep, MoveStep, doDeleteObject, DeletePath,
     DeleteRecursive, doMoveObject, doSetObjectPropValue, FinishRename
<1> QED BY <1>2, <1>3, <1>6, <1>7, <1>8, <1>9, <1>10, <1>11, <1>12, <1>13,
           <1>14
    DEF Step, ServerStep, EditStep

LEMMA EditsTypedStep ==
  ASSUME EditsTyped, EditsChange
  PROVE  EditsTyped'
<1> DEFINE list == mObjectEditList
<1>0. list \in Seq(EditRecs)
  BY DEF EditsTyped
<1>1. CASE list' = list
  BY <1>0, <1>1 DEF EditsTyped
<1>2. CASE list # <<>> /\ list' = Tail(list)
  BY <1>0, <1>2, HeadTailProperties DEF EditsTyped
<1>3. CASE \E e \in EditRecs : ~HasEdit(e.handle) /\ list' = Append(list, e)
  BY <1>0, <1>3, AppendProperties DEF EditsTyped
<1>4. CASE \E i \in 1 .. Len(list), e \in EditRecs :
             e.handle = list[i].handle /\ list' = [list EXCEPT ![i] = e]
  BY <1>0, <1>4, ExceptSeq DEF EditsTyped
<1>5. CASE \E i \in 1 .. Len(list) : list' = RemoveAt(list, i)
  BY <1>0, <1>5, RemoveAtElements DEF EditsTyped
<1> QED BY <1>1, <1>2, <1>3, <1>4, <1>5 DEF EditsChange

\* What a step may do to the server's thread, save entering and leaving the
\* directories of a deletion.
SvMove ==
  \E pc \in SvPcs \ {"delete_tree"} :
    \/ sv' = sv
    \/ sv' = [sv EXCEPT !.pc = pc]
    \/ \E code \in Codes : sv' = [sv EXCEPT !.pc = pc, !.result = code]
    \/ \E code \in Codes, d \in BOOLEAN :
         sv' = [sv EXCEPT !.pc = pc, !.result = code, !.hasData = d]
    \/ \E code \in Codes, p \in Paths :
         sv' = [sv EXCEPT !.pc = pc, !.result = code, !.path = p]
    \/ \E p \in Paths : sv' = [sv EXCEPT !.pc = pc, !.path = p]
    \/ \E n \in Int : sv' = [sv EXCEPT !.pc = pc, !.ino = n]
    \/ \E r \in Asked, d, c \in BOOLEAN :
         sv' = [sv EXCEPT !.pc = pc, !.req = r, !.hasData = d, !.command = c]

LEMMA SvMoved ==
  ASSUME SvTyped, SvMove
  PROVE  SvTyped'
<1>1. PICK pc \in SvPcs \ {"delete_tree"} :
        \/ sv' = sv
        \/ sv' = [sv EXCEPT !.pc = pc]
        \/ \E code \in Codes : sv' = [sv EXCEPT !.pc = pc, !.result = code]
        \/ \E code \in Codes, d \in BOOLEAN :
             sv' = [sv EXCEPT !.pc = pc, !.result = code, !.hasData = d]
        \/ \E code \in Codes, p \in Paths :
             sv' = [sv EXCEPT !.pc = pc, !.result = code, !.path = p]
        \/ \E p \in Paths : sv' = [sv EXCEPT !.pc = pc, !.path = p]
        \/ \E n \in Int : sv' = [sv EXCEPT !.pc = pc, !.ino = n]
        \/ \E r \in Asked, d, c \in BOOLEAN :
             sv' = [sv EXCEPT !.pc = pc, !.req = r, !.hasData = d,
                              !.command = c]
  BY DEF SvMove
<1>2. CASE sv' = sv
  BY <1>2 DEF SvTyped
<1>3. sv \in SvRecs
  BY DEF SvTyped
<1>4. CASE sv' # sv
  <2>1. sv' \in SvRecs /\ sv'.pc = pc
    BY <1>1, <1>3, <1>4 DEF SvRecs
  <2> QED BY <2>1 DEF SvTyped
<1> QED BY <1>2, <1>4

\* The codes the database answers with are codes of the server.
LEMMA CodesTyped ==
  ASSUME NEW h
  PROVE  FilePathResponse(h) \in Codes /\ DeleteFileResponse(h) \in Codes
BY DEF FilePathResponse, DeleteFileResponse, Codes

LEMMA RefusalsTyped ==
  ASSUME NEW r
  PROVE  Refusals(r) \cup NoSpace \subseteq Codes
<1>1. FilePathResponse(r.parent) \in Codes
  BY CodesTyped
<1>2. NoSpace \subseteq Codes
  BY DEF NoSpace, Codes
<1>3. {"INVALID_STORAGE_ID", "INVALID_PARENT_OBJECT", "GENERAL_ERROR"}
        \subseteq Codes
  BY DEF Codes
<1> QED BY <1>1, <1>2, <1>3 DEF Refusals

\* Only what has its answer: the thread writes it next.
LEMMA AnswerMoves ==
  ASSUME NEW C \in SUBSET Codes, OnlyAnswer(C)
  PROVE  SvMove
BY DEF OnlyAnswer, Reply, SvMove, SvPcs

LEMMA AnswersMove ==
  ASSUME doPlain \/ doStorageQuery \/ doGetObjectInfo \/ doGetObject
         \/ doGetThumb \/ doGetObjectReferences
  PROVE  SvMove
<1>1. CASE doPlain
  <2>1. PICK code \in Codes : OnlyAnswer({code})
    BY <1>1 DEF doPlain, Codes
  <2> QED BY <2>1, AnswerMoves
<1>2. CASE doStorageQuery
  <2>1. PICK code \in Codes : OnlyAnswer({code})
    BY <1>2 DEF doStorageQuery, Codes
  <2> QED BY <2>1, AnswerMoves
<1>3. CASE doGetObjectInfo
  <2>1. FilePathResponse(sv.req.handle) \in Codes
    BY CodesTyped
  <2>2. PICK code \in Codes : OnlyAnswer({code})
    BY <1>3, <2>1 DEF doGetObjectInfo, Codes
  <2> QED BY <2>2, AnswerMoves
<1>4. CASE doGetObject
  <2> DEFINE h == sv.req.handle
             p == db[h].path
             C == IF ~HasStorage THEN {"INVALID_OBJECT_HANDLE"}
                  ELSE IF FilePathResponse(h) # "OK" THEN {FilePathResponse(h)}
                  ELSE IF ~IsFile(p) THEN {"GENERAL_ERROR"}
                  ELSE {"OK"} \cup CancelCode
                       \cup (IF fs[p].size < db[h].object_size
                             THEN {"GENERAL_ERROR"} ELSE {})
  <2>1. FilePathResponse(h) \in Codes
    BY CodesTyped
  <2>2. C \subseteq Codes
    BY <2>1 DEF Codes, CancelCode
  <2>3. OnlyAnswer(C)
    BY <1>4 DEF doGetObject
  <2> HIDE DEF C
  <2>4. PICK D \in SUBSET Codes : D = C
    BY <2>2
  <2> QED BY <2>3, <2>4, AnswerMoves
<1>5. CASE doGetThumb
  <2>1. OnlyAnswer({"GENERAL_ERROR"}) \/ OnlyAnswer({"OK"}) \/ sv' = sv
    BY <1>5 DEF doGetThumb, srvVars
  <2>2. {"GENERAL_ERROR"} \in SUBSET Codes /\ {"OK"} \in SUBSET Codes
    BY DEF Codes
  <2>3. sv' = sv => SvMove
    BY DEF SvMove, SvPcs
  <2> QED BY <2>1, <2>2, <2>3, AnswerMoves
<1>6. CASE doGetObjectReferences
  <2>1. sv' = sv \/ \E code \in Codes : OnlyAnswer({code})
    BY <1>6 DEF doGetObjectReferences, srvVars, Codes
  <2>2. sv' = sv => SvMove
    BY DEF SvMove, SvPcs
  <2> QED BY <2>1, <2>2, AnswerMoves
<1> QED BY <1>1, <1>2, <1>3, <1>4, <1>5, <1>6

LEMMA SendMoves ==
  ASSUME ServerTypeInv, SendStep
  PROVE  SvMove
<1> USE DEF SvPcs
<1>0. /\ KernelTyped' /\ sv \in SvRecs /\ sv.req \in Asked
      /\ {"OK", "GENERAL_ERROR", "NO_VALID_OBJECT_INFO",
          "TRANSACTION_CANCELLED"} \subseteq Codes
  BY DatabaseTypedStep
     DEF Step, ServerStep, ServerTypeInv, ServerTyped, SvTyped, SvRecs, TypeInv,
         Codes
<1>1. CASE doSendObjectInfo
  <2> DEFINE C == Refusals(sv.req) \cup NoSpace
  <2>1. CASE OnlyAnswer(C)
    <3>1. PICK r : r = sv.req
      OBVIOUS
    <3>2. C \in SUBSET Codes
      BY <3>1, RefusalsTyped
    <3>3. PICK D \in SUBSET Codes : D = C
      BY <3>2
    <3> HIDE DEF C
    <3> QED BY <2>1, <3>3, AnswerMoves
  <2>2. CASE Goto("begin")
    BY <2>2 DEF Goto, SvMove
  <2> QED BY <1>1, <2>1, <2>2 DEF doSendObjectInfo
<1>2. CASE BeginStep
  BY <1>2 DEF BeginStep, srvVars, SvMove
<1>3. CASE FinishObjectInfo
  <2>1. \E code \in Codes : sv' = [sv EXCEPT !.pc = "reply", !.result = code]
    BY <1>0, <1>3 DEF FinishObjectInfo, Reply
  <2> QED BY <2>1 DEF SvMove
<1>4. CASE doSendObjectRefused
  <2>1. \E code \in Codes : sv' = [sv EXCEPT !.pc = "end_send", !.result = code]
    BY <1>0, <1>4 DEF doSendObjectRefused
  <2> QED BY <2>1 DEF SvMove
<1>5. CASE doSendObject
  <2> DEFINE p == mSend.path
  <2>1. /\ sv' = [sv EXCEPT !.pc = "receive", !.ino = fs'[p].ino]
        /\ p \in DOMAIN fs'
    BY <1>5 DEF doSendObject, FsResize, FsCreate, IsFile, Put
  <2>2. fs'[p].ino \in Int
    BY <1>0, <2>1 DEF KernelTyped, TreeTyped, Nodes
  <2> QED BY <2>1, <2>2 DEF SvMove
<1>6. CASE ReceiveFile
  <2>1. \E pc \in {"end_send", "unlink"}, code \in Codes :
          sv' = [sv EXCEPT !.pc = pc, !.result = code]
    BY <1>0, <1>6 DEF ReceiveFile
  <2> QED BY <2>1 DEF SvMove
<1>7. CASE UnlinkPartial
  BY <1>7 DEF UnlinkPartial, Goto, SvMove
<1>8. CASE FinishSendObject
  BY <1>8 DEF FinishSendObject, Goto, SvMove
<1> QED BY <1>1, <1>2, <1>3, <1>4, <1>5, <1>6, <1>7, <1>8 DEF SendStep

LEMMA MoveMoves ==
  ASSUME ServerTypeInv, MoveStep
  PROVE  SvMove
<1> DEFINE h == sv.req.handle
<1>0. /\ FilePathResponse(h) \in Codes /\ sv.req \in Asked /\ EntriesTyped
      /\ {"OK", "GENERAL_ERROR", "INVALID_OBJECT_HANDLE", "DEVICE_BUSY"}
           \subseteq Codes
  BY CodesTyped
     DEF ServerTypeInv, ServerTyped, SvTyped, SvRecs, TypeInv, Codes
<1>1. CASE doMoveObject
  <2>1. \E code \in Codes : Reply(code)
    BY <1>0, <1>1 DEF doMoveObject
  <2> QED BY <2>1 DEF Reply, SvMove, SvPcs
<1>2. CASE doSetObjectPropValue
  <2> DEFINE q == Append(Front(db[h].path), sv.req.name)
  <2>1. \/ /\ FilePathResponse(h) = "OK"
           /\ sv' = [sv EXCEPT !.pc = "set_path", !.path = q]
        \/ \E code \in Codes : Reply(code)
    BY <1>0, <1>2 DEF doSetObjectPropValue
  <2>2. CASE \E code \in Codes : Reply(code)
    BY <2>2 DEF Reply, SvMove, SvPcs
  <2>3. CASE /\ FilePathResponse(h) = "OK"
             /\ sv' = [sv EXCEPT !.pc = "set_path", !.path = q]
    <3>1. h \in DOMAIN db
      BY <2>3 DEF FilePathResponse
    <3>2. db[h].path \in Paths
      BY <1>0, <3>1 DEF EntriesTyped, DbEntry, Paths
    <3>3. sv.req.name \in PathNames
      BY <1>0, <1>2
         DEF doSetObjectPropValue, Handling, Asked, DataIn, PathNames
    <3>4. q \in Paths
      BY <3>2, <3>3, FrontPath, AppendPath
    <3> QED BY <2>3, <3>4 DEF SvMove, SvPcs
  <2> QED BY <2>1, <2>2, <2>3
<1>3. CASE FinishRename
  <2>1. \E code \in Codes : Reply(code)
    BY <1>0, <1>3 DEF FinishRename
  <2> QED BY <2>1 DEF Reply, SvMove, SvPcs
<1> QED BY <1>1, <1>2, <1>3 DEF MoveStep

LEMMA EditMoves ==
  ASSUME EditStep
  PROVE  SvMove
<1> DEFINE h == sv.req.handle
<1>0. /\ FilePathResponse(h) \in Codes
      /\ {"OK", "GENERAL_ERROR", "TRANSACTION_CANCELLED"} \subseteq Codes
  BY CodesTyped DEF Codes
<1>1. CASE doBeginEditObject
  <2>1. \E code \in Codes : Reply(code)
    BY <1>0, <1>1 DEF doBeginEditObject
  <2> QED BY <2>1 DEF Reply, SvMove, SvPcs
<1>2. CASE doSendPartialObjectRefused
  <2>1. OnlyAnswer({"GENERAL_ERROR"})
    BY <1>2 DEF doSendPartialObjectRefused
  <2>2. {"GENERAL_ERROR"} \in SUBSET Codes
    BY <1>0
  <2> QED BY <2>1, <2>2, AnswerMoves
<1>3. CASE doSendPartialObject
  <2>1. \E code \in Codes, d \in BOOLEAN :
          sv' = [sv EXCEPT !.pc = "reply", !.result = code, !.hasData = d]
    <3>1. PICK initial \in 0 .. sv.req.size :
            \/ sv' = [sv EXCEPT !.pc = "reply", !.result = "OK",
                               !.hasData = FALSE]
            \/ \E code \in {"TRANSACTION_CANCELLED", "GENERAL_ERROR"} :
                 sv' = [sv EXCEPT !.pc = "reply", !.result = code,
                                  !.hasData = (initial > 0)]
      BY <1>3 DEF doSendPartialObject
    <3>2. (initial > 0) \in BOOLEAN
      OBVIOUS
    <3>3. PICK d \in BOOLEAN : d = (initial > 0)
      BY <3>2
    <3> QED BY <1>0, <3>1, <3>3
  <2> QED BY <2>1 DEF SvMove, SvPcs
<1>4. CASE doTruncateObject
  <2>1. \E code \in Codes : Reply(code)
    BY <1>0, <1>4 DEF doTruncateObject
  <2> QED BY <2>1 DEF Reply, SvMove, SvPcs
<1>5. CASE doEndEditObject
  <2>1. \E code \in Codes : Reply(code)
    BY <1>0, <1>5 DEF doEndEditObject
  <2> QED BY <2>1 DEF Reply, SvMove, SvPcs
<1> QED BY <1>1, <1>2, <1>3, <1>4, <1>5 DEF EditStep

LEMMA ConsSeq ==
  ASSUME NEW S, NEW x \in S, NEW s \in Seq(S)
  PROVE  <<x>> \o s \in Seq(S) /\ <<x>> \o s # <<>>
<1>1. <<x>> \in Seq(S) /\ Len(<<x>>) = 1
  OBVIOUS
<1>2. /\ <<x>> \o s \in Seq(S) /\ Len(<<x>> \o s) = 1 + Len(s)
      /\ Len(s) \in Nat
  BY <1>1, ConcatProperties, LenProperties
<1>3. Len(<<x>> \o s) # 0
  BY <1>2
<1> QED BY <1>2, <1>3, EmptySeq

\* A directory about to be emptied, and what is left of one.
LEMMA FrameTyped ==
  ASSUME KernelTyped, NEW p \in Paths
  PROVE  Frame(p) \in Frames
BY DEF Frame, Frames, Listing, KernelTyped, TreeTyped

LEMMA DeleteSvTyped ==
  ASSUME ServerTypeInv, DeleteStep
  PROVE  SvTyped'
<1>0. /\ SvTyped /\ sv \in SvRecs /\ sv.path \in Paths
      /\ sv.stack \in Seq(Frames)
      /\ sv.pc = "delete_tree" => sv.stack # <<>>
      /\ KernelTyped /\ EntriesTyped
  BY DEF ServerTypeInv, ServerTyped, SvTyped, SvRecs, TypeInv
<1>1. CASE doDeleteObject
  <2> DEFINE h == sv.req.handle
             code == IF ~HasStorage THEN "INVALID_OBJECT_HANDLE"
                     ELSE IF FilePathResponse(h) # "OK" THEN FilePathResponse(h)
                     ELSE DeleteFileResponse(h)
             found == HasStorage /\ h \in DOMAIN db
             q == IF found THEN db[h].path ELSE sv.path
             pc == IF code = "OK" THEN "delete_path" ELSE "reply"
  <2>1. FilePathResponse(h) \in Codes /\ DeleteFileResponse(h) \in Codes
        /\ "INVALID_OBJECT_HANDLE" \in Codes
    BY CodesTyped DEF Codes
  <2>2. code \in Codes
    BY <2>1
  <2>3. q \in Paths
    BY <1>0 DEF EntriesTyped, DbEntry, Paths
  <2>4. pc \in SvPcs \ {"delete_tree"}
    BY DEF SvPcs
  <2>5. sv' = [sv EXCEPT !.pc = pc, !.result = code, !.path = q]
    BY <1>1 DEF doDeleteObject
  <2> HIDE DEF code, q, pc
  <2>6. SvMove
    BY <2>2, <2>3, <2>4, <2>5 DEF SvMove
  <2> QED BY <1>0, <2>6, SvMoved
<1>2. CASE DeletePath
  <2>1. \/ sv' = [sv EXCEPT !.pc = "delete_tree", !.stack = <<Frame(sv.path)>>]
        \/ sv' = [sv EXCEPT !.pc = "reply"]
    BY <1>2 DEF DeletePath
  <2>2. PICK p \in Paths : p = sv.path
    BY <1>0
  <2>3. PICK f \in Frames : f = Frame(sv.path)
    BY <1>0, <2>2, FrameTyped
  <2>4. <<f>> \in Seq(Frames) /\ <<f>> # <<>>
    OBVIOUS
  <2>5. CASE sv' = [sv EXCEPT !.pc = "delete_tree", !.stack = <<f>>]
    <3>1. sv' \in SvRecs
      BY <1>0, <2>4, <2>5 DEF SvRecs, SvPcs
    <3>2. sv'.stack = <<f>>
      BY <1>0, <2>5 DEF SvRecs
    <3> QED BY <2>4, <3>1, <3>2 DEF SvTyped
  <2>6. CASE sv' = [sv EXCEPT !.pc = "reply"]
    BY <1>0, <2>6, SvMoved DEF SvMove, SvPcs
  <2> QED BY <2>1, <2>3, <2>5, <2>6
<1>3. CASE DeleteRecursive
  <2> DEFINE top == Head(sv.stack)
             rest(f) == <<[top EXCEPT !.left = @ \ {f}]>> \o Tail(sv.stack)
  <2>1. sv.pc = "delete_tree"
    BY <1>3 DEF DeleteRecursive, At
  <2>2. top \in Frames /\ Tail(sv.stack) \in Seq(Frames)
    BY <1>0, <2>1, HeadTailProperties
  <2>3. \/ \E p \in top.left :
             \/ sv' = [sv EXCEPT !.stack = <<Frame(p)>> \o rest(p)]
             \/ sv' = [sv EXCEPT !.stack = rest(p)]
        \/ sv' = [sv EXCEPT !.stack = Tail(@),
                            !.pc = IF Tail(sv.stack) = <<>> THEN "reply"
                                   ELSE "delete_tree"]
    BY <1>3 DEF DeleteRecursive
  <2>4. CASE \E p \in top.left :
               \/ sv' = [sv EXCEPT !.stack = <<Frame(p)>> \o rest(p)]
               \/ sv' = [sv EXCEPT !.stack = rest(p)]
    <3>1. PICK p \in top.left :
            \/ sv' = [sv EXCEPT !.stack = <<Frame(p)>> \o rest(p)]
            \/ sv' = [sv EXCEPT !.stack = rest(p)]
      BY <2>4
    <3>2. p \in Paths
      BY <2>2 DEF Frames
    <3>3. [top EXCEPT !.left = @ \ {p}] \in Frames
      BY <2>2 DEF Frames
    <3>4. PICK a \in Frames, t \in Seq(Frames), f \in Frames :
            /\ a = [top EXCEPT !.left = @ \ {p}] /\ t = Tail(sv.stack)
            /\ f = Frame(p)
      BY <1>0, <2>2, <3>2, <3>3, FrameTyped
    <3>5. <<a>> \o t \in Seq(Frames) /\ <<a>> \o t # <<>>
      BY ConsSeq
    <3>6. <<f>> \o (<<a>> \o t) \in Seq(Frames) /\ <<f>> \o (<<a>> \o t) # <<>>
      BY <3>5, ConsSeq
    <3>7. \E s \in Seq(Frames) : s # <<>> /\ sv' = [sv EXCEPT !.stack = s]
      BY <3>1, <3>4, <3>5, <3>6
    <3>8. PICK s \in Seq(Frames) : s # <<>> /\ sv' = [sv EXCEPT !.stack = s]
      BY <3>7
    <3>9. sv' \in SvRecs /\ sv'.stack = s
      BY <1>0, <3>8 DEF SvRecs
    <3> QED BY <3>8, <3>9 DEF SvTyped
  <2>5. CASE sv' = [sv EXCEPT !.stack = Tail(@),
                              !.pc = IF Tail(sv.stack) = <<>> THEN "reply"
                                     ELSE "delete_tree"]
    <3>1. PICK t \in Seq(Frames) : t = Tail(sv.stack)
      BY <2>2
    <3>2. sv' = [sv EXCEPT !.stack = t, !.pc = IF t = <<>> THEN "reply"
                                               ELSE "delete_tree"]
      BY <2>5, <3>1
    <3>3. sv' \in SvRecs
      BY <1>0, <3>2 DEF SvRecs, SvPcs
    <3>4. sv'.stack = t /\ (sv'.pc = "delete_tree" => t # <<>>)
      BY <1>0, <3>2 DEF SvRecs
    <3> QED BY <3>3, <3>4 DEF SvTyped
  <2> QED BY <2>3, <2>4, <2>5
<1> QED BY <1>1, <1>2, <1>3 DEF DeleteStep

\* What the host asks for is typed, and one of the operations it may ask for.
LEMMA RequestsTyped == Requests \subseteq {r \in Asked : r.op \in HostOps}
<1> DEFINE A(op, h, p, s, n, f, z, o) ==
      /\ op \in OpNames \cap HostOps /\ h \in Int /\ p \in Int /\ s \in StorageIds \cup {0}
      /\ n \in Names \cup {NoName} /\ (op \in DataIn => n \in Names)
      /\ f \in Formats /\ z \in Int /\ o \in Int
<1>1. /\ UNDEFINED \in Formats /\ MTP_PARENT_ROOT \in Int /\ PartSize \in Int
      /\ MaxSize \in Int /\ Handles \subseteq Int /\ Sizes \subseteq Int
      /\ AskedStorages \subseteq StorageIds /\ 0 \in Int
      /\ 0 .. MaxSize - PartSize \subseteq Int
  BY FileSystemAssumption, DatabaseAssumption
     DEF Formats, MTP_PARENT_ROOT, PartSize, Handles, Sizes, AskedStorages,
         StorageIds
<1>2. ASSUME NEW op, NEW h, NEW p, NEW s, NEW n, NEW f, NEW z, NEW o,
             A(op, h, p, s, n, f, z, o)
      PROVE  Req(op, h, p, s, n, f, z, o) \in {r \in Asked : r.op \in HostOps}
  BY <1>2 DEF Req, Asked, ReqRecs
<1> HIDE DEF A
<1> SUFFICES ASSUME NEW r \in Requests
             PROVE  r \in {q \in Asked : q.op \in HostOps}
  OBVIOUS
<1>3. CASE \E op \in HostOps \cap
               (PlainOps \cup {"OpenSession", "CloseSession", "SendObject"}) :
             r = Simple(op)
  <2>1. PICK op \in HostOps \cap
               (PlainOps \cup {"OpenSession", "CloseSession", "SendObject"}) :
          r = Simple(op)
    BY <1>3
  <2>2. op \in OpNames /\ op \notin DataIn
    BY DEF PlainOps, OpNames, DataIn
  <2>3. A(op, 0, 0, 0, NoName, UNDEFINED, 0, 0)
    BY <1>1, <2>2 DEF A
  <2> QED BY <1>2, <2>1, <2>3 DEF Simple
<1>4. CASE \E op \in HostOps \cap StorageOps, s \in AskedStorages \cup {0} :
             r = Req(op, 0, 0, s, NoName, UNDEFINED, 0, 0)
  <2>1. PICK op \in HostOps \cap StorageOps, s \in AskedStorages \cup {0} :
          r = Req(op, 0, 0, s, NoName, UNDEFINED, 0, 0)
    BY <1>4
  <2>2. op \in OpNames /\ op \notin DataIn
    BY DEF StorageOps, OpNames, DataIn
  <2>3. A(op, 0, 0, s, NoName, UNDEFINED, 0, 0)
    BY <1>1, <2>2 DEF A
  <2> QED BY <1>2, <2>1, <2>3
<1>5. CASE \E op \in HostOps \cap ObjectOps, h \in Handles :
             r = Req(op, h, 0, 0, NoName, UNDEFINED, 0, 0)
  <2>1. PICK op \in HostOps \cap ObjectOps, h \in Handles :
          r = Req(op, h, 0, 0, NoName, UNDEFINED, 0, 0)
    BY <1>5
  <2>2. op \in OpNames /\ op \notin DataIn
    BY DEF ObjectOps, OpNames, DataIn
  <2>3. A(op, h, 0, 0, NoName, UNDEFINED, 0, 0)
    BY <1>1, <2>2 DEF A
  <2> QED BY <1>2, <2>1, <2>3
<1>6. CASE \E op \in HostOps \cap {"SendObjectInfo"}, s \in AskedStorages,
              p \in Handles \cup {MTP_PARENT_ROOT}, n \in Names, f \in Formats :
             r = Req(op, 0, p, s, n, f, MaxSize, 0)
  <2>1. PICK op \in HostOps \cap {"SendObjectInfo"}, s \in AskedStorages,
             p \in Handles \cup {MTP_PARENT_ROOT}, n \in Names, f \in Formats :
          r = Req(op, 0, p, s, n, f, MaxSize, 0)
    BY <1>6
  <2>2. op \in OpNames
    BY DEF OpNames
  <2>3. A(op, 0, p, s, n, f, MaxSize, 0)
    BY <1>1, <2>2 DEF A
  <2> QED BY <1>2, <2>1, <2>3
<1>7. CASE \E op \in HostOps \cap {"MoveObject"}, h \in Handles, p \in Handles \cup {0} :
             r = Req(op, h, p, 0, NoName, UNDEFINED, 0, 0)
  <2>1. PICK op \in HostOps \cap {"MoveObject"}, h \in Handles, p \in Handles \cup {0} :
          r = Req(op, h, p, 0, NoName, UNDEFINED, 0, 0)
    BY <1>7
  <2>2. op \in OpNames /\ op \notin DataIn
    BY DEF OpNames, DataIn
  <2>3. A(op, h, p, 0, NoName, UNDEFINED, 0, 0)
    BY <1>1, <2>2 DEF A
  <2> QED BY <1>2, <2>1, <2>3
<1>8. CASE \E op \in HostOps \cap {"SetObjectPropValue"}, h \in Handles, n \in Names :
             r = Req(op, h, 0, 0, n, UNDEFINED, 0, 0)
  <2>1. PICK op \in HostOps \cap {"SetObjectPropValue"}, h \in Handles, n \in Names :
          r = Req(op, h, 0, 0, n, UNDEFINED, 0, 0)
    BY <1>8
  <2>2. op \in OpNames
    BY DEF OpNames
  <2>3. A(op, h, 0, 0, n, UNDEFINED, 0, 0)
    BY <1>1, <2>2 DEF A
  <2> QED BY <1>2, <2>1, <2>3
<1>9. CASE \E op \in HostOps \cap {"TruncateObject"}, h \in Handles, o \in Sizes :
             r = Req(op, h, 0, 0, NoName, UNDEFINED, 0, o)
  <2>1. PICK op \in HostOps \cap {"TruncateObject"}, h \in Handles, o \in Sizes :
          r = Req(op, h, 0, 0, NoName, UNDEFINED, 0, o)
    BY <1>9
  <2>2. op \in OpNames /\ op \notin DataIn
    BY DEF OpNames, DataIn
  <2>3. A(op, h, 0, 0, NoName, UNDEFINED, 0, o)
    BY <1>1, <2>2 DEF A
  <2> QED BY <1>2, <2>1, <2>3
<1>10. CASE \E op \in HostOps \cap {"SendPartialObject"}, h \in Handles,
               o \in 0 .. MaxSize - PartSize :
              r = Req(op, h, 0, 0, NoName, UNDEFINED, PartSize, o)
  <2>1. PICK op \in HostOps \cap {"SendPartialObject"}, h \in Handles,
             o \in 0 .. MaxSize - PartSize :
          r = Req(op, h, 0, 0, NoName, UNDEFINED, PartSize, o)
    BY <1>10
  <2>2. op \in OpNames /\ op \notin DataIn
    BY DEF OpNames, DataIn
  <2>3. A(op, h, 0, 0, NoName, UNDEFINED, PartSize, o)
    BY <1>1, <2>2 DEF A
  <2> QED BY <1>2, <2>1, <2>3
<1> DEFINE
  S1 == {Simple(op) : op \in HostOps \cap
           (PlainOps \cup {"OpenSession", "CloseSession", "SendObject"})}
  S2 == {Req(op, 0, 0, s, NoName, UNDEFINED, 0, 0) :
           op \in HostOps \cap StorageOps, s \in AskedStorages \cup {0}}
  S3 == {Req(op, h, 0, 0, NoName, UNDEFINED, 0, 0) :
           op \in HostOps \cap ObjectOps, h \in Handles}
  S4 == {Req(op, 0, p, s, n, f, MaxSize, 0) :
           op \in HostOps \cap {"SendObjectInfo"}, s \in AskedStorages,
           p \in Handles \cup {MTP_PARENT_ROOT}, n \in Names, f \in Formats}
  S5 == {Req(op, h, p, 0, NoName, UNDEFINED, 0, 0) :
           op \in HostOps \cap {"MoveObject"}, h \in Handles,
           p \in Handles \cup {0}}
  S6 == {Req(op, h, 0, 0, n, UNDEFINED, 0, 0) :
           op \in HostOps \cap {"SetObjectPropValue"}, h \in Handles,
           n \in Names}
  S7 == {Req(op, h, 0, 0, NoName, UNDEFINED, 0, o) :
           op \in HostOps \cap {"TruncateObject"}, h \in Handles, o \in Sizes}
  S8 == {Req(op, h, 0, 0, NoName, UNDEFINED, PartSize, o) :
           op \in HostOps \cap {"SendPartialObject"}, h \in Handles,
           o \in 0 .. MaxSize - PartSize}
<1>11. Requests = UNION {S1, S2, S3, S4, S5, S6, S7, S8}
  BY DEF Requests
<1>12. r \in S1 => r \in {q \in Asked : q.op \in HostOps}
  BY <1>3
<1>13. r \in S2 => r \in {q \in Asked : q.op \in HostOps}
  BY <1>4
<1>14. r \in S3 => r \in {q \in Asked : q.op \in HostOps}
  BY <1>5
<1>15. r \in S4 => r \in {q \in Asked : q.op \in HostOps}
  BY <1>6
<1>16. r \in S5 => r \in {q \in Asked : q.op \in HostOps}
  BY <1>7
<1>17. r \in S6 => r \in {q \in Asked : q.op \in HostOps}
  BY <1>8
<1>18. r \in S7 => r \in {q \in Asked : q.op \in HostOps}
  BY <1>9
<1>19. r \in S8 => r \in {q \in Asked : q.op \in HostOps}
  BY <1>10
<1> HIDE DEF S1, S2, S3, S4, S5, S6, S7, S8
<1> QED BY <1>11, <1>12, <1>13, <1>14, <1>15, <1>16, <1>17, <1>18, <1>19

\* One container is read: what was there before, and what is left.
LEMMA InboxRead ==
  ASSUME InboxTyped, inbox # <<>>
  PROVE  LET r == Head(inbox).req IN
         /\ r \in Asked
         /\ \/ /\ inbox = Containers(r) /\ Head(inbox).type = "COMMAND"
               /\ r.op \in DataIn => Tail(Tail(inbox)) = <<>>
               /\ r.op \in HandlerData =>
                    Tail(inbox) = <<Container("DATA", r)>>
               /\ r.op \notin DataIn \cup HandlerData => Tail(inbox) = <<>>
            \/ /\ r.op \in HandlerData /\ inbox = <<Container("DATA", r)>>
               /\ Tail(inbox) = <<>>
<1> DEFINE r == Head(inbox).req
           a == Container("COMMAND", r)
           b == Container("DATA", r)
<1>1. /\ r \in Asked
      /\ inbox = Containers(r) \/ (r.op \in HandlerData /\ inbox = <<b>>)
  BY DEF InboxTyped
<1>2. Head(<<a>>) = a /\ Tail(<<a>>) = <<>> /\ Tail(<<b>>) = <<>>
      /\ Head(<<a, b>>) = a /\ Tail(<<a, b>>) = <<b>>
  OBVIOUS
<1>3. a.type = "COMMAND" /\ DataIn \cap HandlerData = {}
  BY DEF Container, DataIn, HandlerData
<1>4. Containers(r) = IF r.op \in DataIn \cup HandlerData THEN <<a, b>>
                       ELSE <<a>>
  BY DEF Containers
<1>5. CASE inbox = Containers(r)
  <2>1. CASE r.op \in DataIn \cup HandlerData
    <3>1. inbox = <<a, b>>
      BY <1>4, <1>5, <2>1
    <3> HIDE DEF a, b
    <3>2. Head(inbox) = a /\ Tail(inbox) = <<b>> /\ Tail(Tail(inbox)) = <<>>
      BY <1>2, <3>1
    <3> QED BY <1>1, <1>3, <1>5, <2>1, <3>2 DEF b
  <2>2. CASE r.op \notin DataIn \cup HandlerData
    <3>1. inbox = <<a>>
      BY <1>4, <1>5, <2>2
    <3> HIDE DEF a, b
    <3>2. Head(inbox) = a /\ Tail(inbox) = <<>>
      BY <1>2, <3>1
    <3> QED BY <1>1, <1>3, <1>5, <2>2, <3>2
  <2> QED BY <2>1, <2>2
<1>6. CASE r.op \in HandlerData /\ inbox = <<b>>
  BY <1>1, <1>2, <1>6
<1> QED BY <1>1, <1>5, <1>6

-----------------------------------------------------------------------------
(* The thread, the pipe, the host and the card.                            *)

LEMMA SvTypedStep ==
  ASSUME ServerTypeInv, Step
  PROVE  SvTyped'
<1>0. SvTyped /\ InboxTyped /\ sv \in SvRecs
  BY DEF ServerTypeInv, ServerTyped, SvTyped
<1> SUFFICES ASSUME ~DeleteStep PROVE SvMove
  BY <1>0, SvMoved, DeleteSvTyped
<1>1. CASE sv' = sv
  BY <1>1 DEF SvMove, SvPcs
<1>2. CASE SendStep
  BY <1>2, SendMoves
<1>3. CASE MoveStep
  BY <1>3, MoveMoves
<1>4. CASE EditStep
  BY <1>4, EditMoves
<1>5. CASE doPlain \/ doStorageQuery \/ doGetObjectInfo \/ doGetObject
           \/ doGetThumb \/ doGetObjectReferences
  BY <1>5, AnswersMove
<1>6. CASE Run \/ WriteResponse \/ Unplug
  <2>1. Goto("loop") \/ Goto("closing")
    BY <1>6 DEF Run, WriteResponse, Unplug
  <2> QED BY <2>1 DEF Goto, SvMove, SvPcs
<1>7. CASE Finish
  <2>1. sv' = sv \/ Goto("closed")
    BY <1>7 DEF Finish
  <2> QED BY <2>1, <1>1 DEF Goto, SvMove, SvPcs
<1>8. CASE doOpenSession \/ doCloseSession
  <2>1. PICK code \in Codes : Reply(code)
    BY <1>8 DEF doOpenSession, doCloseSession, Codes
  <2> QED BY <2>1 DEF Reply, SvMove, SvPcs
<1>9. CASE ReadRequest
  <2> DEFINE r == Head(inbox).req
             d == r.op \in DataIn
             c == (Head(inbox).type = "COMMAND")
  <2>1. r \in Asked
    BY <1>0, <1>9, InboxRead DEF ReadRequest
  <2>2. sv' = [sv EXCEPT !.pc = "handle", !.req = r, !.hasData = d,
                         !.command = c]
    BY <1>9 DEF ReadRequest
  <2>3. d \in BOOLEAN /\ c \in BOOLEAN /\ "handle" \in SvPcs \ {"delete_tree"}
    BY DEF SvPcs
  <2> HIDE DEF r, d, c
  <2> QED BY <2>1, <2>2, <2>3 DEF SvMove
<1>10. CASE Notifier \/ Daemon \/ LocalProcess \/ HostRequest \/ CancelData
  <2>1. sv' = sv
    BY <1>10 DEF Notifier, Daemon, StorageStep, InsertCard, AddStorage,
       RemoveStorageFromServer, RemoveStorageFromDatabase, LocalProcess,
       HostRequest, CancelData, srvVars
  <2> QED BY <2>1, <1>1
<1> QED BY <1>2, <1>3, <1>4, <1>5, <1>6, <1>7, <1>8, <1>9, <1>10
    DEF Step, ServerStep

\* What a step may do to the pipe: the host writes a request into it, a
\* container (with its data) is read, it is emptied.
InboxMove ==
  \/ inbox' = inbox
  \/ inbox' = <<>>
  \/ \E r \in Asked : inbox' = Containers(r)
  \/ inbox # <<>> /\ inbox' = Tail(inbox) /\ Head(inbox).req.op \notin DataIn
  \/ inbox # <<>> /\ inbox' = Tail(Tail(inbox)) /\ Head(inbox).req.op \in DataIn

\* Handlers find no container of a request run() reads the data of.
LEMMA InboxLeft ==
  ASSUME InboxTyped, inbox # <<>>, Head(inbox).req.op \notin DataIn
  PROVE  Tail(inbox) = <<>>
         \/ /\ Head(inbox).req \in Asked /\ Head(inbox).req.op \in HandlerData
            /\ Tail(inbox) = <<Container("DATA", Head(inbox).req)>>
BY InboxRead

LEMMA InboxMoved ==
  ASSUME InboxTyped, InboxMove
  PROVE  InboxTyped'
<1>1. CASE inbox' = inbox
  BY <1>1 DEF InboxTyped
<1>2. CASE inbox' = <<>>
  BY <1>2 DEF InboxTyped
<1>3. CASE \E r \in Asked : inbox' = Containers(r)
  <2>1. PICK r \in Asked : inbox' = Containers(r)
    BY <1>3
  <2>2. Head(Containers(r)) = Container("COMMAND", r)
    BY DEF Containers
  <2>3. Head(inbox').req = r
    BY <2>1, <2>2 DEF Container
  <2> QED BY <2>1, <2>3 DEF InboxTyped
<1>4. CASE inbox # <<>> /\ inbox' = Tail(inbox)
           /\ Head(inbox).req.op \notin DataIn
  <2>1. CASE Tail(inbox) = <<>>
    BY <1>2, <1>4, <2>1
  <2>2. CASE Tail(inbox) # <<>>
    <3>1. PICK r \in Asked : r.op \in HandlerData
                             /\ inbox' = <<Container("DATA", r)>>
      BY <1>4, <2>2, InboxLeft
    <3>2. Head(inbox').req = r
      BY <3>1 DEF Container
    <3> QED BY <3>1, <3>2 DEF InboxTyped
  <2> QED BY <2>1, <2>2
<1>5. CASE inbox # <<>> /\ inbox' = Tail(Tail(inbox))
           /\ Head(inbox).req.op \in DataIn
  <2>1. Tail(Tail(inbox)) = <<>>
    BY <1>5, InboxRead DEF DataIn, HandlerData
  <2> QED BY <1>2, <1>5, <2>1
<1> QED BY <1>1, <1>2, <1>3, <1>4, <1>5 DEF InboxMove

LEMMA InboxMoves ==
  ASSUME ServerTypeInv, Step
  PROVE  InboxMove
<1>0. InboxTyped /\ InboxServed
  BY DEF ServerTypeInv, ServerTyped
<1>1. CASE inbox' = inbox
  BY <1>1 DEF InboxMove
<1>2. CASE ReadRequest \/ CancelData
  BY <1>2 DEF ReadRequest, CancelData, InboxMove
<1>3. CASE HostRequest
  <2>1. PICK r \in Requests : inbox' = Containers(r)
    BY <1>3 DEF HostRequest
  <2> QED BY <2>1, RequestsTyped DEF InboxMove
<1>4. CASE doSendObject \/ doSendPartialObject
  <2>1. inbox # <<>> /\ inbox' = Tail(inbox) /\ sv.pc = "handle"
    BY <1>4 DEF doSendObject, doSendPartialObject, Handling, At
  <2>2. PICK r \in Asked : r.op \in HandlerData
                           /\ inbox = <<Container("DATA", r)>>
    BY <1>0, <2>1 DEF InboxServed
  <2>3. Head(inbox).req.op \notin DataIn
    BY <2>2 DEF Container, DataIn, HandlerData
  <2> QED BY <2>1, <2>3 DEF InboxMove
<1>5. CASE doSendObjectRefused
  BY <1>5 DEF doSendObjectRefused, InboxMove
<1>6. CASE Notifier \/ Daemon \/ LocalProcess \/ Unplug
  <2>1. inbox' = inbox
    BY <1>6 DEF Notifier, Daemon, StorageStep, InsertCard, AddStorage,
       RemoveStorageFromServer, RemoveStorageFromDatabase, LocalProcess,
       Unplug, envVars
  <2> QED BY <2>1, <1>1
<1>7. CASE Run \/ WriteResponse \/ Finish \/ doPlain \/ doStorageQuery
           \/ doGetObjectInfo \/ doGetObject \/ doGetThumb
           \/ doGetObjectReferences \/ doOpenSession \/ doCloseSession
  <2>1. inbox' = inbox
    BY <1>7 DEF Run, WriteResponse, Finish, doPlain, doStorageQuery,
       doGetObjectInfo, doGetObject, doGetThumb, doGetObjectReferences,
       doOpenSession, doCloseSession, OnlyAnswer, envVars
  <2> QED BY <2>1, <1>1
<1>8. CASE doSendObjectInfo \/ BeginStep \/ FinishObjectInfo \/ ReceiveFile
           \/ UnlinkPartial \/ FinishSendObject
  <2>1. inbox' = inbox
    BY <1>8 DEF doSendObjectInfo, BeginStep, FinishObjectInfo, ReceiveFile,
       UnlinkPartial, FinishSendObject, OnlyAnswer, envVars
  <2> QED BY <2>1, <1>1
<1>9. CASE DeleteStep \/ MoveStep \/ doBeginEditObject
           \/ doSendPartialObjectRefused \/ doTruncateObject \/ doEndEditObject
  <2>1. inbox' = inbox
    BY <1>9 DEF DeleteStep, doDeleteObject, DeletePath, DeleteRecursive,
       MoveStep, doMoveObject, doSetObjectPropValue, FinishRename,
       doBeginEditObject, doSendPartialObjectRefused, doTruncateObject,
       doEndEditObject, OnlyAnswer, envVars
  <2> QED BY <2>1, <1>1
<1> QED BY <1>2, <1>3, <1>4, <1>5, <1>6, <1>7, <1>8, <1>9
    DEF Step, ServerStep, SendStep, EditStep

\* Only the requests, the card and the cable move a server in its loop.
LEMMA LoopLeft ==
  ASSUME ServerTypeInv, Step, ~ReadRequest,
         sv.pc \in {"loop", "closing", "closed"}
  PROVE  sv' = sv \/ sv' = [sv EXCEPT !.pc = "closing"]
         \/ sv' = [sv EXCEPT !.pc = "closed"]
<1>1. CASE CancelData \/ Notifier \/ Daemon \/ LocalProcess \/ HostRequest
  <2>1. sv' = sv
    BY <1>1 DEF Notifier, Daemon, StorageStep, InsertCard, AddStorage,
       RemoveStorageFromServer, RemoveStorageFromDatabase, LocalProcess,
       HostRequest, CancelData, srvVars
  <2> QED BY <2>1
<1>2. CASE Unplug \/ Finish
  BY <1>2 DEF Unplug, Finish, Goto
<1>3. ASSUME NEW pc, pc \in {"boot", "handle", "reply", "begin", "receive",
                             "unlink", "end_send", "delete_path", "delete_tree",
                             "set_path"}
      PROVE  ~At(pc)
  BY <1>3 DEF At
<1>4. CASE Run \/ WriteResponse \/ doPlain \/ doStorageQuery \/ doGetObjectInfo
           \/ doGetObject \/ doGetThumb \/ doGetObjectReferences
           \/ doOpenSession \/ doCloseSession \/ EditStep
  BY <1>3, <1>4 DEF Run, WriteResponse, doPlain, doStorageQuery,
     doGetObjectInfo, doGetObject, doGetThumb, doGetObjectReferences,
     doOpenSession, doCloseSession, EditStep, doBeginEditObject,
     doSendPartialObjectRefused, doSendPartialObject, doTruncateObject,
     doEndEditObject, Handling
<1>5. CASE SendStep \/ DeleteStep \/ MoveStep
  BY <1>3, <1>5 DEF SendStep, doSendObjectInfo, BeginStep, FinishObjectInfo,
     doSendObjectRefused, doSendObject, ReceiveFile, UnlinkPartial,
     FinishSendObject, DeleteStep, doDeleteObject, DeletePath, DeleteRecursive,
     MoveStep, doMoveObject, doSetObjectPropValue, FinishRename, Handling
<1> QED BY <1>1, <1>2, <1>4, <1>5 DEF Step, ServerStep

\* Away from the loop a handler takes what is left in the pipe, or leaves it.
LEMMA PipeServed ==
  ASSUME ServerTypeInv, Step, sv.pc \notin {"loop", "closing", "closed"}
  PROVE  inbox' = inbox \/ inbox' = <<>>
<1>0. InboxServed
  BY DEF ServerTypeInv, ServerTyped
<1>1. inbox # <<>> => Tail(inbox) = <<>> /\ Head(inbox).req.op \notin DataIn
  <2>1. SUFFICES ASSUME inbox # <<>>
                 PROVE  Tail(inbox) = <<>> /\ Head(inbox).req.op \notin DataIn
    OBVIOUS
  <2>2. PICK r \in Asked : r.op \in HandlerData
                           /\ inbox = <<Container("DATA", r)>>
    BY <1>0, <2>1 DEF InboxServed
  <2> QED BY <2>2 DEF Container, DataIn, HandlerData
<1>2. ~HostRequest /\ ~ReadRequest /\ ~CancelData
  BY DEF HostRequest, ReadRequest, CancelData, At
<1>3. CASE doSendObject \/ doSendPartialObject \/ doSendObjectRefused
  BY <1>1, <1>3 DEF doSendObject, doSendPartialObject, doSendObjectRefused
<1>4. CASE Notifier \/ Daemon \/ LocalProcess \/ Unplug
  BY <1>4 DEF Notifier, Daemon, StorageStep, InsertCard, AddStorage,
     RemoveStorageFromServer, RemoveStorageFromDatabase, LocalProcess,
     Unplug, envVars
<1>5. CASE Run \/ WriteResponse \/ Finish \/ doPlain \/ doStorageQuery
           \/ doGetObjectInfo \/ doGetObject \/ doGetThumb
           \/ doGetObjectReferences \/ doOpenSession \/ doCloseSession
  BY <1>5 DEF Run, WriteResponse, Finish, doPlain, doStorageQuery,
     doGetObjectInfo, doGetObject, doGetThumb, doGetObjectReferences,
     doOpenSession, doCloseSession, OnlyAnswer, envVars
<1>6. CASE doSendObjectInfo \/ BeginStep \/ FinishObjectInfo \/ ReceiveFile
           \/ UnlinkPartial \/ FinishSendObject
  BY <1>6 DEF doSendObjectInfo, BeginStep, FinishObjectInfo, ReceiveFile,
     UnlinkPartial, FinishSendObject, OnlyAnswer, envVars
<1>7. CASE DeleteStep \/ MoveStep \/ doBeginEditObject
           \/ doSendPartialObjectRefused \/ doTruncateObject \/ doEndEditObject
  BY <1>7 DEF DeleteStep, doDeleteObject, DeletePath, DeleteRecursive,
     MoveStep, doMoveObject, doSetObjectPropValue, FinishRename,
     doBeginEditObject, doSendPartialObjectRefused, doTruncateObject,
     doEndEditObject, OnlyAnswer, envVars
<1> QED BY <1>2, <1>3, <1>4, <1>5, <1>6, <1>7
    DEF Step, ServerStep, SendStep, EditStep

LEMMA InboxServedStep ==
  ASSUME ServerTypeInv, Step
  PROVE  InboxServed'
<1>0. InboxServed /\ InboxTyped /\ sv \in SvRecs
  BY DEF ServerTypeInv, ServerTyped, SvTyped
<1>1. CASE ReadRequest
  <2> DEFINE r == Head(inbox).req
  <2>1. inbox # <<>>
        /\ inbox' = IF r.op \in DataIn THEN Tail(Tail(inbox)) ELSE Tail(inbox)
    BY <1>1 DEF ReadRequest
  <2>2. r \in Asked /\ DataIn \cap HandlerData = {}
    BY <1>0, <2>1, InboxRead DEF DataIn, HandlerData
  <2>3. CASE r.op \in DataIn
    <3>1. inbox' = <<>>
      BY <1>0, <2>1, <2>2, <2>3, InboxRead
    <3> QED BY <3>1 DEF InboxServed
  <2>4. CASE r.op \notin DataIn
    <3>1. inbox' = <<>>
          \/ (r.op \in HandlerData /\ inbox' = <<Container("DATA", r)>>)
      BY <1>0, <2>1, <2>4, InboxLeft
    <3>2. PICK q \in Asked : q = r
      BY <2>2
    <3> QED BY <3>1, <3>2 DEF InboxServed
  <2> QED BY <2>3, <2>4
<1>2. CASE sv.pc \in {"loop", "closing", "closed"} /\ ~ReadRequest
  <2>1. sv'.pc \in {"loop", "closing", "closed"}
    BY <1>0, <1>2, LoopLeft DEF SvRecs
  <2> QED BY <2>1 DEF InboxServed
<1>3. CASE sv.pc \notin {"loop", "closing", "closed"}
  BY <1>0, <1>3, PipeServed DEF InboxServed
<1> QED BY <1>1, <1>2, <1>3

\* What a step may do to the host's side: a request is made, an answer counted,
\* the wait ended.
HostMove ==
  \/ host' = host
  \/ host' = [host EXCEPT !.state = "waiting", !.sent = @ + 1,
                          !.answers = Append(@, 0)]
  \/ host' = Answered(host)
  \/ host' = [host EXCEPT !.state = "idle"]

LEMMA HostMoved ==
  ASSUME HostTyped, HostMove
  PROVE  HostTyped'
<1> DEFINE H == [state : {"idle", "waiting"}, sent : Nat, answers : Seq(Nat)]
<1>0. /\ host \in H /\ host.sent = Len(host.answers)
      /\ host.answers \in Seq(Nat) /\ host.sent \in Nat
  BY DEF HostTyped
<1>1. CASE host' = host
  BY <1>0, <1>1 DEF HostTyped
<1>2. CASE host' = [host EXCEPT !.state = "waiting", !.sent = @ + 1,
                                !.answers = Append(@, 0)]
  <2>1. PICK a \in Seq(Nat) : a = Append(host.answers, 0)
    BY <1>0, AppendProperties
  <2>2. PICK n \in Nat : n = host.sent + 1
    BY <1>0
  <2>3. Len(a) = n
    BY <1>0, <2>1, <2>2, AppendProperties
  <2>4. host' = [host EXCEPT !.state = "waiting", !.sent = n, !.answers = a]
    BY <1>2, <2>1, <2>2
  <2>5. host' \in H /\ host'.sent = n /\ host'.answers = a
    BY <1>0, <2>4
  <2> QED BY <2>3, <2>5 DEF HostTyped
<1>3. CASE host' = Answered(host)
  <2> DEFINE b == [host.answers EXCEPT ![host.sent] = @ + 1]
  <2>1. b \in Seq(Nat) /\ Len(b) = Len(host.answers)
    <3>1. CASE host.sent \in 1 .. Len(host.answers)
      <4>1. host.answers[host.sent] + 1 \in Nat
        BY <1>0, <3>1, ElementOfSeq
      <4> QED BY <1>0, <3>1, <4>1, ExceptSeq
    <3>2. CASE host.sent \notin 1 .. Len(host.answers)
      <4>1. host.sent = 0 /\ DOMAIN host.answers = {}
        BY <1>0, <3>2
      <4>2. b = host.answers
        BY <1>0, <4>1
      <4> QED BY <1>0, <4>2
    <3> QED BY <3>1, <3>2
  <2>2. PICK a \in Seq(Nat) : a = b
    BY <2>1
  <2>3. host' = [host EXCEPT !.state = "idle", !.answers = a]
    BY <1>3, <2>2 DEF Answered
  <2> HIDE DEF b
  <2>4. host' \in H /\ host'.sent = host.sent /\ host'.answers = a
    BY <1>0, <2>3
  <2> QED BY <1>0, <2>1, <2>2, <2>4 DEF HostTyped
<1>4. CASE host' = [host EXCEPT !.state = "idle"]
  <2>1. host' \in H /\ host'.sent = host.sent /\ host'.answers = host.answers
    BY <1>0, <1>4
  <2> QED BY <1>0, <2>1 DEF HostTyped
<1> QED BY <1>1, <1>2, <1>3, <1>4 DEF HostMove

LEMMA HostMoves ==
  ASSUME Step
  PROVE  HostMove
<1>1. CASE HostRequest \/ WriteResponse \/ CancelData
  BY <1>1 DEF HostRequest, WriteResponse, CancelData, HostMove
<1>2. CASE Notifier \/ Daemon \/ LocalProcess \/ Unplug
  <2>1. host' = host
    BY <1>2 DEF Notifier, Daemon, StorageStep, InsertCard, AddStorage,
       RemoveStorageFromServer, RemoveStorageFromDatabase, LocalProcess,
       Unplug, envVars
  <2> QED BY <2>1 DEF HostMove
<1>3. CASE Run \/ ReadRequest \/ Finish \/ doPlain \/ doStorageQuery
           \/ doGetObjectInfo \/ doGetObject \/ doGetThumb
           \/ doGetObjectReferences \/ doOpenSession \/ doCloseSession
  <2>1. host' = host
    BY <1>3 DEF Run, ReadRequest, Finish, doPlain, doStorageQuery,
       doGetObjectInfo, doGetObject, doGetThumb, doGetObjectReferences,
       doOpenSession, doCloseSession, OnlyAnswer, envVars
  <2> QED BY <2>1 DEF HostMove
<1>4. CASE SendStep
  <2>1. host' = host
    BY <1>4 DEF SendStep, doSendObjectInfo, BeginStep, FinishObjectInfo,
       doSendObjectRefused, doSendObject, ReceiveFile, UnlinkPartial,
       FinishSendObject, OnlyAnswer, envVars
  <2> QED BY <2>1 DEF HostMove
<1>5. CASE DeleteStep \/ MoveStep \/ EditStep
  <2>1. host' = host
    BY <1>5 DEF DeleteStep, doDeleteObject, DeletePath, DeleteRecursive,
       MoveStep, doMoveObject, doSetObjectPropValue, FinishRename, EditStep,
       doBeginEditObject, doSendPartialObjectRefused, doSendPartialObject,
       doTruncateObject, doEndEditObject, OnlyAnswer, envVars
  <2> QED BY <2>1 DEF HostMove
<1> QED BY <1>1, <1>2, <1>3, <1>4, <1>5 DEF Step, ServerStep

LEMMA CardTypedStep ==
  ASSUME CardTyped, Step
  PROVE  CardTyped'
<1>1. CASE card' = card
  BY <1>1 DEF CardTyped
<1>2. CASE Daemon
  <2>1. CASE StorageStep
    <3>1. card' \in {"scanning", "exposed", "hidden", "removed"}
      BY <2>1 DEF StorageStep, InsertCard, AddStorage, CardStep,
         RemoveStorageFromServer, RemoveStorageFromDatabase
    <3> QED BY <3>1 DEF CardTyped
  <2>2. CASE UNCHANGED <<locals, srvVars, envVars>>
    BY <1>1, <2>2 DEF envVars
  <2> QED BY <1>2, <2>1, <2>2 DEF Daemon
<1>3. CASE Notifier \/ LocalProcess \/ HostRequest \/ Unplug
  BY <1>1, <1>3 DEF Notifier, LocalProcess, HostRequest, Unplug, envVars
<1>4. CASE Run \/ ReadRequest \/ CancelData \/ WriteResponse \/ Finish
           \/ doPlain \/ doStorageQuery \/ doGetObjectInfo \/ doGetObject
           \/ doGetThumb \/ doGetObjectReferences \/ doOpenSession
           \/ doCloseSession
  BY <1>1, <1>4 DEF Run, ReadRequest, CancelData, WriteResponse, Finish,
     doPlain, doStorageQuery, doGetObjectInfo, doGetObject, doGetThumb,
     doGetObjectReferences, doOpenSession, doCloseSession, OnlyAnswer, envVars
<1>5. CASE SendStep
  BY <1>1, <1>5 DEF SendStep, doSendObjectInfo, BeginStep, FinishObjectInfo,
     doSendObjectRefused, doSendObject, ReceiveFile, UnlinkPartial,
     FinishSendObject, OnlyAnswer, envVars
<1>6. CASE DeleteStep \/ MoveStep \/ EditStep
  BY <1>1, <1>6 DEF DeleteStep, doDeleteObject, DeletePath, DeleteRecursive,
     MoveStep, doMoveObject, doSetObjectPropValue, FinishRename, EditStep,
     doBeginEditObject, doSendPartialObjectRefused, doSendPartialObject,
     doTruncateObject, doEndEditObject, OnlyAnswer, envVars
<1> QED BY <1>2, <1>3, <1>4, <1>5, <1>6 DEF Step, ServerStep

-----------------------------------------------------------------------------
(* Type correctness.                                                       *)

LEMMA ServerTypeInit == Init => ServerTypeInv
<1> SUFFICES ASSUME Init PROVE ServerTypeInv
  OBVIOUS
<1>1. TypeInv
  BY TypeInit DEF Init
<1>2. /\ <<>> \in Seq(StorageIds) /\ <<>> \in Seq(EditRecs)
      /\ <<>> \in Seq(Frames) /\ <<>> \in Seq(Nat) /\ <<>> \in Paths
      /\ Len(<<>>) = 0
  BY EmptySeq DEF Paths
<1>3. UNDEFINED \in Formats /\ kInvalidObjectHandle \in Int /\ "OK" \in Codes
  BY DEF Formats, kInvalidObjectHandle, Codes
<1>4. Simple("none") \in Asked
  <2>1. "none" \in OpNames /\ "none" \notin DataIn
    BY DEF OpNames, DataIn
  <2> QED BY <1>3, <2>1 DEF Simple, Req, ReqRecs, Asked
<1>5. SessionTyped /\ SendTyped /\ EditsTyped
  <2>1. NoSend \in SendRecs
    BY <1>2, <1>3 DEF NoSend, SendRecs
  <2>2. mStorages = <<>> /\ mSessionOpen = FALSE /\ mSend = NoSend
        /\ mObjectEditList = <<>>
    BY DEF Init
  <2> QED BY <1>2, <2>1, <2>2 DEF SessionTyped, SendTyped, EditsTyped
<1>6. SvTyped
  BY <1>2, <1>3, <1>4 DEF Init, SvTyped, SvRecs, SvPcs
<1>7. InboxTyped /\ InboxServed /\ HostTyped /\ CardTyped
  BY <1>2 DEF Init, InboxTyped, InboxServed, HostTyped, CardTyped
<1> QED BY <1>1, <1>5, <1>6, <1>7 DEF ServerTypeInv, ServerTyped

LEMMA ServerTypeStep ==
  ASSUME ServerTypeInv, [Next]_vars
  PROVE  ServerTypeInv'
<1>1. CASE Step
  <2>1. TypeInv'
    BY <1>1, DatabaseTypedStep
  <2>2. SessionTyped' /\ SendTyped'
    BY <1>1, SessionTypedStep, SendTypedStep DEF ServerTypeInv, ServerTyped
  <2>3. EditsTyped'
    BY <1>1, EditsChanged, EditsTypedStep DEF ServerTypeInv, ServerTyped
  <2>4. SvTyped' /\ InboxServed'
    BY <1>1, SvTypedStep, InboxServedStep
  <2>5. InboxTyped'
    BY <1>1, InboxMoves, InboxMoved DEF ServerTypeInv, ServerTyped
  <2>6. HostTyped'
    BY <1>1, HostMoves, HostMoved DEF ServerTypeInv, ServerTyped
  <2>7. CardTyped'
    BY <1>1, CardTypedStep DEF ServerTypeInv, ServerTyped
  <2> QED BY <2>1, <2>2, <2>3, <2>4, <2>5, <2>6, <2>7
      DEF ServerTypeInv, ServerTyped
<1>2. CASE UNCHANGED vars
  <2>1. TypeInv'
    BY <1>2, DatabaseStutter DEF ServerTypeInv, vars, coreVars
  <2>2. SessionTyped' /\ SendTyped' /\ EditsTyped' /\ SvTyped'
    BY <1>2 DEF ServerTypeInv, ServerTyped, vars, coreVars, srvVars,
                SessionTyped, SendTyped, EditsTyped, SvTyped
  <2>3. InboxTyped' /\ InboxServed' /\ HostTyped' /\ CardTyped'
    BY <1>2 DEF ServerTypeInv, ServerTyped, vars, coreVars, srvVars, envVars,
                InboxTyped, InboxServed, HostTyped, CardTyped
  <2> QED BY <2>1, <2>2, <2>3 DEF ServerTypeInv, ServerTyped
<1> QED BY <1>1, <1>2 DEF Next

\* Whatever the host asks for and however it behaves, whatever other programs,
\* the cable and the card do, every part of the server's state is of its type:
\* the responses are those of the protocol, a handler is where handleRequest
\* and the handlers have a place, the edits and storages are lists of theirs.
THEOREM TypeOKHolds == Spec => []TypeOK
<1>1. Init => ServerTypeInv
  BY ServerTypeInit
<1>2. ServerTypeInv /\ [Next]_vars => ServerTypeInv'
  BY ServerTypeStep
<1>3. ServerTypeInv => TypeOK
  <2> SUFFICES ASSUME ServerTypeInv PROVE TypeOK
    OBVIOUS
  <2>1. DatabaseTypeOK
    BY TypeInvImplies DEF ServerTypeInv
  <2>2. /\ mStorages \in Seq(StorageIds) /\ mSessionOpen \in BOOLEAN
        /\ mSend \in SendRecs /\ mObjectEditList \in Seq(EditRecs)
        /\ sv \in SvRecs /\ HostTyped /\ CardTyped
    BY DEF ServerTypeInv, ServerTyped, SessionTyped, SendTyped, EditsTyped,
           SvTyped
  <2>3. mSend.handle \in Int /\ mSend.format \in Formats
    BY <2>2 DEF SendRecs
  <2>4. /\ sv.pc \in SvPcs /\ sv.result \in Codes /\ sv.hasData \in BOOLEAN
    BY <2>2 DEF SvRecs
  <2>5. \A i \in DOMAIN mObjectEditList : mObjectEditList[i].handle \in Nat
    <3>1. \A i \in DOMAIN mObjectEditList : mObjectEditList[i] \in EditRecs
      BY <2>2, ElementOfSeq
    <3> QED BY <3>1 DEF EditRecs
  <2> QED BY <2>1, <2>2, <2>3, <2>4, <2>5
      DEF TypeOK, SvPcs, HostTyped, CardTyped
<1> QED BY <1>1, <1>2, <1>3, PTL DEF Spec

-----------------------------------------------------------------------------
(* Open edits.                                                             *)

LEMMA OneEditStep ==
  ASSUME EditsTyped, OneEditPerObject, EditsChange
  PROVE  OneEditPerObject'
<1> DEFINE list == mObjectEditList
<1>0. /\ list \in Seq(EditRecs) /\ DOMAIN list = 1 .. Len(list)
      /\ Len(list) \in Nat
      /\ \A i, j \in 1 .. Len(list) : list[i].handle = list[j].handle => i = j
  BY DEF EditsTyped, OneEditPerObject
<1>1. CASE list' = list
  BY <1>1 DEF OneEditPerObject
<1>2. CASE list # <<>> /\ list' = Tail(list)
  <2>1. /\ Len(Tail(list)) = Len(list) - 1 /\ Len(list) >= 1
        /\ \A i \in 1 .. Len(Tail(list)) : Tail(list)[i] = list[i + 1]
    BY <1>0, <1>2, HeadTailProperties
  <2>2. DOMAIN list' = 1 .. Len(list) - 1
    BY <1>0, <1>2, <2>1
  <2>3. ASSUME NEW i \in DOMAIN list', NEW j \in DOMAIN list',
               list'[i].handle = list'[j].handle
        PROVE  i = j
    <3>1. i + 1 \in 1 .. Len(list) /\ j + 1 \in 1 .. Len(list)
          /\ i \in Int /\ j \in Int
      BY <1>0, <2>1, <2>2
    <3>2. list[i + 1].handle = list[j + 1].handle
      BY <1>2, <2>1, <2>2, <2>3
    <3>3. i + 1 = j + 1
      BY <1>0, <3>1, <3>2
    <3> QED BY <3>1, <3>3
  <2> QED BY <2>3 DEF OneEditPerObject
<1>3. CASE \E e \in EditRecs : ~HasEdit(e.handle) /\ list' = Append(list, e)
  <2>1. PICK e \in EditRecs : ~HasEdit(e.handle) /\ list' = Append(list, e)
    BY <1>3
  <2>2. /\ Len(list') = Len(list) + 1 /\ list' \in Seq(EditRecs)
        /\ \A i \in 1 .. Len(list) : list'[i] = list[i]
        /\ list'[Len(list) + 1] = e
    BY <1>0, <2>1, AppendProperties
  <2>3. DOMAIN list' = 1 .. Len(list) + 1
    BY <2>2
  <2>4. \A i \in 1 .. Len(list) : list[i].handle # e.handle
    BY <1>0, <2>1 DEF HasEdit, EditsOf
  <2>5. ASSUME NEW i \in DOMAIN list', NEW j \in DOMAIN list',
               list'[i].handle = list'[j].handle
        PROVE  i = j
    <3>1. (i \in 1 .. Len(list) \/ i = Len(list) + 1)
          /\ (j \in 1 .. Len(list) \/ j = Len(list) + 1)
      BY <1>0, <2>3
    <3> QED BY <1>0, <2>2, <2>4, <2>5, <3>1
  <2> QED BY <2>5 DEF OneEditPerObject
<1>4. CASE \E i \in 1 .. Len(list), e \in EditRecs :
             e.handle = list[i].handle /\ list' = [list EXCEPT ![i] = e]
  <2>1. PICK k \in 1 .. Len(list), e \in EditRecs :
               e.handle = list[k].handle /\ list' = [list EXCEPT ![k] = e]
    BY <1>4
  <2>2. DOMAIN list' = 1 .. Len(list)
        /\ \A i \in 1 .. Len(list) : list'[i].handle = list[i].handle
    BY <1>0, <2>1
  <2> QED BY <1>0, <2>2 DEF OneEditPerObject
<1>5. CASE \E i \in 1 .. Len(list) : list' = RemoveAt(list, i)
  <2>1. PICK k \in 1 .. Len(list) : list' = RemoveAt(list, k)
    BY <1>5
  <2>2. /\ list' \in Seq(EditRecs) /\ Len(list') = Len(list) - 1
        /\ \A i \in 1 .. Len(list) - 1 :
             list'[i] = IF i < k THEN list[i] ELSE list[i + 1]
    BY <1>0, <2>1, RemoveAtElements
  <2>3. DOMAIN list' = 1 .. Len(list) - 1
    BY <2>2
  <2>4. ASSUME NEW i \in DOMAIN list', NEW j \in DOMAIN list',
               list'[i].handle = list'[j].handle
        PROVE  i = j
    <3> DEFINE m == IF i < k THEN i ELSE i + 1
               n == IF j < k THEN j ELSE j + 1
    <3>1. i \in 1 .. Len(list) - 1 /\ j \in 1 .. Len(list) - 1 /\ k \in Int
      BY <2>3
    <3>2. list'[i] = list[m] /\ list'[j] = list[n]
      BY <2>2, <3>1
    <3>3. m \in 1 .. Len(list) /\ n \in 1 .. Len(list) /\ (m = n => i = j)
      BY <1>0, <3>1
    <3> HIDE DEF m, n
    <3>4. list[m].handle = list[n].handle
      BY <2>4, <3>2
    <3> QED BY <1>0, <3>3, <3>4
  <2> QED BY <2>4 DEF OneEditPerObject
<1> QED BY <1>1, <1>2, <1>3, <1>4, <1>5 DEF EditsChange

\* However the host opens, writes, truncates and ends its edits, and whatever
\* it renames, moves and deletes meanwhile, an object has one open edit at
\* most: doBeginEditObject looks for one first, and nothing else adds any.
THEOREM OneEditPerObjectHolds == Spec => []OneEditPerObject
<1> DEFINE Inv == ServerTypeInv /\ OneEditPerObject
<1>1. Init => Inv
  <2>1. Init => OneEditPerObject
    BY DEF Init, OneEditPerObject
  <2> QED BY <2>1, ServerTypeInit
<1>2. Inv /\ [Next]_vars => Inv'
  <2> SUFFICES ASSUME Inv, [Next]_vars PROVE OneEditPerObject'
    BY ServerTypeStep
  <2>1. CASE Step
    BY <2>1, EditsChanged, OneEditStep DEF ServerTypeInv, ServerTyped
  <2>2. CASE UNCHANGED vars
    BY <2>2 DEF vars, coreVars, srvVars, OneEditPerObject
  <2> QED BY <2>1, <2>2 DEF Next
<1>3. Inv => OneEditPerObject
  OBVIOUS
<1> HIDE DEF Inv
<1> QED BY <1>1, <1>2, <1>3, PTL DEF Spec

-----------------------------------------------------------------------------
(* The loop implements MtpTransactions.                                    *)

\* Where a handler may be after its first step.
Handlers ==
  {"begin", "receive", "unlink", "end_send", "delete_path", "delete_tree",
   "set_path", "reply"}

\* The steps of handlers.
HandlerStep ==
  \/ doPlain \/ doStorageQuery \/ doGetObjectInfo \/ doGetObject
  \/ doGetThumb \/ doGetObjectReferences \/ doOpenSession \/ doCloseSession
  \/ SendStep \/ DeleteStep \/ MoveStep \/ EditStep

\* A handler goes on with its request, up to the response.
LEMMA HandlerGoesOn ==
  ASSUME ServerTypeInv, HandlerStep, alive'
  PROVE  /\ sv.pc \in Handlers \cup {"handle"}
         /\ sv'.pc \in Handlers /\ sv'.req = sv.req
<1>0. sv \in SvRecs
  BY DEF ServerTypeInv, ServerTyped, SvTyped
<1> USE DEF Handlers
<1>1. CASE doPlain \/ doStorageQuery \/ doGetObjectInfo \/ doGetObject
           \/ doSendPartialObjectRefused
  <2>1. At("handle") /\ \E code : Reply(code)
    BY <1>1 DEF doPlain, doStorageQuery, doGetObjectInfo, doGetObject,
                doSendPartialObjectRefused, OnlyAnswer, Handling
  <2> QED BY <1>0, <2>1 DEF Reply, At, SvRecs
<1>2. CASE doGetThumb \/ doGetObjectReferences
  <2>1. At("handle") /\ \E code : Reply(code)
    BY <1>2 DEF doGetThumb, doGetObjectReferences, OnlyAnswer, Handling
  <2> QED BY <1>0, <2>1 DEF Reply, At, SvRecs
<1>3. CASE doOpenSession \/ doCloseSession \/ doMoveObject \/ doTruncateObject
           \/ doBeginEditObject \/ doEndEditObject
  <2>1. At("handle") /\ \E code : Reply(code)
    BY <1>3 DEF doOpenSession, doCloseSession, doMoveObject, doTruncateObject,
                doBeginEditObject, doEndEditObject, Handling
  <2> QED BY <1>0, <2>1 DEF Reply, At, SvRecs
<1>4. CASE doSendObjectInfo
  <2>1. At("handle") /\ (Goto("begin") \/ \E code : Reply(code))
    BY <1>4 DEF doSendObjectInfo, OnlyAnswer, Handling
  <2> QED BY <1>0, <2>1 DEF Reply, Goto, At, SvRecs
<1>5. CASE BeginStep
  <2>1. At("begin") /\ sv' = sv
    BY <1>5 DEF BeginStep, srvVars
  <2> QED BY <2>1 DEF At
<1>6. CASE FinishObjectInfo \/ FinishRename
  <2>1. (At("begin") \/ At("set_path")) /\ \E code : Reply(code)
    BY <1>6 DEF FinishObjectInfo, FinishRename
  <2> QED BY <1>0, <2>1 DEF Reply, At, SvRecs
<1>7. CASE doSendObjectRefused \/ doSendObject
  <2>1. At("handle") /\ \/ \E code : sv' = [sv EXCEPT !.pc = "end_send",
                                                      !.result = code]
                        \/ \E n : sv' = [sv EXCEPT !.pc = "receive", !.ino = n]
    BY <1>7 DEF doSendObjectRefused, doSendObject, Handling
  <2> QED BY <1>0, <2>1 DEF At, SvRecs
<1>8. CASE ReceiveFile
  <2>1. At("receive") /\ \E code : \/ sv' = [sv EXCEPT !.pc = "end_send",
                                                       !.result = code]
                                   \/ sv' = [sv EXCEPT !.pc = "unlink",
                                                       !.result = code]
    BY <1>8 DEF ReceiveFile
  <2> QED BY <1>0, <2>1 DEF At, SvRecs
<1>9. CASE UnlinkPartial \/ FinishSendObject
  <2>1. (At("unlink") \/ At("end_send")) /\ (Goto("end_send") \/ Goto("reply"))
    BY <1>9 DEF UnlinkPartial, FinishSendObject
  <2> QED BY <1>0, <2>1 DEF Goto, At, SvRecs
<1>10. CASE doDeleteObject
  <2>1. \E code, p, pc : pc \in {"delete_path", "reply"}
          /\ sv' = [sv EXCEPT !.pc = pc, !.result = code, !.path = p]
    BY <1>10 DEF doDeleteObject
  <2>2. At("handle")
    BY <1>10 DEF doDeleteObject, Handling
  <2> QED BY <1>0, <2>1, <2>2 DEF At, SvRecs
<1>11. CASE DeletePath
  <2>1. At("delete_path")
        /\ \/ \E s : sv' = [sv EXCEPT !.pc = "delete_tree", !.stack = s]
           \/ sv' = [sv EXCEPT !.pc = "reply"]
    BY <1>11 DEF DeletePath
  <2> QED BY <1>0, <2>1 DEF At, SvRecs
<1>12. CASE DeleteRecursive
  <2>1. At("delete_tree")
        /\ \/ \E s : sv' = [sv EXCEPT !.stack = s]
           \/ \E s, pc : pc \in {"reply", "delete_tree"}
                         /\ sv' = [sv EXCEPT !.stack = s, !.pc = pc]
    BY <1>12 DEF DeleteRecursive
  <2> QED BY <1>0, <2>1 DEF At, SvRecs
<1>13. CASE doSetObjectPropValue
  <2>1. At("handle")
        /\ \/ \E q : sv' = [sv EXCEPT !.pc = "set_path", !.path = q]
           \/ \E code : Reply(code)
    BY <1>13 DEF doSetObjectPropValue, Handling
  <2> QED BY <1>0, <2>1 DEF Reply, At, SvRecs
<1>14. CASE doSendPartialObject
  <2>1. At("handle")
        /\ \E code, d : sv' = [sv EXCEPT !.pc = "reply", !.result = code,
                                         !.hasData = d]
    BY <1>14 DEF doSendPartialObject, Handling
  <2> QED BY <1>0, <2>1 DEF At, SvRecs
<1> QED
  BY <1>1, <1>2, <1>3, <1>4, <1>5, <1>6, <1>7, <1>8, <1>9, <1>10, <1>11, <1>12,
     <1>13, <1>14
     DEF HandlerStep, SendStep, DeleteStep, MoveStep, EditStep

\* A handler leaves the host waiting, and the reservation of a SendObject that
\* is not yet begun.
LEMMA HandlerHost ==
  ASSUME HandlerStep
  PROVE  host' = host
<1>1. CASE doPlain \/ doStorageQuery \/ doGetObjectInfo \/ doGetObject
           \/ doGetThumb \/ doGetObjectReferences \/ doOpenSession
           \/ doCloseSession
  BY <1>1 DEF doPlain, doStorageQuery, doGetObjectInfo, doGetObject, doGetThumb,
     doGetObjectReferences, doOpenSession, doCloseSession, OnlyAnswer, envVars
<1>2. CASE SendStep
  BY <1>2 DEF SendStep, doSendObjectInfo, BeginStep, FinishObjectInfo,
     doSendObjectRefused, doSendObject, ReceiveFile, UnlinkPartial,
     FinishSendObject, OnlyAnswer, envVars
<1>3. CASE DeleteStep \/ MoveStep \/ EditStep
  BY <1>3 DEF DeleteStep, doDeleteObject, DeletePath, DeleteRecursive,
     MoveStep, doMoveObject, doSetObjectPropValue, FinishRename, EditStep,
     doBeginEditObject, doSendPartialObjectRefused, doSendPartialObject,
     doTruncateObject, doEndEditObject, OnlyAnswer, envVars
<1> QED BY <1>1, <1>2, <1>3 DEF HandlerStep

\* The steps of everybody else.
OthersStep == Notifier \/ Daemon \/ LocalProcess

LEMMA OthersLeave ==
  ASSUME OthersStep
  PROVE  UNCHANGED <<sv, inbox, host, mSend>>
BY DEF OthersStep, Notifier, Daemon, StorageStep, InsertCard, AddStorage,
   RemoveStorageFromServer, RemoveStorageFromDatabase, LocalProcess, srvVars,
   envVars

\* A host that sends an object only when the server expects one, and edits
\* nothing in place: what it asks for is what run() and the handlers read.
PoliteHost == Polite /\ "SendPartialObject" \notin HostOps

\* As long as the loop runs ...
Serving == alive /\ sv.pc \notin {"closing", "closed"}
\* ... a request that waits has no answer yet; ...
Unanswered ==
  host.state = "waiting" => host.sent >= 1 /\ host.answers[host.sent] = 0
\* ... before the loop and in it, the pipe is empty unless one waits; ...
PipeOfWaiting ==
  sv.pc \in {"boot", "loop"} /\ host.state = "idle" => inbox = <<>>
BootIdle == sv.pc = "boot" => host.state = "idle"
\* ... the loop finds one whole request, a SendObject only after a reservation;
PipeInLoop ==
  sv.pc = "loop" /\ inbox # <<>> =>
    LET r == Head(inbox).req IN
    /\ r.op \in HostOps /\ inbox = Containers(r)
    /\ (r.op = "SendObject") = (mSend.handle # kInvalidObjectHandle)
\* ... and a handler runs for a request that waits, and reads all it brought.
PipeInHandler ==
  sv.pc \notin {"boot", "loop"} =>
    /\ host.state = "waiting" /\ sv.req.op \in HostOps
    /\ inbox # <<>> => sv.pc = "handle" /\ sv.req.op = "SendObject"
    /\ sv.pc = "handle" /\ sv.req.op = "SendObject" =>
         mSend.handle # kInvalidObjectHandle

OneAtATime ==
  Serving => /\ Unanswered /\ PipeOfWaiting /\ BootIdle
             /\ PipeInLoop /\ PipeInHandler

LEMMA OneAtATimeInit == Init => OneAtATime
BY DEF Init, OneAtATime, Unanswered, PipeOfWaiting, BootIdle, PipeInLoop,
       PipeInHandler

LEMMA OneAtATimeHandler ==
  ASSUME PoliteHost, ServerTypeInv, OneAtATime, alive, HandlerStep
  PROVE  OneAtATime'
<1> SUFFICES ASSUME alive' PROVE OneAtATime'
  BY DEF OneAtATime, Serving
<1>1. sv.pc \in Handlers \cup {"handle"} /\ sv'.pc \in Handlers
      /\ sv'.req = sv.req /\ host' = host
  BY HandlerGoesOn, HandlerHost
<1>2. sv.pc \notin {"boot", "loop", "closing", "closed"}
      /\ sv'.pc \notin {"boot", "loop", "closing", "closed", "handle"}
  BY <1>1 DEF Handlers
<1>3. Unanswered /\ PipeInHandler /\ InboxServed
  BY <1>2 DEF OneAtATime, Serving, ServerTypeInv, ServerTyped
<1>4. inbox' = <<>>
  <2>1. inbox' = inbox \/ inbox' = <<>>
    BY <1>2, PipeServed DEF Step, ServerStep, HandlerStep
  <2>2. CASE inbox # <<>>
    <3>1. sv.pc = "handle" /\ sv.req.op = "SendObject"
          /\ mSend.handle # kInvalidObjectHandle
      BY <1>2, <1>3, <2>2 DEF PipeInHandler
    <3>2. doSendObjectRefused \/ doSendObject
      BY <3>1 DEF HandlerStep, doPlain, doStorageQuery, doGetObjectInfo,
         doGetObject, doGetThumb, doGetObjectReferences, doOpenSession,
         doCloseSession, SendStep, doSendObjectInfo, BeginStep,
         FinishObjectInfo, ReceiveFile, UnlinkPartial, FinishSendObject,
         DeleteStep, doDeleteObject, DeletePath, DeleteRecursive, MoveStep,
         doMoveObject, doSetObjectPropValue, FinishRename, EditStep,
         doBeginEditObject, doSendPartialObjectRefused, doSendPartialObject,
         doTruncateObject, doEndEditObject, Handling, At, PlainOps, StorageOps
    <3>3. PICK r \in Asked : inbox = <<Container("DATA", r)>>
      BY <1>2, <1>3, <2>2 DEF InboxServed
    <3>4. Tail(inbox) = <<>>
      BY <3>3
    <3> QED BY <3>1, <3>2, <3>4 DEF doSendObjectRefused, doSendObject
  <2> QED BY <2>1, <2>2
<1>5. PipeInHandler'
  BY <1>1, <1>2, <1>3, <1>4 DEF PipeInHandler
<1>6. Unanswered' /\ PipeOfWaiting' /\ BootIdle' /\ PipeInLoop'
  BY <1>1, <1>2, <1>3
     DEF Unanswered, PipeOfWaiting, BootIdle, PipeInLoop
<1> QED BY <1>5, <1>6 DEF OneAtATime

LEMMA OneAtATimeStep ==
  ASSUME PoliteHost, ServerTypeInv, OneAtATime, alive, Step
  PROVE  OneAtATime'
<1> USE DEF At
<1>0. /\ sv \in SvRecs /\ HostTyped /\ InboxTyped
      /\ host \in [state : {"idle", "waiting"}, sent : Nat, answers : Seq(Nat)]
      /\ host.sent = Len(host.answers)
      /\ host.sent \in Nat /\ host.answers \in Seq(Nat)
  BY DEF ServerTypeInv, ServerTyped, SvTyped, HostTyped
<1>1. CASE HandlerStep
  BY <1>1, OneAtATimeHandler
<1>2. CASE OthersStep
  BY <1>2, OthersLeave DEF OneAtATime, Serving, Unanswered, PipeOfWaiting,
                           BootIdle, PipeInLoop, PipeInHandler
<1>3. CASE Unplug \/ Finish
  <2>1. sv'.pc \in {"closing", "closed"}
    BY <1>0, <1>3 DEF Unplug, Finish, Goto, SvRecs
  <2> QED BY <2>1 DEF OneAtATime, Serving
<1>4. CASE Run
  <2>1. sv.pc = "boot" /\ sv'.pc = "loop" /\ UNCHANGED <<inbox, host>>
    BY <1>0, <1>4 DEF Run, Goto, SvRecs, envVars
  <2>2. Unanswered /\ PipeOfWaiting /\ BootIdle
    BY <2>1 DEF OneAtATime, Serving
  <2>3. host.state = "idle" /\ inbox = <<>>
    BY <2>1, <2>2 DEF PipeOfWaiting, BootIdle
  <2> QED BY <2>1, <2>3 DEF OneAtATime, Unanswered, PipeOfWaiting, BootIdle,
                            PipeInLoop, PipeInHandler
<1>5. CASE HostRequest
  <2>1. PICK r \in Requests :
          /\ inbox' = Containers(r)
          /\ Polite => (r.op = "SendObject")
                         = (mSend.handle # kInvalidObjectHandle)
    BY <1>5 DEF HostRequest
  <2>2. r.op \in HostOps
    BY RequestsTyped
  <2>3. Head(Containers(r)) = Container("COMMAND", r)
    BY DEF Containers
  <2>4. Head(inbox').req = r
    BY <2>1, <2>3 DEF Container
  <2>5. sv' = sv /\ sv.pc = "loop" /\ mSend' = mSend
        /\ host' = [host EXCEPT !.state = "waiting", !.sent = @ + 1,
                                !.answers = Append(@, 0)]
    BY <1>5 DEF HostRequest, srvVars
  <2>6. host'.state = "waiting"
    BY <1>0, <2>5
  <2>7. host'.sent >= 1 /\ host'.answers[host'.sent] = 0
    <3>1. host'.sent = Len(host.answers) + 1
          /\ host'.answers = Append(host.answers, 0)
      BY <1>0, <2>5
    <3>2. Append(host.answers, 0)[Len(host.answers) + 1] = 0
      BY <1>0, AppendProperties
    <3>3. Len(host.answers) + 1 >= 1
      BY <1>0
    <3> QED BY <3>1, <3>2, <3>3
  <2>8. PipeInLoop'
    BY <2>1, <2>2, <2>4, <2>5 DEF PipeInLoop, PoliteHost
  <2> QED BY <2>5, <2>6, <2>7, <2>8 DEF OneAtATime, Unanswered, PipeOfWaiting,
                                        BootIdle, PipeInHandler
<1>6. CASE ReadRequest
  <2> DEFINE r == Head(inbox).req
  <2>1. /\ sv.pc = "loop" /\ inbox # <<>> /\ host' = host
        /\ inbox' = IF r.op \in DataIn THEN Tail(Tail(inbox)) ELSE Tail(inbox)
        /\ sv'.pc = "handle" /\ sv'.req = r
        /\ mSend' = IF mSend.handle # kInvalidObjectHandle
                       /\ r.op # "SendObject"
                    THEN [mSend EXCEPT !.handle = kInvalidObjectHandle]
                    ELSE mSend
    BY <1>0, <1>6 DEF ReadRequest, SvRecs
  <2>2. Unanswered /\ PipeOfWaiting /\ PipeInLoop
    BY <2>1 DEF OneAtATime, Serving
  <2>3. /\ host.state = "waiting" /\ r.op \in HostOps
        /\ r.op = "SendObject" => mSend.handle # kInvalidObjectHandle
    BY <1>0, <2>1, <2>2 DEF PipeOfWaiting, PipeInLoop
  <2>4. inbox = Containers(r)
    BY <2>1, <2>2 DEF PipeInLoop
  <2>5. inbox' # <<>> => r.op = "SendObject"
    <3>1. CASE r.op \in DataIn
      <4>1. Tail(Tail(inbox)) = <<>>
        BY <1>0, <2>1, <3>1, InboxRead DEF DataIn, HandlerData
      <4> QED BY <2>1, <3>1, <4>1
    <3>2. CASE r.op \notin DataIn \cup HandlerData
      <4>1. Tail(inbox) = <<>>
        BY <1>0, <2>1, <3>2, InboxRead
      <4> QED BY <2>1, <3>2, <4>1
    <3>3. r.op \in HandlerData => r.op = "SendObject"
      BY <2>3 DEF HandlerData, PoliteHost
    <3> QED BY <3>1, <3>2, <3>3
  <2>6. r.op = "SendObject" => mSend' = mSend
    BY <2>1
  <2> HIDE DEF r
  <2>7. PipeInHandler'
    BY <2>1, <2>3, <2>5, <2>6 DEF PipeInHandler
  <2>8. Unanswered' /\ PipeOfWaiting' /\ BootIdle' /\ PipeInLoop'
    BY <2>1, <2>2 DEF Unanswered, PipeOfWaiting, BootIdle, PipeInLoop
  <2> QED BY <2>7, <2>8 DEF OneAtATime
<1>7. CASE CancelData
  <2>1. /\ sv.pc = "loop" /\ inbox # <<>> /\ inbox' = Tail(Tail(inbox))
        /\ sv' = sv /\ host'.state = "idle" /\ Head(inbox).req.op \in DataIn
    BY <1>0, <1>7 DEF CancelData, srvVars
  <2>2. inbox' = <<>>
    BY <1>0, <2>1, InboxRead DEF DataIn, HandlerData
  <2> QED BY <2>1, <2>2 DEF OneAtATime, Unanswered, PipeOfWaiting, BootIdle,
                            PipeInLoop, PipeInHandler
<1>8. CASE WriteResponse
  <2>1. /\ sv.pc = "reply" /\ sv'.pc = "loop" /\ inbox' = inbox
        /\ host'.state = "idle"
    BY <1>0, <1>8 DEF WriteResponse, Answered, Goto, SvRecs
  <2>2. inbox = <<>>
    BY <2>1 DEF OneAtATime, Serving, PipeInHandler
  <2> QED BY <2>1, <2>2 DEF OneAtATime, Unanswered, PipeOfWaiting, BootIdle,
                            PipeInLoop, PipeInHandler
<1> QED BY <1>1, <1>2, <1>3, <1>4, <1>5, <1>6, <1>7, <1>8
    DEF Step, ServerStep, HandlerStep, OthersStep

\* What the host sees of a step is a step of the service, or none.
LEMMA TransactionStep ==
  ASSUME PoliteHost, ServerTypeInv, OneAtATime, [Next]_vars
  PROVE  [Transactions!Next]_(Transactions!tvars)
<1> DEFINE t == ServiceState
<1> USE DEF Transactions!tvars
<1>0. /\ sv \in SvRecs /\ host.state \in {"idle", "waiting"}
      /\ host \in [state : {"idle", "waiting"}, sent : Nat, answers : Seq(Nat)]
      /\ host.sent = Len(host.answers) /\ alive \in BOOLEAN
      /\ host.answers \in Seq(Nat) /\ InboxTyped
  BY DEF ServerTypeInv, ServerTyped, SvTyped, HostTyped, TypeInv, FlagsTyped
<1>1. CASE UNCHANGED vars
  <2>1. t' = t /\ host.answers' = host.answers
    BY <1>1 DEF vars, coreVars, databaseVars, dbVars, srvVars, envVars,
                ServiceState
  <2> QED BY <2>1
<1>2. CASE alive /\ Step /\ host' = host
  <2>1. t' = "ended" => t = "ended" \/ Transactions!End
    BY <1>2 DEF Transactions!End
  <2>2. t = "ended" => t' = "ended"
    <3>1. SUFFICES ASSUME sv.pc \in {"closing", "closed"}
                   PROVE  sv'.pc \in {"closing", "closed"}
      BY <1>2 DEF ServiceState
    <3>2. ~ReadRequest
      BY <3>1 DEF ReadRequest, At
    <3> QED BY <1>0, <1>2, <3>1, <3>2, LoopLeft DEF SvRecs
  <2>3. t # "ended" /\ t' # "ended" => t' = t
    BY <1>2 DEF ServiceState
  <2> QED BY <1>2, <2>1, <2>2, <2>3 DEF Transactions!Next
<1>3. CASE alive /\ HostRequest
  <2>1. /\ sv.pc = "loop" /\ host.state = "idle" /\ sv' = sv /\ alive' = alive
        /\ host' = [host EXCEPT !.state = "waiting", !.sent = @ + 1,
                                !.answers = Append(@, 0)]
    BY <1>3 DEF HostRequest, srvVars, databaseVars, dbVars
  <2>2. t = "idle" /\ t' = "waiting"
        /\ host'.answers = Append(host.answers, 0)
    BY <1>0, <1>3, <2>1 DEF ServiceState
  <2> QED BY <2>2 DEF Transactions!Next, Transactions!Request
<1>4. CASE alive /\ CancelData
  <2>1. /\ sv.pc = "loop" /\ inbox # <<>> /\ sv' = sv /\ alive' = alive
        /\ host' = [host EXCEPT !.state = "idle"]
    BY <1>4 DEF CancelData, At, srvVars, databaseVars, dbVars
  <2>2. host.state = "waiting"
    BY <1>0, <1>4, <2>1 DEF OneAtATime, Serving, PipeOfWaiting
  <2>3. t = "waiting" /\ t' = "idle" /\ host'.answers = host.answers
    BY <1>0, <1>4, <2>1, <2>2 DEF ServiceState
  <2> QED BY <2>3 DEF Transactions!Next, Transactions!Cancel
<1>5. CASE alive /\ WriteResponse
  <2>1. /\ sv.pc = "reply" /\ sv'.pc = "loop" /\ alive' = alive
        /\ host' = Answered(host) \/ host' = [host EXCEPT !.state = "idle"]
    BY <1>0, <1>5 DEF WriteResponse, At, Goto, SvRecs, databaseVars, dbVars
  <2>2. host.state = "waiting" /\ host.sent >= 1
        /\ host.answers[host.sent] = 0
    BY <1>5, <2>1 DEF OneAtATime, Serving, PipeInHandler, Unanswered
  <2>3. CASE host' = Answered(host)
    <3>1. host'.state = "idle"
          /\ host'.answers = [host.answers EXCEPT ![host.sent] = @ + 1]
      BY <1>0, <2>3 DEF Answered
    <3>2. host'.answers = [host.answers EXCEPT ![Len(host.answers)] = 1]
      BY <1>0, <2>2, <3>1
    <3>3. t = "waiting" /\ t' = "idle"
      BY <1>5, <2>1, <2>2, <3>1 DEF ServiceState
    <3> QED BY <3>2, <3>3 DEF Transactions!Next, Transactions!Answer
  <2>4. CASE host' = [host EXCEPT !.state = "idle"]
    <3>1. t = "waiting" /\ t' = "idle" /\ host'.answers = host.answers
      BY <1>0, <1>5, <2>1, <2>2, <2>4 DEF ServiceState
    <3> QED BY <3>1 DEF Transactions!Next, Transactions!Cancel
  <2> QED BY <2>1, <2>3, <2>4
<1>6. Step => HostRequest \/ CancelData \/ WriteResponse \/ host' = host
  <2>1. Run \/ ReadRequest \/ Finish \/ Unplug => host' = host
    BY DEF Run, ReadRequest, Finish, Unplug, envVars
  <2> QED BY <2>1, HandlerHost, OthersLeave
      DEF Step, ServerStep, HandlerStep, OthersStep
<1> QED BY <1>1, <1>2, <1>3, <1>4, <1>5, <1>6 DEF Next

\* For a polite host the loop of run() implements MtpTransactions, step for
\* step: requests are taken one at a time, each gets one response at most and
\* none after its transaction was cancelled, whatever the handlers do, for any
\* operations, faults, cards and other programs.
THEOREM TransactionsStepsHold ==
  ASSUME PoliteHost
  PROVE  Spec => Transactions!Init
                 /\ [][Transactions!Next]_(Transactions!tvars)
<1> DEFINE Inv == ServerTypeInv /\ OneAtATime
<1>1. Init => Inv
  BY ServerTypeInit, OneAtATimeInit
<1>2. Init => Transactions!Init
  BY DEF Init, Transactions!Init, ServiceState, DatabaseInit, DbInit
<1>3. Inv /\ [Next]_vars => Inv'
  <2> SUFFICES ASSUME Inv, [Next]_vars PROVE OneAtATime'
    BY ServerTypeStep
  <2>1. CASE Next
    BY <2>1, OneAtATimeStep DEF Next
  <2>2. CASE UNCHANGED vars
    BY <2>2 DEF vars, coreVars, databaseVars, dbVars, srvVars, envVars,
       OneAtATime, Serving, Unanswered, PipeOfWaiting, BootIdle, PipeInLoop,
       PipeInHandler
  <2> QED BY <2>1, <2>2
<1>4. Inv /\ [Next]_vars => [Transactions!Next]_(Transactions!tvars)
  BY TransactionStep
<1> HIDE DEF Inv
<1> QED BY <1>1, <1>2, <1>3, <1>4, PTL DEF Spec

-----------------------------------------------------------------------------
(* Handles under the composition.                                          *)

\* What a step does to the handles: entries at most go, and an idle thread may
\* be sent into add_file_entry; ...
HandlesKept ==
  /\ DOMAIN db' \subseteq DOMAIN db /\ ub \subseteq ub'
  /\ UNCHANGED <<counter, issued>>
  /\ \/ task' = task
     \/ \E t \in Threads : \E c : task[t].pc = "idle" /\
          task' = [task EXCEPT ![t].pc = "entry", ![t].todo = c]
\* ... the notifier or the daemon goes on in add_file_entry; ...
HandleAdded == UNCHANGED sv /\ \E t \in Threads : AddEntryStep(t)
\* ... or the server reserves one.
HandleReserved == (At("handle") \/ At("begin")) /\ SendCall

LEMMA HandlesUntouched ==
  ASSUME UNCHANGED dbVars \/ UNCHANGED databaseVars
  PROVE  HandlesKept
BY DEF HandlesKept, dbVars, databaseVars

LEMMA HandlesEnded ==
  ASSUME NEW p, NEW h, NEW format, NEW ok, EndSendObject(p, h, format, ok),
         UNCHANGED <<counter, issued, task, ub>>
  PROVE  HandlesKept
BY EndSendDomain DEF HandlesKept

LEMMA HandlesOfStep ==
  ASSUME Step
  PROVE  HandlesKept \/ HandleAdded \/ HandleReserved
<1>1. CASE UNCHANGED dbVars \/ UNCHANGED databaseVars
  BY <1>1, HandlesUntouched
<1>2. CASE Notifier
  <2>1. CASE InotifyHandler
    <3>1. task["notifier"].pc = "idle"
      BY <2>1 DEF InotifyHandler, Idle
    <3> QED BY <2>1, <3>1, InotifyDomain DEF HandlesKept, Threads
  <2>2. CASE AddEntryStep("notifier")
    BY <1>2, <2>2 DEF Notifier, srvVars, HandleAdded, Threads
  <2> QED BY <1>2, <2>1, <2>2 DEF Notifier
<1>3. CASE Daemon
  <2>1. CASE InsertCard
    BY <2>1 DEF InsertCard, AddStoragePath, Idle, HandlesKept, Threads
  <2>2. CASE RemoveStorageFromDatabase
    BY <2>2, RemoveStorageDomain DEF RemoveStorageFromDatabase, HandlesKept
  <2>3. CASE AddStorage \/ RemoveStorageFromServer
    BY <1>1, <2>3 DEF AddStorage, RemoveStorageFromServer
  <2>4. CASE AddEntryStep("daemon") /\ UNCHANGED <<locals, srvVars, envVars>>
    BY <2>4 DEF srvVars, HandleAdded, Threads
  <2> QED BY <1>3, <2>1, <2>2, <2>3, <2>4 DEF Daemon, StorageStep
<1>4. CASE LocalProcess \/ HostRequest \/ Unplug
  BY <1>1, <1>4 DEF LocalProcess, Local, HostRequest, Unplug
<1>5. CASE Run \/ ReadRequest \/ CancelData \/ WriteResponse
           \/ doPlain \/ doStorageQuery \/ doGetObjectInfo \/ doGetObject
  <2>1. UNCHANGED databaseVars
    BY <1>5 DEF Run, ReadRequest, CancelData, WriteResponse, doPlain,
       doStorageQuery, doGetObjectInfo, doGetObject, OnlyAnswer
  <2> QED BY <1>1, <2>1
<1>6. CASE doGetThumb \/ doGetObjectReferences \/ doOpenSession
           \/ doCloseSession
  <2>1. UNCHANGED <<db, counter, task, issued, ub>>
    BY <1>6 DEF doGetThumb, doGetObjectReferences, doOpenSession,
                doCloseSession, OnlyAnswer, databaseVars, dbVars
  <2> QED BY <2>1 DEF HandlesKept
<1>7. CASE Finish
  <2>1. UNCHANGED <<counter, task, issued, ub>>
    BY <1>7 DEF Finish
  <2>2. db' = db \/ \E p, h, f : EndSendObject(p, h, f, TRUE)
    BY <1>7 DEF Finish
  <2> QED BY <2>1, <2>2, HandlesEnded DEF HandlesKept
<1>8. CASE doSendObjectInfo \/ BeginStep
  <2>1. UNCHANGED databaseVars \/ HandleReserved
    BY <1>8 DEF doSendObjectInfo, BeginStep, Handling, OnlyAnswer, SendCall,
                HandleReserved
  <2> QED BY <1>1, <2>1
<1>9. CASE FinishObjectInfo \/ doSendObjectRefused \/ doSendObject
           \/ ReceiveFile \/ UnlinkPartial
  <2>1. UNCHANGED dbVars \/ UNCHANGED databaseVars
    BY <1>9 DEF FinishObjectInfo, doSendObjectRefused, doSendObject,
                ReceiveFile, UnlinkPartial
  <2> QED BY <1>1, <2>1
<1>10. CASE FinishSendObject
  <2>1. UNCHANGED <<counter, task, issued, ub>>
        /\ \E p, h, f, ok : EndSendObject(p, h, f, ok)
    BY <1>10 DEF FinishSendObject
  <2> QED BY <2>1, HandlesEnded
<1>11. CASE doDeleteObject
  <2>1. UNCHANGED <<counter, task, issued>>
        /\ ((\E h : DeleteFile(h, {})) \/ UNCHANGED <<db, ub>>)
    BY <1>11 DEF doDeleteObject
  <2> QED BY <2>1, DeleteFileDomain DEF HandlesKept
<1>12. CASE DeletePath \/ DeleteRecursive \/ doSetObjectPropValue
            \/ doTruncateObject \/ doSendPartialObject
  <2>1. UNCHANGED dbVars
    BY <1>12 DEF DeletePath, DeleteRecursive, doSetObjectPropValue,
                 doTruncateObject, doSendPartialObject
  <2> QED BY <1>1, <2>1
<1>13. CASE doMoveObject \/ FinishRename
  <2>1. UNCHANGED <<counter, task, issued, ub>>
        /\ (db' = db \/ (\E h, q : MoveFile(h, q)) \/ (\E h, p : SetPath(h, p)))
    BY <1>13 DEF doMoveObject, FinishRename
  <2> QED BY <2>1 DEF MoveFile, SetPath, HandlesKept
<1>14. CASE doBeginEditObject \/ doSendPartialObjectRefused
  <2>1. UNCHANGED databaseVars
    BY <1>14 DEF doBeginEditObject, doSendPartialObjectRefused, OnlyAnswer
  <2> QED BY <1>1, <2>1
<1>15. CASE doEndEditObject
  <2>1. UNCHANGED <<counter, task, issued, ub>>
        /\ (db' = db \/ \E p, h, f : EndSendObject(p, h, f, TRUE))
    BY <1>15 DEF doEndEditObject
  <2> QED BY <2>1, HandlesEnded DEF HandlesKept
<1> QED
  BY <1>2, <1>3, <1>4, <1>5, <1>6, <1>7, <1>8, <1>9, <1>10, <1>11, <1>12,
     <1>13, <1>14, <1>15
     DEF Step, ServerStep, SendStep, DeleteStep, MoveStep, EditStep

\* The composition keeps what makes handles fresh.
LEMMA ComposedFreshStep ==
  ASSUME ServerTypeInv, HandlesFreshInv, [Next]_vars
  PROVE  HandlesFreshInv'
<1>1. HandlesPositive'
  BY ServerTypeStep DEF ServerTypeInv, TypeInv
<1>2. CASE Step
  BY <1>1, <1>2, HandlesOfStep, FreshKept, FreshAddEntry, FreshSend
     DEF HandlesKept, HandleAdded, HandleReserved
<1>3. CASE UNCHANGED vars
  BY <1>1, <1>3, FreshKept DEF vars, coreVars, databaseVars, dbVars
<1> QED BY <1>2, <1>3 DEF Next

\* The handles of objects stay unique and fresh also when the server sends,
\* deletes, moves and edits, unless two threads raced for the counter.
THEOREM ServerHandlesFresh == Spec => []HandlesFreshUnlessRaced
<1> DEFINE Inv == ServerTypeInv /\ HandlesFreshInv
<1>1. Init => Inv
  BY ServerTypeInit, FreshInit DEF Init
<1>2. Inv /\ [Next]_vars => Inv'
  BY ServerTypeStep, ComposedFreshStep
<1>3. Inv => HandlesFreshUnlessRaced
  BY FreshInvImplies
<1> HIDE DEF Inv
<1> QED BY <1>1, <1>2, <1>3, PTL DEF Spec

-----------------------------------------------------------------------------
(* DeleteObject.                                                           *)

Deleting == sv.pc \in {"delete_path", "delete_tree"}
\* The disk is touched for a DeleteObject the database allowed, and its handle
\* is gone, ...
DeletionAllowed ==
  Deleting =>
    /\ sv.req.op = "DeleteObject" /\ sv.result = "OK"
    /\ sv.req.handle \in issued
    /\ "counter" \notin ub => sv.req.handle \notin DOMAIN db
\* ... and below its path only.
FramesUnder(s) ==
  {f \in Frames : IsPrefix(s, f.path) /\ \A q \in f.left : IsPrefix(s, q)}
FramesBelow == sv.pc = "delete_tree" => sv.stack \in Seq(FramesUnder(sv.path))

DeleteInv == EntriesIssued /\ DeletionAllowed /\ FramesBelow

LEMMA EntriesIssuedStep ==
  ASSUME EntriesIssued, HandlesFreshInv, Step
  PROVE  EntriesIssued'
<1>1. CASE HandlesKept
  BY <1>1 DEF HandlesKept, EntriesIssued
<1>2. CASE HandleAdded
  <2>1. PICK t \in Threads : AddEntryStep(t)
    BY <1>2 DEF HandleAdded
  <2>2. issued \subseteq issued' /\ DOMAIN db' \ DOMAIN db \subseteq issued'
    BY <2>1, EntryInserted
  <2> QED BY <2>2 DEF EntriesIssued
<1>3. CASE SendCall
  <2>1. CASE ReserveEntry
    <3>1. issued' = issued \cup {task["server"].handle}
          /\ \E e : db' = Insert(db, task["server"].handle, e)
      BY <2>1 DEF ReserveEntry
    <3>2. PICK e : db' = Insert(db, task["server"].handle, e)
      BY <3>1
    <3>3. DOMAIN db' = DOMAIN db \cup {task["server"].handle}
      BY <3>2, InsertDomain
    <3> QED BY <3>1, <3>3 DEF EntriesIssued
  <2>2. UNCHANGED <<db, issued>> \/ ReserveEntry
    BY <1>3 DEF SendCall, BeginSendObject, FinishBeginSend
  <2> QED BY <2>1, <2>2 DEF EntriesIssued
<1> QED BY <1>1, <1>2, <1>3, HandlesOfStep DEF HandleReserved

\* Nobody else enters a deletion, or moves one.
LEMMA DeletionEntered ==
  ASSUME ServerTypeInv, Step, ~DeleteStep
  PROVE  sv' = sv \/ (~Deleting /\ ~Deleting')
<1>0. sv \in SvRecs
  BY DEF ServerTypeInv, ServerTyped, SvTyped
<1> USE DEF Deleting, At, Handling
<1>1. CASE Notifier \/ Daemon \/ LocalProcess \/ HostRequest \/ CancelData
  <2>1. sv' = sv
    BY <1>1 DEF Notifier, Daemon, StorageStep, InsertCard, AddStorage,
       RemoveStorageFromServer, RemoveStorageFromDatabase, LocalProcess,
       HostRequest, CancelData, srvVars
  <2> QED BY <2>1
<1>2. CASE Run \/ WriteResponse \/ Unplug
  BY <1>0, <1>2 DEF Run, WriteResponse, Unplug, Goto, SvRecs
<1>3. CASE Finish
  BY <1>0, <1>3 DEF Finish, Goto, SvRecs
<1>4. CASE ReadRequest
  BY <1>0, <1>4 DEF ReadRequest, SvRecs
<1>5. CASE doPlain \/ doStorageQuery \/ doGetObjectInfo \/ doGetObject
           \/ doSendPartialObjectRefused \/ doGetThumb
           \/ doGetObjectReferences
  <2>1. sv' = sv \/ (At("handle") /\ \E code : Reply(code))
    BY <1>5 DEF doPlain, doStorageQuery, doGetObjectInfo, doGetObject,
       doSendPartialObjectRefused, doGetThumb, doGetObjectReferences,
       OnlyAnswer, srvVars
  <2> QED BY <1>0, <2>1 DEF Reply, SvRecs
<1>6. CASE doOpenSession \/ doCloseSession \/ doMoveObject \/ doTruncateObject
           \/ doBeginEditObject \/ doEndEditObject
  <2>1. At("handle") /\ \E code : Reply(code)
    BY <1>6 DEF doOpenSession, doCloseSession, doMoveObject, doTruncateObject,
                doBeginEditObject, doEndEditObject
  <2> QED BY <1>0, <2>1 DEF Reply, SvRecs
<1>7. CASE doSendObjectInfo \/ BeginStep \/ FinishObjectInfo \/ FinishRename
  <2>1. sv' = sv \/ ((At("handle") \/ At("begin") \/ At("set_path"))
                     /\ (Goto("begin") \/ \E code : Reply(code)))
    BY <1>7 DEF doSendObjectInfo, OnlyAnswer, BeginStep, FinishObjectInfo,
                FinishRename, srvVars
  <2> QED BY <1>0, <2>1 DEF Reply, Goto, SvRecs
<1>8. CASE doSendObjectRefused \/ doSendObject \/ ReceiveFile \/ UnlinkPartial
           \/ FinishSendObject
  <2>1. sv.pc \in {"handle", "receive", "unlink", "end_send"}
        /\ \E pc \in {"end_send", "receive", "unlink", "reply"} :
             \/ \E code : sv' = [sv EXCEPT !.pc = pc, !.result = code]
             \/ \E n : sv' = [sv EXCEPT !.pc = pc, !.ino = n]
             \/ sv' = [sv EXCEPT !.pc = pc]
    BY <1>8 DEF doSendObjectRefused, doSendObject, ReceiveFile, UnlinkPartial,
                FinishSendObject, Goto
  <2> QED BY <1>0, <2>1 DEF SvRecs
<1>9. CASE doSetObjectPropValue \/ doSendPartialObject
  <2>1. At("handle")
        /\ \/ \E q : sv' = [sv EXCEPT !.pc = "set_path", !.path = q]
           \/ \E code : Reply(code)
           \/ \E code, d : sv' = [sv EXCEPT !.pc = "reply", !.result = code,
                                            !.hasData = d]
    BY <1>9 DEF doSetObjectPropValue, doSendPartialObject
  <2> QED BY <1>0, <2>1 DEF Reply, SvRecs
<1> QED
  BY <1>1, <1>2, <1>3, <1>4, <1>5, <1>6, <1>7, <1>8, <1>9
     DEF Step, ServerStep, SendStep, MoveStep, EditStep

\* What deleteFile is asked to take out is out.
LEMMA DeletedIsGone ==
  ASSUME NEW h \in DOMAIN db, DeleteFile(h, {})
  PROVE  h \notin DOMAIN db'
<1>1. db' \in Walked(Erase(db, {h}), Children(h) \ {h})
  BY DEF DeleteFile
<1>2. DOMAIN db' \subseteq DOMAIN Erase(db, {h})
  BY <1>1, WalkedDomain
<1>3. DOMAIN Erase(db, {h}) = DOMAIN db \ {h}
  BY EraseDomain
<1> QED BY <1>2, <1>3

LEMMA DeletionAllowedStep ==
  ASSUME ServerTypeInv, EntriesIssued, DeletionAllowed, HandlesFreshInv, Step
  PROVE  DeletionAllowed'
<1>0. sv \in SvRecs
  BY DEF ServerTypeInv, ServerTyped, SvTyped
<1>1. CASE doDeleteObject
  <2> DEFINE h == sv.req.handle
             code == IF ~HasStorage THEN "INVALID_OBJECT_HANDLE"
                     ELSE IF FilePathResponse(h) # "OK" THEN FilePathResponse(h)
                     ELSE DeleteFileResponse(h)
  <2>1. SUFFICES ASSUME Deleting' PROVE DeletionAllowed'
    BY DEF DeletionAllowed
  <2>2. PICK pc, p : pc = (IF code = "OK" THEN "delete_path" ELSE "reply")
                     /\ sv' = [sv EXCEPT !.pc = pc, !.result = code, !.path = p]
    BY <1>1 DEF doDeleteObject
  <2>3. sv.req.op = "DeleteObject"
    BY <1>1 DEF doDeleteObject, Handling
  <2>4. /\ code = "OK" /\ sv'.result = code /\ sv'.req = sv.req
    <3> HIDE DEF code
    <3> QED BY <1>0, <2>1, <2>2 DEF Deleting, SvRecs
  <2>5. HasStorage /\ h \in DOMAIN db
    BY <2>4 DEF FilePathResponse
  <2>6. DeleteFile(h, {}) /\ issued' = issued
    BY <1>1, <2>5 DEF doDeleteObject
  <2>7. h \notin DOMAIN db' /\ h \in issued
    BY <2>5, <2>6, DeletedIsGone DEF EntriesIssued
  <2> QED BY <2>3, <2>4, <2>6, <2>7 DEF DeletionAllowed
<1>2. CASE DeletePath \/ DeleteRecursive
  <2>1. Deleting /\ UNCHANGED dbVars
    BY <1>2 DEF DeletePath, DeleteRecursive, Deleting, At
  <2>2. sv'.req = sv.req /\ sv'.result = sv.result
    <3>1. \/ \E s, pc : sv' = [sv EXCEPT !.pc = pc, !.stack = s]
          \/ \E s, pc : sv' = [sv EXCEPT !.stack = s, !.pc = pc]
          \/ \E pc : sv' = [sv EXCEPT !.pc = pc]
          \/ \E s : sv' = [sv EXCEPT !.stack = s]
      <4>1. CASE DeletePath
        BY <4>1 DEF DeletePath
      <4>2. CASE DeleteRecursive
        <5> DEFINE top == Head(sv.stack)
                   rest(p) == <<[top EXCEPT !.left = @ \ {p}]>>
                                \o Tail(sv.stack)
        <5>1. CASE \E p \in top.left :
                     IF IsDirectory(p)
                     THEN sv' = [sv EXCEPT !.stack = <<Frame(p)>> \o rest(p)]
                     ELSE sv' = [sv EXCEPT !.stack = rest(p)]
          <6> HIDE DEF top, rest
          <6> QED BY <5>1
        <5>2. CASE sv' = [sv EXCEPT !.stack = Tail(@),
                            !.pc = IF Tail(sv.stack) = <<>> THEN "reply"
                                   ELSE "delete_tree"]
          BY <5>2
        <5> QED BY <4>2, <5>1, <5>2 DEF DeleteRecursive
      <4> QED BY <1>2, <4>1, <4>2
    <3> QED BY <1>0, <3>1 DEF SvRecs
  <2> QED BY <2>1, <2>2 DEF DeletionAllowed, dbVars
<1>3. CASE ~DeleteStep /\ sv' = sv /\ Deleting
  <2>1. sv.req.handle \in issued
        /\ ("counter" \notin ub => sv.req.handle \notin DOMAIN db)
    BY <1>3 DEF DeletionAllowed
  <2>2. /\ sv.req.handle \in issued' /\ ub \subseteq ub'
        /\ "counter" \notin ub' => sv.req.handle \notin DOMAIN db'
    <3>1. CASE HandlesKept
      BY <2>1, <3>1 DEF HandlesKept
    <3>2. CASE HandleAdded
      BY <2>1, <3>2, EntryInserted DEF HandleAdded
    <3>3. ~HandleReserved
      BY <1>3 DEF HandleReserved, Deleting, At
    <3> QED BY <3>1, <3>2, <3>3, HandlesOfStep
  <2> QED BY <1>3, <2>2 DEF DeletionAllowed, Deleting
<1>4. CASE ~Deleting'
  BY <1>4 DEF DeletionAllowed
<1>5. CASE sv' = sv /\ ~Deleting
  BY <1>4, <1>5 DEF Deleting
<1> QED BY <1>1, <1>2, <1>3, <1>4, <1>5, DeletionEntered DEF DeleteStep

\* What lies in a directory below s lies below s.
LEMMA PrefixOfChild ==
  ASSUME NEW s \in Paths, NEW p \in Paths, NEW q \in Paths,
         Len(q) = Len(p) + 1, Front(q) = p, IsPrefix(s, p)
  PROVE  IsPrefix(s, q)
<1> DEFINE k == Len(s)
<1>1. /\ k \in Nat /\ Len(p) \in Nat /\ Len(q) \in Nat /\ k <= Len(p)
      /\ SubSeq(s, 1, k) = SubSeq(p, 1, k)
  BY LenProperties DEF Paths, IsPrefix
<1>2. \A i \in 1 .. Len(p) : q[i] \in PathNames /\ p[i] \in PathNames
  BY <1>1, ElementOfSeq DEF Paths
<1>3. \A i \in 1 .. Len(p) : p[i] = q[i]
  <2>1. SubSeq(q, 1, Len(p)) = p
    BY <1>1 DEF Front
  <2>2. \A i \in 1 .. Len(p) - 1 + 1 : SubSeq(q, 1, Len(p))[i] = q[1 + i - 1]
    BY <1>1, <1>2, SubSeqProperties
  <2> QED BY <1>1, <2>1, <2>2
<1>4. \A i \in 1 .. k : p[i] \in PathNames /\ q[i] \in PathNames
  BY <1>1, <1>2
<1>5. /\ SubSeq(p, 1, k) \in Seq(PathNames)
      /\ Len(SubSeq(p, 1, k)) = (IF 1 <= k THEN k - 1 + 1 ELSE 0)
      /\ \A i \in 1 .. k - 1 + 1 : SubSeq(p, 1, k)[i] = p[1 + i - 1]
  BY <1>1, <1>4, SubSeqProperties
<1>6. /\ SubSeq(q, 1, k) \in Seq(PathNames)
      /\ Len(SubSeq(q, 1, k)) = (IF 1 <= k THEN k - 1 + 1 ELSE 0)
      /\ \A i \in 1 .. k - 1 + 1 : SubSeq(q, 1, k)[i] = q[1 + i - 1]
  BY <1>1, <1>4, SubSeqProperties
<1>7. SubSeq(p, 1, k) = SubSeq(q, 1, k)
  <2> DEFINE a == SubSeq(p, 1, k)
             b == SubSeq(q, 1, k)
  <2>1. a \in Seq(PathNames) /\ b \in Seq(PathNames) /\ Len(a) = Len(b)
        /\ Len(a) = k
    BY <1>1, <1>5, <1>6
  <2>2. \A i \in 1 .. k : a[i] = b[i]
    BY <1>1, <1>3, <1>5, <1>6
  <2> HIDE DEF a, b
  <2>3. a = b
    BY <2>1, <2>2, SeqEqual
  <2> QED BY <2>3 DEF a, b
<1> QED BY <1>1, <1>7 DEF IsPrefix

\* A directory below s, with all that is in it, is below s.
LEMMA FrameIsUnder ==
  ASSUME KernelTyped, NEW s \in Paths, NEW p \in Paths, IsPrefix(s, p)
  PROVE  Frame(p) \in FramesUnder(s)
<1>1. Listing(p) \subseteq Paths
  BY DEF Listing, KernelTyped, TreeTyped
<1>2. \A q \in Listing(p) : IsPrefix(s, q)
  BY <1>1, PrefixOfChild DEF Listing
<1>3. Frame(p) \in Frames
  BY FrameTyped
<1> QED BY <1>2, <1>3 DEF Frame, FramesUnder

LEMMA FramesBelowStep ==
  ASSUME ServerTypeInv, FramesBelow, Step
  PROVE  FramesBelow'
<1>0. /\ sv \in SvRecs /\ sv.path \in Paths /\ sv.stack \in Seq(Frames)
      /\ sv.pc = "delete_tree" => sv.stack # <<>>
      /\ KernelTyped
  BY DEF ServerTypeInv, ServerTyped, SvTyped, SvRecs, TypeInv
<1> DEFINE F == FramesUnder(sv.path)
<1>1. CASE doDeleteObject
  <2>1. \E code, p, pc : pc \in {"delete_path", "reply"}
          /\ sv' = [sv EXCEPT !.pc = pc, !.result = code, !.path = p]
    BY <1>1 DEF doDeleteObject
  <2> QED BY <1>0, <2>1 DEF SvRecs, FramesBelow
<1>2. CASE DeletePath
  <2>1. \/ sv' = [sv EXCEPT !.pc = "delete_tree", !.stack = <<Frame(sv.path)>>]
        \/ sv' = [sv EXCEPT !.pc = "reply"]
    BY <1>2 DEF DeletePath
  <2>2. IsPrefix(sv.path, sv.path)
    BY <1>0, LenProperties DEF IsPrefix, Paths
  <2>3. PICK f \in F : f = Frame(sv.path)
    BY <1>0, <2>2, FrameIsUnder
  <2>4. <<f>> \in Seq(F)
    <3> HIDE DEF F
    <3> QED OBVIOUS
  <2>5. CASE sv' = [sv EXCEPT !.pc = "delete_tree", !.stack = <<f>>]
    <3>1. sv'.stack = <<f>> /\ sv'.path = sv.path
      BY <1>0, <2>5 DEF SvRecs
    <3> QED BY <2>4, <3>1 DEF FramesBelow
  <2>6. CASE sv' = [sv EXCEPT !.pc = "reply"]
    BY <1>0, <2>6 DEF FramesBelow, SvRecs
  <2> QED BY <2>1, <2>3, <2>5, <2>6
<1>3. CASE DeleteRecursive
  <2> DEFINE top == Head(sv.stack)
             rest(p) == <<[top EXCEPT !.left = @ \ {p}]>> \o Tail(sv.stack)
  <2>1. sv.pc = "delete_tree"
    BY <1>3 DEF DeleteRecursive, At
  <2>2. sv.stack \in Seq(F) /\ sv.stack # <<>>
    BY <1>0, <2>1 DEF FramesBelow
  <2>3. top \in F /\ Tail(sv.stack) \in Seq(F)
    <3> HIDE DEF F
    <3> QED BY <2>2, HeadTailProperties
  <2>4. \/ \E p \in top.left :
             \/ sv' = [sv EXCEPT !.stack = <<Frame(p)>> \o rest(p)]
             \/ sv' = [sv EXCEPT !.stack = rest(p)]
        \/ sv' = [sv EXCEPT !.stack = Tail(@),
                            !.pc = IF Tail(sv.stack) = <<>> THEN "reply"
                                   ELSE "delete_tree"]
    BY <1>3 DEF DeleteRecursive
  <2>5. CASE \E p \in top.left :
               \/ sv' = [sv EXCEPT !.stack = <<Frame(p)>> \o rest(p)]
               \/ sv' = [sv EXCEPT !.stack = rest(p)]
    <3>1. PICK p \in top.left :
            \/ sv' = [sv EXCEPT !.stack = <<Frame(p)>> \o rest(p)]
            \/ sv' = [sv EXCEPT !.stack = rest(p)]
      BY <2>5
    <3>2. p \in Paths /\ IsPrefix(sv.path, p)
      BY <2>3 DEF Frames, FramesUnder
    <3>3. [top EXCEPT !.left = @ \ {p}] \in F
      BY <2>3 DEF Frames, FramesUnder
    <3>4. Frame(p) \in F
      BY <1>0, <3>2, FrameIsUnder
    <3>5. PICK a \in F, t \in Seq(F), f \in F :
            /\ a = [top EXCEPT !.left = @ \ {p}] /\ t = Tail(sv.stack)
            /\ f = Frame(p)
      BY <2>3, <3>3, <3>4
    <3>6. <<a>> \o t \in Seq(F)
      BY <3>5, ConsSeq
    <3>7. <<f>> \o (<<a>> \o t) \in Seq(F)
      BY <3>5, <3>6, ConsSeq
    <3>8. \E s \in Seq(F) : sv' = [sv EXCEPT !.stack = s]
      BY <3>1, <3>5, <3>6, <3>7
    <3>9. sv'.path = sv.path /\ sv'.stack \in Seq(F)
      <4> HIDE DEF F
      <4> QED BY <1>0, <3>8 DEF SvRecs
    <3> QED BY <3>9 DEF FramesBelow
  <2>6. CASE sv' = [sv EXCEPT !.stack = Tail(@),
                              !.pc = IF Tail(sv.stack) = <<>> THEN "reply"
                                     ELSE "delete_tree"]
    <3>1. PICK t \in Seq(F) : t = Tail(sv.stack)
      BY <2>3
    <3>2. \E pc : sv' = [sv EXCEPT !.stack = t, !.pc = pc]
      BY <2>6, <3>1
    <3>3. sv'.path = sv.path /\ sv'.stack = t
      BY <1>0, <3>2 DEF SvRecs
    <3> QED BY <3>1, <3>3 DEF FramesBelow
  <2> QED BY <2>4, <2>5, <2>6
<1>4. CASE ~DeleteStep
  BY <1>4, DeletionEntered DEF Deleting, FramesBelow
<1> QED BY <1>1, <1>2, <1>3, <1>4 DEF DeleteStep

LEMMA DeleteInvStep ==
  ASSUME ServerTypeInv, HandlesFreshInv, DeleteInv, [Next]_vars
  PROVE  DeleteInv'
<1>1. CASE Step
  BY <1>1, EntriesIssuedStep, DeletionAllowedStep, FramesBelowStep
     DEF DeleteInv
<1>2. CASE UNCHANGED vars
  BY <1>2 DEF vars, coreVars, databaseVars, dbVars, srvVars, DeleteInv,
     EntriesIssued, DeletionAllowed, FramesBelow, Deleting
<1> QED BY <1>1, <1>2 DEF Next

\* In a DeleteObject the server's thread only deletes.
LEMMA DeletionGoesOn ==
  ASSUME ServerTypeInv, Step, sv # sv',
         sv.pc \in {"handle", "delete_path", "delete_tree"},
         sv.req.op = "DeleteObject"
  PROVE  DeleteStep
<1> SUFFICES ASSUME ~DeleteStep PROVE FALSE
  OBVIOUS
<1>1. At("handle")
  BY DeletionEntered DEF Deleting, At
<1>2. CASE Notifier \/ Daemon \/ LocalProcess \/ HostRequest
  BY <1>2 DEF Notifier, Daemon, StorageStep, InsertCard, AddStorage,
     RemoveStorageFromServer, RemoveStorageFromDatabase, LocalProcess,
     HostRequest, srvVars
<1>3. CASE Run \/ WriteResponse \/ Unplug \/ Finish \/ ReadRequest \/ CancelData
  BY <1>1, <1>3 DEF Run, WriteResponse, Unplug, Finish, ReadRequest, CancelData,
     At
<1>4. CASE doPlain \/ doStorageQuery \/ doGetObjectInfo \/ doGetObject
           \/ doSendPartialObjectRefused \/ doGetThumb
           \/ doGetObjectReferences
  BY <1>4 DEF doPlain, doStorageQuery, doGetObjectInfo, doGetObject,
     doSendPartialObjectRefused, doGetThumb, doGetObjectReferences, Handling,
     PlainOps, StorageOps
<1>5. CASE doOpenSession \/ doCloseSession \/ EditStep \/ MoveStep
  BY <1>1, <1>5 DEF doOpenSession, doCloseSession, EditStep, MoveStep,
     doBeginEditObject, doSendPartialObjectRefused, doSendPartialObject,
     doTruncateObject, doEndEditObject, doMoveObject, doSetObjectPropValue,
     FinishRename, Handling, At
<1>6. CASE SendStep
  BY <1>1, <1>6 DEF SendStep, doSendObjectInfo, BeginStep, FinishObjectInfo,
     doSendObjectRefused, doSendObject, ReceiveFile, UnlinkPartial,
     FinishSendObject, Handling, At
<1> QED BY <1>2, <1>3, <1>4, <1>5, <1>6 DEF Step, ServerStep

\* A deletion takes one object at a time, below the path it started from.
LEMMA DeletionRemoves ==
  ASSUME ServerTypeInv, DeleteInv, DeleteStep
  PROVE  \/ UNCHANGED fs
         \/ /\ Deleting /\ UNCHANGED dbVars
            /\ \E p : IsPrefix(sv.path, p) /\ DOMAIN fs' = DOMAIN fs \ {p}
<1>0. /\ sv \in SvRecs /\ sv.path \in Paths
      /\ sv.pc = "delete_tree" => sv.stack # <<>>
  BY DEF ServerTypeInv, ServerTyped, SvTyped, SvRecs
<1>1. CASE doDeleteObject
  BY <1>1 DEF doDeleteObject
<1>2. SUFFICES ASSUME DeletePath \/ DeleteRecursive
               PROVE  UNCHANGED fs \/ \E p : IsPrefix(sv.path, p) /\ FsRemove(p)
  <2>1. CASE DeletePath \/ DeleteRecursive
    <3>1. Deleting /\ UNCHANGED dbVars
      BY <2>1 DEF DeletePath, DeleteRecursive, Deleting, At
    <3>2. UNCHANGED fs \/ \E p : IsPrefix(sv.path, p) /\ FsRemove(p)
      BY <1>2, <2>1
    <3>3. \A p : FsRemove(p) => DOMAIN fs' = DOMAIN fs \ {p}
      BY EraseDomain DEF FsRemove
    <3> QED BY <3>1, <3>2, <3>3
  <2> QED BY <1>1, <2>1 DEF DeleteStep
<1>3. CASE DeletePath
  <2>1. UNCHANGED fs \/ FsRemove(sv.path)
    BY <1>3 DEF DeletePath, kernelVars
  <2>2. IsPrefix(sv.path, sv.path)
    BY <1>0, LenProperties DEF IsPrefix, Paths
  <2> QED BY <2>1, <2>2
<1>4. CASE DeleteRecursive
  <2> DEFINE top == Head(sv.stack)
  <2>1. sv.pc = "delete_tree"
    BY <1>4 DEF DeleteRecursive, At
  <2>2. sv.stack \in Seq(FramesUnder(sv.path)) /\ sv.stack # <<>>
    BY <1>0, <2>1 DEF DeleteInv, FramesBelow
  <2>3. top \in FramesUnder(sv.path)
    BY <2>2, HeadTailProperties
  <2>4. IsPrefix(sv.path, top.path) /\ \A p \in top.left : IsPrefix(sv.path, p)
    BY <2>3 DEF FramesUnder
  <2>5. \/ UNCHANGED fs
        \/ \E p \in top.left : FsRemove(p)
        \/ FsRemove(top.path)
    BY <1>4 DEF DeleteRecursive, kernelVars
  <2> QED BY <2>4, <2>5
<1> QED BY <1>2, <1>3, <1>4

\* "Don't delete the actual files unless the database deletion is allowed": a
\* DeleteObject takes from the disk what lies at or below the path its handle
\* named, after deleteFile answered OK, and while the handle has no entry.
THEOREM DeleteOnlyAllowedHolds == Spec => DeleteOnlyAllowed
<1> DEFINE Inv == ServerTypeInv /\ HandlesFreshInv /\ DeleteInv
           Only ==
             sv.pc \in {"handle", "delete_path", "delete_tree"} /\
             sv.req.op = "DeleteObject" /\ sv # sv' =>
               /\ DOMAIN fs' \subseteq DOMAIN fs
               /\ \A p \in DOMAIN fs \ DOMAIN fs' :
                    /\ sv.result = "OK" /\ IsPrefix(sv.path, p)
                    /\ sv.req.handle \notin DOMAIN db' \/ "counter" \in ub
<1>1. Init => Inv
  <2> SUFFICES ASSUME Init PROVE Inv
    OBVIOUS
  <2>1. sv.pc = "boot"
    BY DEF Init
  <2>2. DatabaseInit /\ ServerTypeInv /\ HandlesFreshInv
    BY ServerTypeInit, FreshInit DEF Init
  <2>3. DOMAIN db = {}
    BY <2>2 DEF DatabaseInit, DbInit, EmptyMap
  <2> QED BY <2>1, <2>2, <2>3 DEF DeleteInv, EntriesIssued, DeletionAllowed,
                                  FramesBelow, Deleting
<1>2. Inv /\ [Next]_vars => Inv'
  BY ServerTypeStep, ComposedFreshStep, DeleteInvStep
<1>3. Inv /\ [Next]_vars => [Only]_vars
  <2> SUFFICES ASSUME Inv, Step, sv # sv', sv.req.op = "DeleteObject",
                      sv.pc \in {"handle", "delete_path", "delete_tree"}
               PROVE  /\ DOMAIN fs' \subseteq DOMAIN fs
                      /\ \A p \in DOMAIN fs \ DOMAIN fs' :
                           /\ sv.result = "OK" /\ IsPrefix(sv.path, p)
                           /\ sv.req.handle \notin DOMAIN db'
                              \/ "counter" \in ub
    BY DEF Next
  <2>1. DeleteStep
    BY DeletionGoesOn
  <2>2. CASE UNCHANGED fs
    BY <2>2
  <2>3. CASE /\ Deleting /\ UNCHANGED dbVars
             /\ \E p : IsPrefix(sv.path, p) /\ DOMAIN fs' = DOMAIN fs \ {p}
    <3>1. sv.result = "OK" /\ ("counter" \notin ub =>
                                 sv.req.handle \notin DOMAIN db)
      BY <2>3 DEF DeleteInv, DeletionAllowed
    <3> QED BY <2>3, <3>1 DEF dbVars
  <2> QED BY <2>1, <2>2, <2>3, DeletionRemoves
<1> HIDE DEF Inv
<1> QED BY <1>1, <1>2, <1>3, PTL DEF Spec, DeleteOnlyAllowed

-----------------------------------------------------------------------------
(* A host that reads, and edits in place.                                  *)

\* The operations that make, remove, move or rename objects.
Rearranging ==
  {"SendObjectInfo", "SendObject", "DeleteObject", "MoveObject",
   "SetObjectPropValue"}

\* The host asks for none of them, no card is inserted, and nobody touches the
\* tree while the root is scanned.
EditingHost == HostOps \cap Rearranging = {} /\ ~CardMoves /\ LocalOnly

\* The server is at the loop or in a handler of one step, and the scan of the
\* root is over when it starts.
OnlyEdits ==
  /\ sv.pc \in {"boot", "loop", "handle", "reply", "closing", "closed"}
  /\ sv.req.op \notin Rearranging
  /\ inbox # <<>> => Head(inbox).req.op \notin Rearranging
  /\ card = "out"
  /\ sv.pc # "boot" => Idle("daemon")

\* An open edit has the path its object has, if the object still has an entry.
EditsOfObjects ==
  \A i \in DOMAIN mObjectEditList :
    LET e == mObjectEditList[i] IN
    /\ e.handle \in issued
    /\ ub = {} /\ e.handle \in DOMAIN db => db[e.handle].path = e.path

EditingInv == ServerTypeInv /\ LocalInv /\ OnlyEdits /\ EditsOfObjects

LEMMA OnlyEditing ==
  ASSUME EditingHost, OnlyEdits
  PROVE  ~SendStep /\ ~DeleteStep /\ ~MoveStep /\ ~StorageStep
<1>1. /\ \A op \in Rearranging : ~Handling(op)
      /\ \A pc \in {"begin", "receive", "unlink", "end_send", "delete_path",
                    "delete_tree", "set_path"} : ~At(pc)
  BY DEF OnlyEdits, Handling, At
<1>2. ~SendStep
  BY <1>1 DEF SendStep, doSendObjectInfo, BeginStep, FinishObjectInfo,
     doSendObjectRefused, doSendObject, ReceiveFile, UnlinkPartial,
     FinishSendObject, Rearranging
<1>3. ~DeleteStep /\ ~MoveStep
  BY <1>1 DEF DeleteStep, doDeleteObject, DeletePath, DeleteRecursive, MoveStep,
     doMoveObject, doSetObjectPropValue, FinishRename, Rearranging
<1>4. ~StorageStep
  BY DEF EditingHost, OnlyEdits, StorageStep, InsertCard, AddStorage, CardStep,
         RemoveStorageFromServer, RemoveStorageFromDatabase
<1> QED BY <1>2, <1>3, <1>4

\* What such a step is: for the database nothing at all; ...
DatabaseRests ==
  /\ UNCHANGED <<fs, watch, queue, nextIno, nextWd>>
  /\ UNCHANGED <<db, task, issued, ub>> /\ (alive' => alive)
\* ... what a step of the database alone may be; ...
DatabaseGoesOn ==
  /\ DatabaseNext /\ UNCHANGED <<sv, inbox, card, mObjectEditList>>
  /\ \/ InotifyHandler
     \/ \E t \in Scanners : AddEntryStep(t)
     \/ UNCHANGED dbVars
\* ... a write through a descriptor; ...
FileWritten ==
  /\ sv.pc = "handle" /\ UNCHANGED dbVars
  /\ \E ino, z : WriteInode(ino, z)
\* ... or the new size of an object whose edit ends.
EditCommitted ==
  /\ UNCHANGED <<fs, watch, queue, nextIno, nextWd>>
  /\ UNCHANGED <<task, issued, ub, alive>>
  /\ \E i \in 1 .. Len(mObjectEditList) :
       LET e == mObjectEditList[i]
       IN  EndSendObject(e.path, e.handle, e.format, TRUE)

LEMMA EditingSteps ==
  ASSUME EditingHost, ServerTypeInv, OnlyEdits, alive, Step
  PROVE  DatabaseRests \/ DatabaseGoesOn \/ FileWritten \/ EditCommitted
<1>0. EditsTyped /\ DOMAIN mObjectEditList = 1 .. Len(mObjectEditList)
  BY LenProperties DEF ServerTypeInv, ServerTyped, EditsTyped
<1>1. CASE UNCHANGED databaseVars
  BY <1>1 DEF DatabaseRests, databaseVars, fsVars, dbVars
<1>2. CASE Notifier
  <2>1. /\ InotifyHandler \/ AddEntryStep("notifier")
        /\ UNCHANGED <<locals, sv, inbox, card, mObjectEditList>>
    BY <1>2 DEF Notifier, srvVars, envVars
  <2>2. DatabaseNext
    BY <2>1 DEF DatabaseNext, DbStep
  <2> QED BY <2>1, <2>2 DEF DatabaseGoesOn, Scanners
<1>3. CASE Daemon
  <2>1. /\ AddEntryStep("daemon")
        /\ UNCHANGED <<locals, sv, inbox, card, mObjectEditList>>
    BY <1>3, OnlyEditing DEF Daemon, srvVars, envVars
  <2>2. DatabaseNext
    BY <2>1 DEF DatabaseNext, DbStep
  <2> QED BY <2>1, <2>2 DEF DatabaseGoesOn, Scanners
<1>4. CASE LocalProcess
  <2>1. Local /\ UNCHANGED dbVars
        /\ UNCHANGED <<sv, inbox, card, mObjectEditList>>
    BY <1>4 DEF LocalProcess, Local, srvVars, envVars
  <2>2. DatabaseNext
    BY <2>1 DEF DatabaseNext
  <2> QED BY <2>1, <2>2 DEF DatabaseGoesOn
<1>5. CASE HostRequest \/ Unplug \/ Run \/ ReadRequest \/ CancelData
           \/ WriteResponse \/ doPlain \/ doStorageQuery \/ doGetObjectInfo
           \/ doGetObject \/ doBeginEditObject \/ doSendPartialObjectRefused
  <2>1. UNCHANGED databaseVars
    BY <1>5 DEF HostRequest, Unplug, Run, ReadRequest, CancelData,
       WriteResponse, doPlain, doStorageQuery, doGetObjectInfo, doGetObject,
       doBeginEditObject, doSendPartialObjectRefused, OnlyAnswer
  <2> QED BY <1>1, <2>1
<1>6. CASE doGetThumb \/ doGetObjectReferences \/ doOpenSession
           \/ doCloseSession
  <2>1. /\ UNCHANGED <<fs, watch, queue, nextIno, nextWd>>
        /\ UNCHANGED <<db, task, issued, ub>>
    BY <1>6 DEF doGetThumb, doGetObjectReferences, doOpenSession,
                doCloseSession, OnlyAnswer, databaseVars, fsVars, dbVars
  <2> QED BY <2>1 DEF DatabaseRests
<1>7. CASE Finish
  <2>1. /\ UNCHANGED <<fs, watch, queue, nextIno, nextWd>>
        /\ UNCHANGED <<task, issued, ub, alive>>
    BY <1>7 DEF Finish, fsVars
  <2>2. CASE mObjectEditList # <<>>
    <3> DEFINE e == Head(mObjectEditList)
    <3>1. EndSendObject(e.path, e.handle, e.format, TRUE)
      BY <1>7, <2>2 DEF Finish
    <3>2. 1 \in 1 .. Len(mObjectEditList) /\ mObjectEditList[1] = e
      BY <1>0, <2>2, HeadTailProperties, EmptySeq, LenProperties DEF EditsTyped
    <3> HIDE DEF e
    <3> QED BY <2>1, <3>1, <3>2 DEF EditCommitted
  <2>3. CASE mObjectEditList = <<>>
    <3>1. UNCHANGED db
      BY <1>7, <2>3 DEF Finish
    <3> QED BY <2>1, <3>1 DEF DatabaseRests
  <2> QED BY <2>2, <2>3
<1>8. CASE doSendPartialObject
  <2>1. sv.pc = "handle" /\ UNCHANGED dbVars /\ \E ino, z : WriteInode(ino, z)
    BY <1>8 DEF doSendPartialObject, Handling, At
  <2> QED BY <2>1 DEF FileWritten
<1>9. CASE doTruncateObject
  <2>1. /\ sv.pc = "handle" /\ UNCHANGED dbVars
        /\ (\E ino, z : WriteInode(ino, z)) \/ UNCHANGED kernelVars
    BY <1>9 DEF doTruncateObject, Handling, At
  <2> QED BY <2>1 DEF FileWritten, DatabaseRests, kernelVars, dbVars
<1>10. CASE doEndEditObject
  <2>1. /\ UNCHANGED <<fs, watch, queue, nextIno, nextWd>>
        /\ UNCHANGED <<task, issued, ub, alive>>
    BY <1>10 DEF doEndEditObject, fsVars
  <2>2. CASE HasEdit(sv.req.handle)
    <3> DEFINE i == EditIndex(sv.req.handle)
               e == mObjectEditList[i]
    <3>1. EndSendObject(e.path, e.handle, e.format, TRUE)
      BY <1>10, <2>2 DEF doEndEditObject
    <3>2. i \in 1 .. Len(mObjectEditList)
      BY <1>0, <2>2, EditFound
    <3> HIDE DEF i
    <3> QED BY <2>1, <3>1, <3>2 DEF EditCommitted
  <2>3. CASE ~HasEdit(sv.req.handle)
    <3>1. UNCHANGED db
      BY <1>10, <2>3 DEF doEndEditObject
    <3> QED BY <2>1, <3>1 DEF DatabaseRests
  <2> QED BY <2>2, <2>3
<1> QED BY <1>2, <1>3, <1>4, <1>5, <1>6, <1>7, <1>8, <1>9, <1>10, OnlyEditing
    DEF Step, ServerStep, EditStep

-----------------------------------------------------------------------------
(* Where the server and its edits are, along such a host's steps.          *)

\* A container the pipe begins with asks for no rearrangement.
LEMMA AskedForEdits ==
  ASSUME EditingHost, NEW r \in Requests
  PROVE  Head(Containers(r)).req.op \notin Rearranging
<1>1. Head(Containers(r)) = Container("COMMAND", r)
  BY DEF Containers
<1>2. Head(Containers(r)).req = r
  BY <1>1 DEF Container
<1> QED BY <1>2, RequestsTyped DEF EditingHost

LEMMA PipeForEdits ==
  ASSUME EditingHost, ServerTypeInv, OnlyEdits, Step, inbox' # <<>>
  PROVE  Head(inbox').req.op \notin Rearranging
<1>0. InboxTyped
  BY DEF ServerTypeInv, ServerTyped
<1>1. CASE inbox' = inbox
  BY <1>1 DEF OnlyEdits
<1>2. CASE ReadRequest \/ CancelData
  <2>1. inbox # <<>>
    BY <1>2 DEF ReadRequest, CancelData
  <2>4. PICK r : r = Head(inbox).req
    OBVIOUS
  <2>2. CASE r.op \in DataIn
    <3>1. inbox' = Tail(Tail(inbox))
      BY <1>2, <2>2, <2>4 DEF ReadRequest, CancelData
    <3>2. Tail(Tail(inbox)) = <<>>
      BY <1>0, <2>1, <2>2, <2>4, InboxRead DEF DataIn, HandlerData
    <3> QED BY <3>1, <3>2
  <2>3. CASE r.op \notin DataIn
    <3>1. inbox' = Tail(inbox)
      BY <1>2, <2>3, <2>4 DEF ReadRequest, CancelData
    <3>2. Tail(inbox) = <<Container("DATA", r)>>
      BY <1>0, <2>1, <2>3, <2>4, <3>1, InboxLeft
    <3>3. PICK c : c = Container("DATA", r)
      OBVIOUS
    <3>4. inbox' = <<c>> /\ c.req = r
      BY <3>1, <3>2, <3>3 DEF Container
    <3>5. Head(inbox').req = r
      BY <3>4
    <3> QED BY <2>1, <2>4, <3>5 DEF OnlyEdits
  <2> QED BY <2>2, <2>3
<1>3. CASE HostRequest
  <2>1. PICK r \in Requests : inbox' = Containers(r)
    BY <1>3 DEF HostRequest
  <2> QED BY <2>1, AskedForEdits
<1>4. CASE sv.pc \notin {"loop", "closing", "closed"}
  BY <1>1, <1>4, PipeServed
<1>5. CASE Notifier \/ Daemon \/ LocalProcess \/ Unplug \/ Finish
  <2>1. inbox' = inbox
    BY <1>5 DEF Notifier, Daemon, StorageStep, InsertCard, AddStorage,
       RemoveStorageFromServer, RemoveStorageFromDatabase, LocalProcess,
       Unplug, Finish, envVars
  <2> QED BY <1>1, <2>1
<1>6. CASE /\ Step /\ sv.pc \in {"loop", "closing", "closed"}
           /\ ~(Notifier \/ Daemon \/ LocalProcess \/ Unplug \/ Finish
                \/ HostRequest \/ ReadRequest \/ CancelData)
  <2>1. \A pc \in {"boot", "handle", "reply"} : ~At(pc)
    BY <1>6 DEF At
  <2> QED BY <1>6, <2>1, OnlyEditing DEF Step, ServerStep, EditStep, Run,
     WriteResponse, doPlain, doStorageQuery, doGetObjectInfo, doGetObject,
     doGetThumb, doGetObjectReferences, doOpenSession, doCloseSession,
     doBeginEditObject, doSendPartialObjectRefused, doSendPartialObject,
     doTruncateObject, doEndEditObject, Handling
<1> QED BY <1>2, <1>3, <1>4, <1>5, <1>6

\* The daemon stays idle once it is.
LEMMA DaemonRests ==
  ASSUME EditingHost, ServerTypeInv, OnlyEdits, alive, Step, Idle("daemon")
  PROVE  Idle("daemon")'
<1>0. DOMAIN task = Threads /\ "daemon" \in Threads
  BY DEF ServerTypeInv, TypeInv, TasksTyped, Threads
<1>1. CASE UNCHANGED task
  BY <1>1 DEF Idle
<1>2. CASE InotifyHandler
  <2>1. task' = task \/ \E c : task' = [task EXCEPT !["notifier"].pc = "entry",
                                                    !["notifier"].todo = c]
    BY <1>2, InotifyDomain
  <2> QED BY <1>0, <2>1 DEF Idle
<1>3. ASSUME NEW t \in Scanners, AddEntryStep(t)
      PROVE  Idle("daemon")'
  <2>1. ~Idle(t) /\ OthersStay(t) /\ t \in Threads
    BY <1>3, AddEntryFrame DEF Scanners, Threads, ServerTypeInv
  <2> QED BY <2>1 DEF OthersStay, Idle, Threads
<1>4. CASE UNCHANGED dbVars
  BY <1>1, <1>4 DEF dbVars
<1> QED BY <1>1, <1>2, <1>3, <1>4, EditingSteps
    DEF DatabaseRests, DatabaseGoesOn, FileWritten, EditCommitted

LEMMA OnlyEditsStep ==
  ASSUME EditingHost, ServerTypeInv, OnlyEdits, alive, Step
  PROVE  OnlyEdits'
<1>0. sv \in SvRecs
  BY DEF ServerTypeInv, ServerTyped, SvTyped
<1>1. card' = "out"
  <2>1. CASE Notifier \/ Daemon \/ LocalProcess \/ HostRequest \/ Unplug
    BY <2>1, OnlyEditing DEF Notifier, Daemon, LocalProcess, HostRequest,
       Unplug, envVars, OnlyEdits
  <2>2. CASE ServerStep
    <3>1. card' = card
      BY <2>2, OnlyEditing DEF ServerStep, Run, ReadRequest, CancelData,
         WriteResponse, Finish, doPlain, doStorageQuery, doGetObjectInfo,
         doGetObject, doGetThumb, doGetObjectReferences, doOpenSession,
         doCloseSession, EditStep, doBeginEditObject,
         doSendPartialObjectRefused, doSendPartialObject, doTruncateObject,
         doEndEditObject, OnlyAnswer, envVars
    <3> QED BY <3>1 DEF OnlyEdits
  <2> QED BY <2>1, <2>2 DEF Step
<1> DEFINE Pcs == {"boot", "loop", "handle", "reply", "closing", "closed"}
<1>2. /\ sv'.pc \in Pcs /\ sv'.req.op \notin Rearranging
      /\ sv'.pc # "boot" => sv.pc # "boot" \/ Run
  <2>0. sv.pc \in Pcs /\ sv.req.op \notin Rearranging
    BY DEF OnlyEdits
  <2>1. CASE sv' = sv
    BY <2>0, <2>1
  <2>2. CASE Run \/ WriteResponse \/ Unplug
    <3>1. /\ Goto("loop") \/ Goto("closing")
          /\ sv.pc # "boot" \/ Run
      BY <2>2 DEF Run, WriteResponse, Unplug, At
    <3> QED BY <1>0, <2>0, <3>1 DEF Goto, SvRecs
  <2>3. CASE Finish
    <3>1. (sv' = sv \/ Goto("closed")) /\ sv.pc # "boot"
      BY <2>3 DEF Finish, At
    <3> QED BY <1>0, <2>0, <3>1 DEF Goto, SvRecs
  <2>4. CASE ReadRequest
    <3>1. /\ sv.pc # "boot" /\ inbox # <<>> /\ sv'.pc = "handle"
          /\ sv'.req = Head(inbox).req
      BY <1>0, <2>4 DEF ReadRequest, At, SvRecs
    <3> QED BY <3>1 DEF OnlyEdits
  <2>5. CASE Notifier \/ Daemon \/ LocalProcess \/ HostRequest \/ CancelData
    <3>1. sv' = sv
      BY <2>5, OnlyEditing DEF Notifier, Daemon, LocalProcess, HostRequest,
         CancelData, srvVars
    <3> QED BY <2>1, <3>1
  <2>6. CASE doPlain \/ doStorageQuery \/ doGetObjectInfo \/ doGetObject
             \/ doSendPartialObjectRefused \/ doGetThumb
             \/ doGetObjectReferences
    <3>1. sv' = sv \/ (At("handle") /\ \E code : Reply(code))
      BY <2>6 DEF doPlain, doStorageQuery, doGetObjectInfo, doGetObject,
         doSendPartialObjectRefused, doGetThumb, doGetObjectReferences,
         OnlyAnswer, srvVars, Handling
    <3> QED BY <1>0, <2>0, <3>1 DEF Reply, SvRecs, At
  <2>7. CASE doOpenSession \/ doCloseSession \/ doTruncateObject
             \/ doBeginEditObject \/ doEndEditObject
    <3>1. At("handle") /\ \E code : Reply(code)
      BY <2>7 DEF doOpenSession, doCloseSession, doTruncateObject,
                  doBeginEditObject, doEndEditObject, Handling
    <3> QED BY <1>0, <2>0, <3>1 DEF Reply, SvRecs, At
  <2>8. CASE doSendPartialObject
    <3>1. /\ At("handle")
          /\ \E code, d : sv' = [sv EXCEPT !.pc = "reply", !.result = code,
                                           !.hasData = d]
      BY <2>8 DEF doSendPartialObject, Handling
    <3> QED BY <1>0, <2>0, <3>1 DEF SvRecs, At
  <2> QED BY <2>2, <2>3, <2>4, <2>5, <2>6, <2>7, <2>8, OnlyEditing
      DEF Step, ServerStep, EditStep
<1>3. sv'.pc # "boot" => Idle("daemon")'
  <2>1. sv'.pc # "boot" => Idle("daemon")
    BY <1>2 DEF OnlyEdits, Run
  <2> QED BY <2>1, DaemonRests
<1>4. inbox' # <<>> => Head(inbox').req.op \notin Rearranging
  BY PipeForEdits
<1> QED BY <1>1, <1>2, <1>3, <1>4 DEF OnlyEdits

\* Every open edit was open before, on the same object and path, or was just
\* opened on one the database has.
LEMMA EditsComeFrom ==
  ASSUME EditsTyped, EditsChange, NEW i \in DOMAIN mObjectEditList'
  PROVE  \/ \E j \in DOMAIN mObjectEditList :
              /\ mObjectEditList'[i].handle = mObjectEditList[j].handle
              /\ mObjectEditList'[i].path = mObjectEditList[j].path
         \/ /\ UNCHANGED databaseVars
            /\ mObjectEditList'[i].handle \in DOMAIN db
            /\ mObjectEditList'[i].path
                 = db[mObjectEditList'[i].handle].path
<1> DEFINE list == mObjectEditList
<1>0. /\ list \in Seq(EditRecs) /\ DOMAIN list = 1 .. Len(list)
      /\ Len(list) \in Nat
  BY LenProperties DEF EditsTyped
<1>1. CASE list' = list
  BY <1>1
<1>2. CASE list # <<>> /\ list' = Tail(list)
  <2>1. /\ list' \in Seq(EditRecs) /\ Len(list') = Len(list) - 1
        /\ \A k \in 1 .. Len(list') : list'[k] = list[k + 1]
    BY <1>0, <1>2, HeadTailProperties
  <2>2. DOMAIN list' = 1 .. Len(list')
    BY <2>1, LenProperties
  <2>3. i \in 1 .. Len(list) - 1
    BY <2>1, <2>2
  <2>4. i + 1 \in DOMAIN list
    BY <1>0, <2>3
  <2>5. list'[i] = list[i + 1]
    BY <2>1, <2>2
  <2> QED BY <2>4, <2>5
<1>3. CASE \E e \in EditRecs :
             /\ ~HasEdit(e.handle) /\ list' = Append(list, e)
             /\ e.handle \in DOMAIN db /\ e.path = db[e.handle].path
             /\ UNCHANGED databaseVars
  <2>1. PICK e \in EditRecs :
               /\ list' = Append(list, e)
               /\ e.handle \in DOMAIN db /\ e.path = db[e.handle].path
               /\ UNCHANGED databaseVars
    BY <1>3
  <2>2. /\ list' \in Seq(EditRecs) /\ Len(list') = Len(list) + 1
        /\ \A k \in 1 .. Len(list) : list'[k] = list[k]
        /\ list'[Len(list) + 1] = e
    BY <1>0, <2>1, AppendProperties
  <2>3. DOMAIN list' = 1 .. Len(list) + 1
    BY <2>2, LenProperties
  <2>4. i \in 1 .. Len(list) \/ i = Len(list) + 1
    BY <1>0, <2>3
  <2>5. CASE i \in 1 .. Len(list)
    BY <1>0, <2>2, <2>5
  <2>6. CASE i = Len(list) + 1
    <3>1. list'[i] = e
      BY <2>2, <2>6
    <3> QED BY <2>1, <3>1
  <2> QED BY <2>4, <2>5, <2>6
<1>4. CASE \E k \in 1 .. Len(list), e \in EditRecs :
             /\ e.handle = list[k].handle /\ e.path = list[k].path
             /\ list' = [list EXCEPT ![k] = e]
  <2>1. PICK k \in 1 .. Len(list), e \in EditRecs :
               /\ e.handle = list[k].handle /\ e.path = list[k].path
               /\ list' = [list EXCEPT ![k] = e]
    BY <1>4
  <2>2. DOMAIN list' = DOMAIN list
    BY <1>0, <2>1
  <2>3. list'[i] = IF i = k THEN e ELSE list[i]
    BY <1>0, <2>1, <2>2
  <2> QED BY <2>1, <2>2, <2>3
<1>5. CASE \E k \in 1 .. Len(list) : list' = RemoveAt(list, k)
  <2>1. PICK k \in 1 .. Len(list) : list' = RemoveAt(list, k)
    BY <1>5
  <2>2. /\ list' \in Seq(EditRecs) /\ Len(list') = Len(list) - 1
        /\ \A j \in 1 .. Len(list) - 1 :
             list'[j] = IF j < k THEN list[j] ELSE list[j + 1]
    BY <1>0, <2>1, RemoveAtElements
  <2>3. i \in 1 .. Len(list) - 1
    BY <2>2, LenProperties
  <2>4. i \in DOMAIN list /\ i + 1 \in DOMAIN list
    BY <1>0, <2>3
  <2>5. list'[i] = IF i < k THEN list[i] ELSE list[i + 1]
    BY <2>2, <2>3
  <2> QED BY <2>4, <2>5
<1> QED BY <1>1, <1>2, <1>3, <1>4, <1>5 DEF EditsChange

-----------------------------------------------------------------------------
(* The agreement of database and tree, along such a host's steps.          *)

\* A write through a descriptor is reported like any other.
LEMMA WrittenSync ==
  ASSUME LocalInv, OnlyEdits, FileWritten, TypeInv', HandlesFreshInv'
  PROVE  LocalInv'
<1>1. PICK ino, z : WriteInode(ino, z)
  BY DEF FileWritten
<1>2. UNCHANGED <<db, task, issued, ub, alive>>
  BY DEF FileWritten, dbVars
<1>3. CASE \E p \in DOMAIN fs : fs[p].ino = ino
  <2>1. PICK p \in DOMAIN fs : FsResize(p, z)
    <3>1. (CHOOSE p \in DOMAIN fs : fs[p].ino = ino) \in DOMAIN fs
      BY <1>3
    <3> QED BY <1>1, <1>3, <3>1 DEF WriteInode
  <2>2. KernelTold' /\ InosTyped'
    BY <2>1, ResizeTold DEF LocalInv, TypeInv
  <2>3. EntriesIssued' /\ OneScan'
    BY <1>2 DEF LocalInv, EntriesIssued, OneScan, OnlyEdits, FileWritten, Idle
  <2>4. PathsInv'
    BY <1>2 DEF LocalInv, PathsInv, EntriesOK, EntryOK, CallsNew, TodoNew,
       CurNew, Listed, Pending, Idle
  <2>5. SyncInv'
    <3> SUFFICES ASSUME ub = {}, alive PROVE SyncNow'
      BY <1>2 DEF SyncInv
    <3>1. TypeInv /\ KernelTold /\ EntriesOK /\ CallsNew /\ SyncNow
      BY DEF LocalInv, PathsInv, SyncInv
    <3> QED BY <1>2, <2>1, <3>1, TreeResizeSync
  <2> QED BY <2>2, <2>3, <2>4, <2>5 DEF LocalInv
<1>4. CASE ~\E p \in DOMAIN fs : fs[p].ino = ino
  <2>1. UNCHANGED <<fs, watch, queue, nextIno, nextWd>>
    BY <1>1, <1>4 DEF WriteInode, kernelVars
  <2> QED BY <1>2, <2>1, LocalInvSame
<1> QED BY <1>3, <1>4

\* An object takes the size of the file at its path.
LEMMA ResizedSync ==
  ASSUME LocalInv, TypeInv', HandlesFreshInv',
         UNCHANGED <<fs, watch, queue, nextIno, nextWd>>,
         UNCHANGED <<task, issued, ub, alive>>,
         NEW k \in DOMAIN db, ub = {} => IsFile(db[k].path),
         ub = {} => db'[k].object_size = fs[db[k].path].size,
         DOMAIN db' = DOMAIN db,
         \A g \in DOMAIN db :
           /\ db'[g].path = db[g].path /\ db'[g].parent = db[g].parent
           /\ db'[g].watched = db[g].watched
           /\ db'[g].watch_fd = db[g].watch_fd
           /\ db'[g].storage_id = db[g].storage_id
           /\ db'[g].object_format = db[g].object_format
           /\ g # k => db'[g].object_size = db[g].object_size
  PROVE  LocalInv'
<1>1. KernelTold' /\ InosTyped' /\ EntriesIssued' /\ OneScan'
  BY DEF LocalInv, KernelTold, InosTyped, InosApart, WatchesApart,
         QueueBelow, EventsOrdered, Recreated, WatchersOf, EntriesIssued,
         OneScan, Idle
<1>2. ASSUME NEW c, Placed(db, c)
      PROVE  Placed(db', c)
  BY <1>2 DEF Placed
<1>3. PathsInv'
  <2> SUFFICES ASSUME ub = {} PROVE EntriesOK' /\ CallsNew'
    BY DEF PathsInv
  <2>1. EntriesOK /\ CallsNew
    BY DEF LocalInv, PathsInv
  <2>2. EntriesOK'
    <3>1. ASSUME NEW g \in DOMAIN db PROVE EntryOK(g)'
      <4>1. EntryOK(g)
        BY <2>1 DEF EntriesOK
      <4>2. Placed(db', db[g])
        BY <1>2, <4>1 DEF EntryOK
      <4>3. Placed(db', db'[g])
        BY <4>2 DEF Placed
      <4> QED BY <4>1, <4>3 DEF EntryOK
    <3> QED BY <2>1, <3>1 DEF EntriesOK
  <2>3. \A c : CallOK(db, c) => CallOK(db', c)
    BY <1>2 DEF CallOK
  <2>4. \A c : New(db, c) => New(db', c)
    BY <2>3 DEF New
  <2>5. ASSUME NEW t \in Scanners, ~Idle(t)
        PROVE  (TodoNew(t) /\ CurNew(t) /\ Listed(t))'
    <3>1. TodoNew(t) /\ CurNew(t) /\ Listed(t)
      BY <2>1, <2>5 DEF CallsNew
    <3>2. TodoNew(t)' /\ CurNew(t)'
      BY <2>4, <3>1 DEF TodoNew, CurNew, Pending
    <3>3. Listed(t)'
      BY <2>3, <3>1 DEF Listed, Outside
    <3> QED BY <3>2, <3>3
  <2>6. CallsNew'
    BY <2>5 DEF CallsNew, Idle
  <2> QED BY <2>2, <2>6
<1>4. SyncInv'
  <2> SUFFICES ASSUME ub = {}, alive PROVE SyncNow'
    BY DEF SyncInv
  <2>1. EntriesOK /\ CallsNew /\ SyncNow
    BY DEF LocalInv, PathsInv, SyncInv
  <2>2. \A g \in DOMAIN db : Watching(g)' = Watching(g)
    BY DEF Watching
  <2>3. WatchesTrue'
    BY <2>1 DEF SyncNow, WatchesTrue, WatchOf
  <2>4. ASSUME NEW c, NEW m, c.parent \in DOMAIN db, Pends(m, c)
        PROVE  Pends(m, c)'
    BY <2>4 DEF Pends
  <2>5. ASSUME NEW c, Placed(db, c), Excused(c)
        PROVE  Excused(c)'
    BY <2>2, <2>4, <2>5 DEF Excused, Placed
  <2>6. EntriesSound'
    <3> SUFFICES ASSUME NEW g \in DOMAIN db PROVE Sound(g)'
      BY DEF EntriesSound
    <3>1. Sound(g) /\ Placed(db, db[g]) /\ EntryOK(g)
      BY <2>1 DEF SyncNow, EntriesSound, EntriesOK, EntryOK
    <3>2. CASE Excused(db[g])
      <4>1. db[g].path # Home /\ db[g].parent \in DOMAIN db
        BY <3>1, <3>2 DEF Excused, Placed
      <4>2. (\E i \in DOMAIN queue : queue[i]
               = EventOf(db[db[g].parent].watch_fd, "IN_DELETE", db[g].path))
            \/ ~Watching(db[g].parent)
        BY <3>2 DEF Excused, Pends
      <4>3. db'[db'[g].parent].watch_fd = db[db[g].parent].watch_fd
            /\ db'[g].path = db[g].path
        BY <4>1
      <4>4. Excused(db[g])'
        BY <2>2, <4>1, <4>2, <4>3 DEF Excused, Pends, Watching
      <4> QED BY <4>4 DEF Sound
    <3>3. CASE db[g].watched /\ TrueDir(db[g].path, db[g].watch_fd)
      BY <3>3 DEF Sound, TrueDir, IsDirectory
    <3>4. CASE ~db[g].watched /\ TrueFile(db[g], db[g].object_size)
      <4>1. CASE g = k
        BY <3>4, <4>1 DEF Sound, TrueFile, IsFile
      <4>2. CASE g # k
        <5>1. db[g].path # Home /\ db[g].parent \in DOMAIN db
          BY <3>1, <3>4 DEF EntryOK, Placed
        <5>2. db'[db'[g].parent].watch_fd = db[db[g].parent].watch_fd
              /\ db'[g].path = db[g].path
              /\ db'[g].object_size = db[g].object_size
          BY <4>2, <5>1
        <5>3. TrueFile(db[g], db[g].object_size)'
          BY <3>4, <5>2 DEF TrueFile, Pends, IsFile
        <5> QED BY <3>4, <5>3 DEF Sound
      <4> QED BY <4>1, <4>2
    <3> QED BY <3>1, <3>2, <3>3, <3>4 DEF Sound
  <2>7. CallsSound'
    <3> SUFFICES ASSUME NEW t \in Scanners PROVE CurSound(t)'
      BY DEF CallsSound
    <3> DEFINE c == task[t].cur
    <3>1. CurSound(t)
      BY <2>1 DEF SyncNow, CallsSound
    <3>2. CASE task[t].pc \notin {"watch", "insert_dir", "stat", "insert_file"}
      BY <3>2 DEF CurSound
    <3>3. CASE task[t].pc \in {"watch", "insert_dir", "stat", "insert_file"}
      <4>1. Placed(db, c)
        BY <2>1, <3>3 DEF CallsNew, CurNew, Pending, Idle, New, CallOK
      <4>2. Excused(c) => Excused(c)'
        BY <2>5, <4>1
      <4>3. c.path # Home => c.parent \in DOMAIN db
        BY <4>1 DEF Placed
      <4>4. task[t].pc \in {"stat", "insert_file"} => c.path # Home
        BY <2>1, <3>3 DEF CallsNew, CurNew, Idle
      <4>5. /\ c.path # Home => Watching(c.parent)' = Watching(c.parent)
            /\ \A m : c.path # Home /\ Pends(m, c) => Pends(m, c)'
        BY <2>2, <2>4, <4>3
      <4> HIDE DEF c
      <4>6. CASE task[t].pc = "watch"
        BY <3>1, <4>2, <4>6 DEF CurSound, IsDirectory, c
      <4>7. CASE task[t].pc = "insert_dir"
        BY <3>1, <4>2, <4>7 DEF CurSound, TrueDir, WatchOf, IsDirectory, c
      <4>8. CASE task[t].pc = "stat"
        BY <3>1, <4>4, <4>5, <4>8 DEF CurSound, IsDirectory, c
      <4>9. CASE task[t].pc = "insert_file"
        BY <3>1, <4>2, <4>4, <4>5, <4>9 DEF CurSound, TrueFile, IsFile, c
      <4> QED BY <3>3, <4>6, <4>7, <4>8, <4>9
    <3> QED BY <3>2, <3>3
  <2>8. AllNoticed'
    <3> SUFFICES ASSUME NEW p \in DOMAIN fs, NEW d \in DOMAIN db, InDir(p, d)'
                 PROVE  Noticed(p, d)'
      BY DEF AllNoticed
    <3>1. Noticed(p, d)
      BY <2>1 DEF SyncNow, AllNoticed, InDir, Watching, Skipped
    <3>2. Known(p) => Known(p)'
      BY DEF Known
    <3>3. Told(p, d) => Told(p, d)'
      BY DEF Told
    <3> QED BY <3>1, <3>2, <3>3 DEF Noticed, OnTheWay, Pending, Idle
  <2> QED BY <2>3, <2>6, <2>7, <2>8 DEF SyncNow
<1> QED BY <1>1, <1>3, <1>4 DEF LocalInv

\* The end of an edit: endSendObject on the object it was opened on.
LEMMA CommittedSync ==
  ASSUME LocalInv, ServerTypeInv, EditsOfObjects, EditCommitted, TypeInv',
         HandlesFreshInv'
  PROVE  LocalInv'
<1>1. PICK i \in 1 .. Len(mObjectEditList) :
        LET e == mObjectEditList[i]
        IN  EndSendObject(e.path, e.handle, e.format, TRUE)
  BY DEF EditCommitted
<1> DEFINE e == mObjectEditList[i]
<1>2. /\ e.handle \in issued
      /\ ub = {} /\ e.handle \in DOMAIN db => db[e.handle].path = e.path
  <2>1. DOMAIN mObjectEditList = 1 .. Len(mObjectEditList)
    BY LenProperties DEF ServerTypeInv, ServerTyped, EditsTyped
  <2> QED BY <2>1 DEF EditsOfObjects
<1>3. PICK p, h : p = e.path /\ h = e.handle
  OBVIOUS
<1>4. \/ db' = db
      \/ /\ h \in DOMAIN db /\ IsFile(p)
         /\ db' = [db EXCEPT ![h].object_size = fs[p].size]
  BY <1>1, <1>3 DEF EndSendObject
<1>5. /\ UNCHANGED <<fs, watch, queue, nextIno, nextWd>>
      /\ UNCHANGED <<task, issued, ub, alive>>
  BY DEF EditCommitted
<1>6. CASE db' = db
  BY <1>5, <1>6, LocalInvSame
<1>7. CASE /\ h \in DOMAIN db /\ IsFile(p)
           /\ db' = [db EXCEPT ![h].object_size = fs[p].size]
  <2>1. \A g \in DOMAIN db : db[g] \in DbEntry
    BY DEF LocalInv, TypeInv, EntriesTyped
  <2>2. /\ DOMAIN db' = DOMAIN db
        /\ db'[h] = [db[h] EXCEPT !.object_size = fs[p].size]
        /\ \A g \in DOMAIN db : g # h => db'[g] = db[g]
    BY <1>7
  <2>3. /\ db'[h].path = db[h].path /\ db'[h].parent = db[h].parent
        /\ db'[h].watched = db[h].watched
        /\ db'[h].watch_fd = db[h].watch_fd
        /\ db'[h].storage_id = db[h].storage_id
        /\ db'[h].object_format = db[h].object_format
        /\ db'[h].object_size = fs[p].size
    BY <1>7, <2>1, <2>2 DEF DbEntry
  <2>4. \A g \in DOMAIN db :
           /\ db'[g].path = db[g].path /\ db'[g].parent = db[g].parent
           /\ db'[g].watched = db[g].watched
           /\ db'[g].watch_fd = db[g].watch_fd
           /\ db'[g].storage_id = db[g].storage_id
           /\ db'[g].object_format = db[g].object_format
           /\ g # h => db'[g].object_size = db[g].object_size
    BY <2>2, <2>3
  <2>5. ub = {} => db[h].path = p
    BY <1>2, <1>3, <1>7
  <2>6. ub = {} => IsFile(db[h].path)
    BY <1>7, <2>5
  <2>7. ub = {} => db'[h].object_size = fs[db[h].path].size
    BY <2>3, <2>5
  <2> HIDE DEF e
  <2> QED BY <1>5, <1>7, <2>2, <2>4, <2>6, <2>7, ResizedSync
<1> QED BY <1>4, <1>6, <1>7

-----------------------------------------------------------------------------
(* The edits and their objects.                                            *)

\* Steps of such a host give out fresh handles, and an entry keeps its path.
LEMMA EntriesKeepPaths ==
  ASSUME EditingHost, EditingInv, HandlesFreshInv, alive, Step, ub' = {}
  PROVE  \A h \in DOMAIN db' \cap issued :
           h \in DOMAIN db /\ db'[h].path = db[h].path
<1>0. /\ TypeInv /\ OneScan /\ HandlesFreshInv /\ EntriesIssued
      /\ \A g \in DOMAIN db : db[g] \in DbEntry
  BY DEF EditingInv, LocalInv, TypeInv, EntriesTyped
<1>1. CASE UNCHANGED db
  BY <1>1
<1>2. CASE EditCommitted
  <2>1. PICK p, h, f : EndSendObject(p, h, f, TRUE)
    BY <1>2 DEF EditCommitted
  <2>2. \/ db' = db
        \/ h \in DOMAIN db /\ db' = [db EXCEPT ![h].object_size = fs[p].size]
    BY <2>1 DEF EndSendObject
  <2>3. CASE h \in DOMAIN db /\ db' = [db EXCEPT ![h].object_size = fs[p].size]
    <3>1. /\ DOMAIN db' = DOMAIN db
          /\ db'[h] = [db[h] EXCEPT !.object_size = fs[p].size]
          /\ \A g \in DOMAIN db : g # h => db'[g] = db[g]
      BY <2>3
    <3>2. db'[h].path = db[h].path
      BY <1>0, <2>3, <3>1 DEF DbEntry
    <3> QED BY <3>1, <3>2
  <2> QED BY <1>1, <2>2, <2>3
<1>3. ASSUME NEW t \in Scanners, AddEntryStep(t)
      PROVE  \A h \in DOMAIN db' \cap issued :
               h \in DOMAIN db /\ db'[h].path = db[h].path
  <2>1. /\ "counter" \notin ub => (DOMAIN db' \ DOMAIN db) \cap issued = {}
        /\ ub \subseteq ub'
    BY <1>0, <1>3, EntryInserted DEF Scanners, Threads
  <2>2. UNCHANGED db \/ \E k, v : db' = Insert(db, k, v)
    BY <1>3 DEF AddEntryStep, ReadCounter, StoreCounter, WatchDirectory,
       WatchRefused, ListDirectory, ListingRefused, GiveUp, StatFile,
       InsertDirectory, InsertFile
  <2>3. \A h \in DOMAIN db : h \in DOMAIN db' => db'[h] = db[h]
    BY <2>2 DEF Insert
  <2> QED BY <2>1, <2>3
<1>4. CASE InotifyHandler
  <2>1. PICK m : LET p == Append(db[m].path, queue[1].name) IN
                   \/ CreateRead(m, p) \/ ModifyRead(p) \/ ForeignDelete(p)
                   \/ \E h \in DOMAIN db : DeleteRead(h, p)
    BY <1>0, <1>4, InotifyDoes
  <2>2. PICK p : \/ CreateRead(m, p) \/ ModifyRead(p) \/ ForeignDelete(p)
                 \/ \E h \in DOMAIN db : DeleteRead(h, p)
    BY <2>1
  <2>3. CASE CreateRead(m, p) \/ ForeignDelete(p)
    BY <1>1, <2>3 DEF CreateRead, ForeignDelete
  <2>4. CASE ModifyRead(p)
    <3>1. \A h \in DOMAIN db' :
            h \in DOMAIN db /\ db'[h].path = db[h].path
      BY <1>0, <2>4 DEF ModifyRead, DbEntry
    <3> QED BY <3>1
  <2>5. CASE \E h \in DOMAIN db : DeleteRead(h, p)
    BY <2>5 DEF DeleteRead
  <2> QED BY <2>2, <2>3, <2>4, <2>5
<1>5. CASE UNCHANGED dbVars
  BY <1>1, <1>5 DEF dbVars
<1>6. CASE DatabaseRests
  BY <1>1, <1>6 DEF DatabaseRests
<1> QED BY <1>2, <1>3, <1>4, <1>5, <1>6, EditingSteps
    DEF EditingInv, DatabaseGoesOn, FileWritten

LEMMA HandlesStayIssued ==
  ASSUME HandlesFreshInv, Step
  PROVE  issued \subseteq issued' /\ ub \subseteq ub'
<1>1. CASE HandlesKept
  BY <1>1 DEF HandlesKept
<1>2. CASE HandleAdded
  BY <1>2, EntryInserted DEF HandleAdded
<1>3. CASE SendCall
  BY <1>3 DEF SendCall, BeginSendObject, ReserveEntry, FinishBeginSend
<1> QED BY <1>1, <1>2, <1>3, HandlesOfStep DEF HandleReserved

LEMMA EditsOfObjectsStep ==
  ASSUME EditingHost, EditingInv, alive, Step
  PROVE  EditsOfObjects'
<1>0. /\ HandlesFreshInv /\ EditsTyped /\ EditsOfObjects /\ ServerTypeInv
      /\ EntriesIssued
  BY DEF EditingInv, LocalInv, ServerTypeInv, ServerTyped
<1>1. issued \subseteq issued' /\ ub \subseteq ub'
  BY <1>0, HandlesStayIssued
<1> SUFFICES ASSUME NEW i \in DOMAIN mObjectEditList'
             PROVE  LET e == mObjectEditList'[i] IN
                    /\ e.handle \in issued'
                    /\ ub' = {} /\ e.handle \in DOMAIN db' =>
                         db'[e.handle].path = e.path
  BY DEF EditsOfObjects
<1>2. EditsChange
  BY <1>0, EditsChanged
<1>3. PICK h, p : h = mObjectEditList'[i].handle
                  /\ p = mObjectEditList'[i].path
  OBVIOUS
<1>4. \/ \E j \in DOMAIN mObjectEditList :
           h = mObjectEditList[j].handle /\ p = mObjectEditList[j].path
      \/ UNCHANGED databaseVars /\ h \in DOMAIN db /\ p = db[h].path
  BY <1>0, <1>2, <1>3, EditsComeFrom
<1>5. /\ h \in issued
      /\ ub = {} /\ h \in DOMAIN db => db[h].path = p
  BY <1>0, <1>4 DEF EditsOfObjects, EntriesIssued
<1>6. ASSUME ub' = {}, h \in DOMAIN db'
      PROVE  db'[h].path = p
  <2>1. h \in DOMAIN db /\ db'[h].path = db[h].path
    BY <1>0, <1>5, <1>6, EntriesKeepPaths
  <2> QED BY <1>1, <1>5, <1>6, <2>1
<1> QED BY <1>1, <1>3, <1>5, <1>6

-----------------------------------------------------------------------------
(* What such a host is shown.                                              *)

LEMMA EditingStep ==
  ASSUME EditingHost, EditingInv, [Next]_vars
  PROVE  EditingInv'
<1>1. ServerTypeInv' /\ HandlesFreshInv' /\ TypeInv'
  BY ServerTypeStep, ComposedFreshStep DEF EditingInv, LocalInv, ServerTypeInv
<1>2. CASE alive /\ Step
  <2>1. OnlyEdits' /\ EditsOfObjects'
    BY <1>2, OnlyEditsStep, EditsOfObjectsStep DEF EditingInv
  <2>2. ASSUME DatabaseRests PROVE LocalInv'
    BY <1>1, <2>2, LocalInvSame DEF DatabaseRests, EditingInv
  <2>3. ASSUME DatabaseGoesOn PROVE LocalInv'
    BY <2>3, LocalInvStep DEF DatabaseGoesOn, EditingInv, EditingHost
  <2>4. ASSUME FileWritten PROVE LocalInv'
    BY <1>1, <2>4, WrittenSync DEF EditingInv
  <2>5. ASSUME EditCommitted PROVE LocalInv'
    BY <1>1, <2>5, CommittedSync DEF EditingInv
  <2>6. LocalInv'
    BY <1>2, <2>2, <2>3, <2>4, <2>5, EditingSteps DEF EditingInv
  <2> QED BY <1>1, <2>1, <2>6 DEF EditingInv
<1>3. CASE UNCHANGED vars
  <2>1. /\ UNCHANGED databaseVars
        /\ UNCHANGED <<sv, inbox, card, mObjectEditList>>
    BY <1>3 DEF vars, coreVars, srvVars, envVars
  <2>2. LocalInv'
    BY <2>1, LocalInvKept DEF EditingInv
  <2>3. UNCHANGED <<db, task, issued, ub>>
    BY <2>1 DEF databaseVars, dbVars
  <2>4. OnlyEdits' /\ EditsOfObjects'
    BY <2>1, <2>3 DEF EditingInv, OnlyEdits, EditsOfObjects, Idle
  <2> QED BY <1>1, <2>2, <2>4 DEF EditingInv
<1> QED BY <1>2, <1>3 DEF Next

LEMMA EditingInit ==
  ASSUME Init
  PROVE  EditingInv
<1>1. ServerTypeInv /\ LocalInv
  BY ServerTypeInit, LocalInit DEF Init
<1>2. /\ mObjectEditList = <<>> /\ inbox = <<>> /\ card = "out"
      /\ sv.pc = "boot" /\ sv.req.op = "none"
  BY DEF Init, Simple, Req
<1>3. OnlyEdits
  BY <1>2 DEF OnlyEdits, Rearranging
<1>4. EditsOfObjects
  BY <1>2 DEF EditsOfObjects
<1> QED BY <1>1, <1>3, <1>4 DEF EditingInv

LEMMA ObjectsTrueOf == LocalInv => ObjectsTrue
<1> SUFFICES ASSUME LocalInv, Settled
             PROVE  /\ \A h \in DOMAIN db : Followed(db[h].path) => Backed(h)
                    /\ NoLostObject
  BY DEF ObjectsTrue, NoPhantomObject, NoLostObject
<1>1. Quiescent /\ ub = {} /\ EntriesTrue
  BY EntriesTrueOf DEF Settled
<1>2. FilesListed /\ EntriesBacked
  BY <1>1 DEF EntriesTrue
<1>3. \A h \in DOMAIN db : Followed(db[h].path) => Backed(h)
  BY <1>1, <1>2 DEF EntriesBacked, Backed
<1>4. ASSUME NEW p \in DOMAIN fs, p \notin Skipped, Followed(p),
             NEW d \in DOMAIN db, Len(p) > 1,
             db[d].path = Front(p), db[d].watched
      PROVE  \E h \in DOMAIN db : db[h].path = p
  <2>1. IsListed(p)
    BY <1>1, <1>2, <1>4 DEF FilesListed
  <2>2. \E h \in ObjectList(db[d].storage_id, "ANY", ParentHandle(d)) :
          db[h].path = p
    BY <1>4, <2>1 DEF IsListed
  <2> QED BY <2>2 DEF ObjectList
<1>5. \A p \in DOMAIN fs \ Skipped : Followed(p) => \A d \in DOMAIN db :
        (Len(p) > 1 /\ db[d].path = Front(p) /\ db[d].watched) =>
          \E h \in DOMAIN db : db[h].path = p
  BY <1>4, Zenon
<1>6. NoLostObject
  BY <1>5, Zenon DEF NoLostObject
<1> QED BY <1>3, <1>6

LEMMA SizesTrueOf == LocalInv => SizesTrue
BY SizesFreshOf DEF SizesFresh, SizesTrue, Settled

\* A host that reads and edits in place is shown what is on disk, whatever
\* other programs create and remove meanwhile: neither a write through a
\* descriptor nor the commit of an edit, at its end or when the cable goes,
\* makes a phantom or hides an object.
THEOREM EditingObjectsTrue ==
  ASSUME EditingHost
  PROVE  Spec => []ObjectsTrue
<1>1. Init => EditingInv
  BY EditingInit
<1>2. EditingInv /\ [Next]_vars => EditingInv'
  BY EditingStep
<1>3. EditingInv => ObjectsTrue
  BY ObjectsTrueOf DEF EditingInv
<1> QED BY <1>1, <1>2, <1>3, PTL DEF Spec

\* ... and the sizes it is told are those of the files, however its parts and
\* truncations, the commits, the writes of other programs and the notifier's
\* events come in turn.
THEOREM EditingSizesTrue ==
  ASSUME EditingHost
  PROVE  Spec => []SizesTrue
<1>1. Init => EditingInv
  BY EditingInit
<1>2. EditingInv /\ [Next]_vars => EditingInv'
  BY EditingStep
<1>3. EditingInv => SizesTrue
  BY SizesTrueOf DEF EditingInv
<1> QED BY <1>1, <1>2, <1>3, PTL DEF Spec
=============================================================================
