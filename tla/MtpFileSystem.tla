--------------------------- MODULE MtpFileSystem ----------------------------
(***************************************************************************)
(* External: the file tree the kernel keeps and the inotify instance the   *)
(* object database reads, as the code uses them.  A path is the sequence   *)
(* of its names.  Watches belong to inodes, so they survive a rename; a    *)
(* watch descriptor is never reused; an event equal to the last one still  *)
(* unread is merged with it.                                               *)
(***************************************************************************)
EXTENDS MtpTypes

CONSTANTS
  Names,        \* the names a directory entry may have
  MaxDepth,     \* bound: longest path
  MaxSize,      \* bound: largest file size, in units of data
  MaxLocal,     \* bound: operations local processes perform
  LocalKinds    \* the kinds of object local processes create

ASSUME FileSystemAssumption ==
  /\ MaxDepth \in Nat /\ MaxSize \in Nat /\ MaxLocal \in Nat
  /\ LocalKinds \subseteq {"dir", "file"}

VARIABLES
  fs,           \* path -> [kind, size, ino]
  watch,        \* watch descriptor -> inode of the watched directory
  queue,        \* inotify events not yet read
  nextIno,      \* the inode number the next object gets
  nextWd,       \* the descriptor the next watch gets
  locals        \* operations local processes have performed

kernelVars == <<fs, watch, queue, nextIno, nextWd>>
fsVars == <<fs, watch, queue, nextIno, nextWd, locals>>

Sizes == 0 .. MaxSize

IsDirectory(p) == p \in DOMAIN fs /\ fs[p].kind = "dir"
IsFile(p) == p \in DOMAIN fs /\ fs[p].kind = "file"
Listing(p) == {q \in DOMAIN fs : Len(q) = Len(p) + 1 /\ Front(q) = p}
Below(p) == {q \in DOMAIN fs : IsPrefix(p, q)}

\* The watch descriptors on the directory that holds p.
WatchersOf(p) ==
  {wd \in DOMAIN watch :
     Len(p) > 1 /\ Front(p) \in DOMAIN fs /\ watch[wd] = fs[Front(p)].ino}

\* The queue after an event of kind mask for the directory entry p.
Notified(mask, p) ==
  IF WatchersOf(p) = {} THEN queue
  ELSE LET e == [wd |-> CHOOSE wd \in WatchersOf(p) : TRUE,
                 mask |-> mask, name |-> Last(p)]
       IN  IF queue # <<>> /\ Last(queue) = e THEN queue ELSE Append(queue, e)

\* Watches on inodes that are gone are dropped by the kernel.
WatchWithout(ino) == Erase(watch, {wd \in DOMAIN watch : watch[wd] = ino})

CanCreate(p) == p \notin DOMAIN fs /\ IsDirectory(Front(p))

\* open(O_CREAT) of a new file, or mkdir.
FsCreate(p, kind) ==
  /\ fs' = Put(fs, p, [kind |-> kind, size |-> 0, ino |-> nextIno])
  /\ nextIno' = nextIno + 1
  /\ queue' = Notified("IN_CREATE", p)
  /\ UNCHANGED <<watch, nextWd>>

\* write, truncate: the file at p gets the given size.
FsResize(p, size) ==
  /\ fs' = [fs EXCEPT ![p].size = size]
  /\ queue' = Notified("IN_MODIFY", p)
  /\ UNCHANGED <<watch, nextIno, nextWd>>

\* Nobody removes or renames a directory a card is mounted on.
MountPoint(p) == Len(p) = 2 /\ Head(p) = "media"

CanRemove(p) == p \in DOMAIN fs /\ Listing(p) = {} /\ ~MountPoint(p)

\* unlink of a file, rmdir of an empty directory.
FsRemove(p) ==
  /\ fs' = Erase(fs, {p})
  /\ queue' = Notified("IN_DELETE", p)
  /\ watch' = WatchWithout(fs[p].ino)
  /\ UNCHANGED <<nextIno, nextWd>>

\* rename(2) succeeds onto nothing, onto a file from a file, and onto an
\* empty directory from a directory.
CanRename(p, q) ==
  /\ p \in DOMAIN fs /\ ~MountPoint(p) /\ IsDirectory(Front(q))
  /\ q \in DOMAIN fs => fs[q].kind = fs[p].kind /\ Listing(q) = {}
  /\ ~IsStrictPrefix(p, q)

\* The whole subtree moves.  The watches ask for IN_MODIFY, IN_CREATE and
\* IN_DELETE only, so a rename is reported to nobody.
FsRename(p, q) ==
  LET moved == {q \o SubSeq(r, Len(p) + 1, Len(r)) : r \in Below(p)}
      kept == (DOMAIN fs \ Below(p)) \ {q}
      from(r) == p \o SubSeq(r, Len(q) + 1, Len(r))
  IN  /\ fs' = IF p = q THEN fs
               ELSE [r \in kept \cup moved |->
                       IF r \in moved THEN fs[from(r)] ELSE fs[r]]
      /\ watch' = IF p # q /\ q \in DOMAIN fs THEN WatchWithout(fs[q].ino)
                  ELSE watch
      /\ UNCHANGED <<queue, nextIno, nextWd>>

\* inotify_add_watch: the descriptor the inode already has, or a new one;
\* -1 when the directory is gone.
WatchDescriptor(p) ==
  IF p \notin DOMAIN fs THEN -1
  ELSE IF \E wd \in DOMAIN watch : watch[wd] = fs[p].ino
       THEN CHOOSE wd \in DOMAIN watch : watch[wd] = fs[p].ino
       ELSE nextWd

AddWatch(p) ==
  /\ watch' = IF p \in DOMAIN fs THEN Put(watch, WatchDescriptor(p), fs[p].ino)
              ELSE watch
  /\ nextWd' = IF WatchDescriptor(p) = nextWd THEN nextWd + 1 ELSE nextWd
  /\ UNCHANGED <<fs, queue, nextIno>>

\* inotify_rm_watch; events already queued for the descriptor stay queued.
WatchRemoved(wd) == Erase(watch, {wd})

-----------------------------------------------------------------------------
(* What other programs of the device do to the tree, behind the server.    *)

LocalCreate(p, kind) ==
  /\ CanCreate(p) /\ Len(p) <= MaxDepth
  /\ FsCreate(p, kind)

LocalWrite(p, size) ==
  /\ IsFile(p) /\ size # fs[p].size
  /\ FsResize(p, size)

LocalRemove(p) ==
  /\ CanRemove(p) /\ Len(p) > 1
  /\ FsRemove(p)

\* One operation of a local process somewhere below one of the roots.
LocalStep(roots) ==
  /\ locals < MaxLocal
  /\ locals' = locals + 1
  /\ \/ \E r \in roots, n \in Names, k \in LocalKinds :
          \E d \in Below(r) : LocalCreate(Append(d, n), k)
     \/ \E r \in roots, s \in Sizes :
          \E p \in Below(r) : LocalWrite(p, s)
     \/ \E r \in roots : \E p \in Below(r) : LocalRemove(p)
=============================================================================
