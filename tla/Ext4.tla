-------------------------------- MODULE Ext4 --------------------------------
(***************************************************************************)
(* fs/ext4_mount.c: mounting a volume and the calls of fs/ext4.h on it,      *)
(* composed of the driver's parts (Ext4Core, Ext4Fsops, Ext4Journal).        *)
(*                                                                         *)
(* A call is computed at once and its block writes then reach the disk one   *)
(* by one; the power may be cut before, between and after them.  ext4_mount  *)
(* never stores the device in e4.dev nor sets e4.writable: with Fixes = {}   *)
(* the model does what the code does, and no mount succeeds.  What lies      *)
(* behind the mount is examined with the correction "bind", which sets both  *)
(* before the descriptors are loaded, and "lookup" (Ext4Fsops!DirLookup).    *)
(***************************************************************************)
EXTENDS Ext4Fsops, Ext4Journal

CONSTANTS
  Paths,        \* the paths calls are made with, sequences of names
  Contents,     \* what may be written
  SizeOf(_),    \* the blocks a content fills
  WriteCap,     \* EXT4_WRITE_CAP, in blocks
  Volumes,      \* the disks a machine may be started with
  MaxCalls,     \* bound: calls that write or unlink
  MaxCuts       \* bound: power cuts

ASSUME CallAssumption ==
  /\ WriteCap \in Nat /\ MaxCalls \in Nat /\ MaxCuts \in Nat
  /\ \A c \in Contents : SizeOf(c) \in Nat

VARIABLES
  disk,     \* what is on the disk
  e4,       \* struct ext4_fs
  wq,       \* the writes of the running call that have not reached the disk
  call,     \* the running call and what it will return
  want,     \* history: what each path may read as; {} promises nothing
  first,    \* history: the disk at the start
  hist      \* history: power cuts and what went wrong

vars == <<disk, e4, wq, call, want, first, hist>>

NONE == "none"
ABSENT == <<[k |-> "absent"]>>    \* what stands for a read that fails
NoCall == [op |-> NONE, path |-> <<>>, c |-> NONE, ino |-> 0, rc |-> 0, fault |-> NONE,
           wipes |-> FALSE, loses |-> FALSE]

\* geometry: whether the sizes of groups and descriptors are sane.
NoSuper == [magic |-> FALSE, log |-> 0, geometry |-> FALSE, incompat |-> {},
            bigalloc |-> FALSE, csum |-> FALSE, journal |-> FALSE, blocks |-> 0, inodes |-> 0]

\* An inode lists numbers, and so does an indirect block, on the disk and in the log.
AnInode == [mode : {"none", "reg", "dir"}, ext : BOOLEAN, indexed : BOOLEAN, size : Nat,
            runs : Seq([first : Nat, start : Nat, count : Nat]), deep : Seq(Nat)]
Readable(x) ==
  /\ x.k = "ptrs" => x.p \in Seq(Nat)
  /\ x.k = "dir" => /\ x.e \in Seq(ToSet(x.e))
                    /\ \A n \in DOMAIN x.e : x.e[n] = Entry(x.e[n].name, x.e[n].ino)

ADesc == [blocks : Nat, inodes : Nat, uninit : BOOLEAN]

\* What volume v may have logged for address a.  A superblock in the log has the
\* features of the one on the disk.
Loggable(v, a, x) ==
  /\ a = Super => /\ DOMAIN x = DOMAIN NoSuper
                  /\ \A f \in DOMAIN NoSuper \ {"blocks", "inodes"} : x[f] = v[Super][f]
  /\ \A g \in Groups : /\ a = Desc(g) => x \in ADesc
                       /\ a = BlockBitmap(g) => x \subseteq Blocks
                       /\ a = InodeBitmap(g) => x \subseteq Inodes
  /\ \A i \in Inodes : a = InodeAt(i) => x \in AnInode
  /\ \A b \in Blocks : a = DataAt(b) => Readable(x)

\* The disks have a superblock and a journal, and its log can be followed.
ASSUME VolumeAssumption ==
  \A v \in Volumes : /\ DOMAIN v = Addresses
                     /\ DOMAIN v[Super] = DOMAIN NoSuper
                     /\ DOMAIN v[JournalSuper] = {"order", "first", "start", "sequence", "log"}
                     /\ WellFormed(v[JournalSuper])
                     /\ \A i \in Inodes : v[InodeAt(i)] \in AnInode
                     /\ \A b \in Blocks : Readable(v[DataAt(b)])
                     /\ \A x \in LiveTags(v[JournalSuper]) :
                          Loggable(v, x[2].to, LoggedContent(v[JournalSuper], x))

\* What is free, by the bitmaps.
InodeRoom(s, g) == {i \in Inodes : InodeGroup(i) = g} \ InodeBits(s, g)
BlockTotal(s) == Cardinality({b \in Blocks : b \in FreeBlocksIn(s, BlockGroup(b))})
InodeTotal(s) == Cardinality({i \in Inodes : i \in InodeRoom(s, InodeGroup(i))})

\* The free inodes of the groups and the totals of superblock sb are right.
TotalsMatch(s, sb) ==
  /\ \A g \in Groups : s.m.gd[g].inodes = Cardinality(InodeRoom(s, g))
  /\ sb.blocks = BlockTotal(s) /\ sb.inodes = InodeTotal(s)

\* No directory block names an inode of a group that was never used.
NamesUsed(v, x) ==
  x.k = "dir" =>
    \A n \in DOMAIN x.e : x.e[n].ino \in Inodes => ~v[Desc(InodeGroup(x.e[n].ino))].uninit

\* The disks have counts that agree with their bitmaps.
ASSUME CountAssumption ==
  \A v \in Volumes :
    LET s == [d |-> v, m |-> [gd |-> [g \in Groups |-> v[Desc(g)]]]]
    IN  /\ \A g \in Groups : /\ v[Desc(g)] \in ADesc
                             /\ v[Desc(g)].blocks = Cardinality(FreeBlocksIn(s, g))
        /\ TotalsMatch(s, v[Super])
        /\ \A b \in Blocks : NamesUsed(v, v[DataAt(b)])
        /\ \A x \in LiveTags(v[JournalSuper]), b \in Blocks :
             x[2].to = DataAt(b) => NamesUsed(v, LoggedContent(v[JournalSuper], x))

NoDesc == [blocks |-> 0, inodes |-> 0, uninit |-> FALSE]
Unmounted ==
  [dev |-> FALSE, writable |-> FALSE, sb |-> NoSuper,
   gd |-> [g \in Groups |-> NoDesc]]

\* The state a call starts from.
Now == [d |-> disk, m |-> e4, w |-> <<>>, in |-> NoInode, runs |-> <<>>, rc |-> 0, out |-> 0]

----------------------------------------------------------------------------
\* Paths: 0 stands for a path that does not resolve.

IsDir(d, i) == i \in Inodes /\ d[InodeAt(i)].mode = "dir"

ResolveFull(d, path) ==
  FoldLeft(LAMBDA cur, name : IF IsDir(d, cur) THEN DirLookup(d, cur, name) ELSE 0,
           ROOT_INO, path)

ResolveParent(d, path) ==
  LET p == ResolveFull(d, Front(path)) IN IF IsDir(d, p) THEN p ELSE 0

----------------------------------------------------------------------------
\* Mounting.

SUPPORTED_INCOMPAT == {"filetype", "recover", "extents", "64bit", "flex_bg", "csum_seed"}

Mountable(sb) ==
  /\ sb.magic /\ sb.log <= 3
  /\ sb.incompat \subseteq SUPPORTED_INCOMPAT
  /\ ~sb.bigalloc
  /\ sb.geometry

\* Where ext4_mount may meet a read error or an exhausted heap: before the
\* journal, in the replay or in its reset.
MountFaults == {NONE, "early", "replay", "reset"}

Refuse(s) == Fail([s EXCEPT !.m = Unmounted])

\* What the replay returns is ignored.
Recover(s, fault) ==
  IF "recover" \in s.m.sb.incompat THEN Replay(s, fault # "replay", fault # "reset") ELSE s

Ext4Mount(s, fault) ==
  LET bound == "bind" \in Fixes
      s1 == [s EXCEPT !.m = [Unmounted EXCEPT !.sb = s.d[Super], !.dev = bound, !.writable = bound]]
  IN  IF s.m.dev THEN Done(s)
      ELSE IF fault = "early" \/ ~Mountable(s.d[Super]) \/ LoadGdt(s1).rc # 0 THEN Refuse(s)
      ELSE SyncSuperblock(Recover(LoadGdt(s1), fault))

----------------------------------------------------------------------------
\* Reading.

\* ext4_read, ext4_size and ext4_listdir with buffers that are large enough.
Ext4Read(d, path) ==
  LET i == ResolveFull(d, path)
      in == d[InodeAt(i)]
      at == [l \in 1 .. in.size |-> Bmap(in, l - 1)]
  IN  IF i \notin Inodes \/ IsDir(d, i) THEN ABSENT
      ELSE IF \E l \in DOMAIN at : at[l] = MISREAD THEN ABSENT
      ELSE [l \in DOMAIN at |-> IF at[l] = UNMAPPED THEN ZERO ELSE d[DataAt(at[l])]]

Ext4Size(d, path) ==
  LET i == ResolveFull(d, path) IN IF i \notin Inodes THEN 0 ELSE d[InodeAt(i)].size

Ext4ListDir(d, path) ==
  LET i == ResolveFull(d, path)
      es == IF i \notin Inodes THEN <<>>
            ELSE IF Misread(d[InodeAt(i)]) # {} THEN <<>> ELSE IterateDir(d, i)
  IN  [n \in DOMAIN es |-> es[n].name]

----------------------------------------------------------------------------
\* Writing.

Fill(s, c, heap) == IF SizeOf(c) = 0 THEN s ELSE AppendBlocks(s, c, SizeOf(c), heap)

\* Mutant: the size is set before e4_truncate, which clears it.
ReplaceSizeEarly(s, i, c, heap) ==
  IF ~s.in.ext THEN Fail(s)
  ELSE Then(Fill(Truncate([s EXCEPT !.in.size = SizeOf(c)], heap), c, heap), LAMBDA t : WriteInode(t, i))

DoReplace(s, i, c, heap) ==
  IF ~s.in.ext THEN Fail(s)
  ELSE Then(Fill(Truncate(s, heap), c, heap), LAMBDA t : WriteInode([t EXCEPT !.in.size = SizeOf(c)], i))

ReplaceFile(s, i, c, heap) ==
  IF i \notin Inodes \/ IsDir(s.d, i) THEN Fail(s)
  ELSE Then(DoReplace([s EXCEPT !.in = ReadInode(s, i)], i, c, heap), LAMBDA t : Done(SyncSuperblock(t)))

\* Mutant: the directory names the file before its inode is written.
NameFirst(s, parent, name, c, heap) ==
  Then(AllocInode(s, InodeGroup(parent)), LAMBDA a :
    Then(DirAddEntry(a, parent, Entry(name, a.out)), LAMBDA e :
      DoReplace([e EXCEPT !.in = NewFile], a.out, c, heap)))

\* The inode of a file that could not be created is given back.
Undo(s, i, g) == Fail(SyncGd(FreeInode(s, i), g))

\* The file is written: in is its inode.  Its name comes last.  Giving back a
\* file with extents takes no memory.
EnterName(s, parent, name, i, in) ==
  LET g == InodeGroup(parent)
      Entered(e) == IF e.rc # 0 THEN Undo(Truncate([e EXCEPT !.in = in], TRUE), i, g)
                    ELSE Done(SyncSuperblock(e))
  IN  Entered(DirAddEntry(s, parent, Entry(name, i)))

\* Inode, blocks, inode table, then the directory entry.
CreateFile(s, parent, name, c, heap) ==
  LET Written(r, i) == IF r.rc # 0 THEN Undo(r, i, InodeGroup(parent))
                       ELSE EnterName(r, parent, name, i, r.in)
  IN  Then(AllocInode(s, InodeGroup(parent)), LAMBDA a :
        Written(DoReplace([a EXCEPT !.in = NewFile], a.out, c, heap), a.out))

Ext4Write(s, path, c, heap) ==
  LET To(parent, i) == IF parent = 0 THEN Fail(s)
                       ELSE IF i # 0 THEN ReplaceFile(s, i, c, heap)
                       ELSE CreateFile(s, parent, Last(path), c, heap)
      In(parent) == To(parent, DirLookup(s.d, parent, Last(path)))
  IN  IF ~s.m.dev \/ SizeOf(c) > WriteCap THEN Fail(s) ELSE In(ResolveParent(s.d, path))

\* The name goes first, then blocks and inode.
RemoveFile(s, parent, name, i, heap) ==
  LET freed(t) == FreeInode(Truncate([t EXCEPT !.in = ReadInode(s, i)], heap), i)
  IN  IF i \notin Inodes \/ i = ROOT_INO THEN Fail(s)
      ELSE IF IsDir(s.d, i) /\ ~DirEmpty(s.d, i) THEN Fail(s)
      ELSE Then(DirRemoveEntry(s, parent, name), LAMBDA t :
             Done(SyncSuperblock(SyncGd(freed(t), InodeGroup(i)))))

Ext4Unlink(s, path, heap) ==
  LET In(parent) == IF parent = 0 THEN Fail(s)
                    ELSE RemoveFile(s, parent, Last(path), DirLookup(s.d, parent, Last(path)), heap)
  IN  IF ~s.m.dev THEN Fail(s) ELSE In(ResolveParent(s.d, path))

----------------------------------------------------------------------------
\* What a file holds, as ext4_read returns it.
Image(c) == [l \in 1 .. SizeOf(c) |-> FileData(c, l - 1)]

\* A volume straight from mke2fs or Linux promises its files, one whose journal
\* is to be replayed promises nothing.
Init ==
  /\ disk \in Volumes
  /\ e4 = Unmounted /\ wq = <<>> /\ call = NoCall
  /\ first = disk
  /\ want = [p \in Paths |-> IF "recover" \in disk[Super].incompat THEN {}
                             ELSE {Ext4Read(disk, p)}]
  /\ hist = [cuts |-> 0, calls |-> 0, touched |-> FALSE, torn |-> FALSE, skipped |-> FALSE, leaky |-> FALSE]

Idle == call.op = NONE

\* A call that leaves state s.
Begin(s, c) ==
  /\ Idle
  /\ e4' = s.m /\ wq' = s.w /\ call' = [c EXCEPT !.rc = s.rc]
  /\ hist' = [hist EXCEPT !.calls = IF c.op = "mount" THEN @ ELSE @ + 1]
  /\ UNCHANGED <<disk, want, first>>

Mount == \E f \in MountFaults :
  Begin(Ext4Mount(Now, f), [NoCall EXCEPT !.op = "mount", !.fault = f])

\* The file that will be truncated: its blocks are freed on the disk before the
\* inode that lists them is rewritten (wipes).  What lies below the leaves of an
\* extent tree is not freed at all, an indirect block and what it points to only
\* if there is memory (loses).
Truncated(i) ==
  /\ i \in Inodes
  /\ disk[InodeAt(i)].ext /\ ~IsDir(disk, i)
Loses(i, heap) ==
  /\ i \in Inodes
  /\ disk[InodeAt(i)].deep # <<>>
  /\ disk[InodeAt(i)].ext \/ ~heap

Calling(op, p, i, heap) ==
  [NoCall EXCEPT !.op = op, !.path = p, !.ino = i, !.loses = Loses(i, heap)]
Writing(p, c, i, heap) ==
  [Calling("write", p, i, heap) EXCEPT !.c = c, !.wipes = Truncated(i) /\ SizeOf(c) <= WriteCap]

Write == \E p \in Paths, c \in Contents, heap \in BOOLEAN :
  /\ e4.dev /\ hist.calls < MaxCalls
  /\ Begin(Ext4Write(Now, p, c, heap), Writing(p, c, ResolveFull(disk, p), heap))

Unlink == \E p \in Paths, heap \in BOOLEAN :
  /\ e4.dev /\ hist.calls < MaxCalls
  /\ Begin(Ext4Unlink(Now, p, heap), Calling("unlink", p, ResolveFull(disk, p), heap))

\* The next write of the running call reaches the disk.
WriteOut ==
  /\ wq # <<>>
  /\ disk' = [disk EXCEPT ![wq[1][1]] = wq[1][2]]
  /\ wq' = Tail(wq)
  /\ hist' = [hist EXCEPT !.touched = @ \/ call.op # "mount"]
  /\ UNCHANGED <<e4, call, want, first>>

\* A replace is on its way: the inode on the disk still lists the old blocks.
Replacing ==
  /\ call.wipes
  /\ \/ call.rc # 0
     \/ \E n \in DOMAIN wq : wq[n][1] = InodeAt(call.ino)

Marked(d) == UNION {d[BlockBitmap(g)] : g \in Groups}

\* What the paths may read as once the call has returned.
Promise ==
  IF call.rc = 0 /\ call.op = "write" THEN [want EXCEPT ![call.path] = {Image(call.c)}]
  ELSE IF call.rc = 0 /\ call.op = "unlink" THEN [want EXCEPT ![call.path] = {ABSENT}]
  ELSE IF call.wipes THEN [want EXCEPT ![call.path] = {}]
  ELSE want

\* A replace that fails with space left on the volume leaves an inode that lists
\* free blocks (torn); a mount that goes on without the replay leaves a journal
\* that a later one applies to newer data (skipped).
Return ==
  /\ ~Idle /\ wq = <<>>
  /\ call' = NoCall
  /\ want' = Promise
  /\ hist' = [hist EXCEPT
       !.leaky = @ \/ call.rc # 0 \/ call.loses,
       !.torn = @ \/ (call.wipes /\ call.rc # 0 /\ Marked(disk) # Blocks),
       !.skipped = @ \/ (call.fault \in {"replay", "reset"} /\ "recover" \in disk[Super].incompat)]
  /\ UNCHANGED <<disk, e4, wq, first>>

\* The power is cut, before, in or after a call: memory and the writes that are
\* left are gone.
Cut ==
  /\ hist.cuts < MaxCuts
  /\ e4' = Unmounted /\ wq' = <<>> /\ call' = NoCall
  /\ want' = IF call.op \notin {"write", "unlink"} THEN want
             ELSE IF want[call.path] = {} THEN want
             ELSE [want EXCEPT ![call.path] =
                     @ \cup {IF call.op = "write" THEN Image(call.c) ELSE ABSENT}]
  /\ hist' = [hist EXCEPT !.cuts = @ + 1, !.leaky = @ \/ ~Idle, !.torn = @ \/ Replacing]
  /\ UNCHANGED <<disk, first>>

Next == Mount \/ Write \/ Unlink \/ WriteOut \/ Return \/ Cut

Spec == Init /\ [][Next]_vars

----------------------------------------------------------------------------
\* The properties.

\* The blocks an inode stands for, index blocks included.
BlocksOf(d, i) ==
  LET in == d[InodeAt(i)]
      Below(b) == IF d[DataAt(b)].k = "leaf" THEN ToSet(RunBlocks(d[DataAt(b)].runs))
                  ELSE IF d[DataAt(b)].k = "ptrs" THEN ToSet(d[DataAt(b)].p) ELSE {}
  IN  ToSet(RunBlocks(in.runs)) \cup ToSet(in.deep) \cup UNION {Below(b) : b \in ToSet(in.deep)}

\* The inodes that the root and the directories below it name, in order.
NamedInodes(d) ==
  LET top == IterateDir(d, ROOT_INO)
      Below(q, e) == q \o IterateDir(d, e.ino)
      all == top \o FoldLeft(Below, <<>>, top)
  IN  [n \in DOMAIN all |-> all[n].ino]

\* The descriptors and the superblock are in memory before the replay, which does
\* not touch them there: what the journal logged of them, or of the bitmaps they
\* count, is not what the driver goes on with.
Books ==
  {Super} \cup {Desc(g) : g \in Groups} \cup {BlockBitmap(g) : g \in Groups}
    \cup {InodeBitmap(g) : g \in Groups}
Stale(v) ==
  /\ "recover" \in v[Super].incompat
  /\ \E x \in LiveTags(v[JournalSuper]) :
       x[2].to \in Books /\ x[2].to \notin Revoked(v[JournalSuper])

Spoilt == hist.torn \/ hist.skipped \/ Stale(first)

\* fs/ext4.h calls writes "metadata-consistent".  Wherever the power is cut and
\* whenever space runs out, every file and directory that can be reached has
\* its inode and its blocks marked in the bitmaps, shares no block with another
\* and has one name: create names a file last (ext4_write), unlink takes the
\* name away first (ext4_unlink), a directory is extended after its new block
\* was written (e4_dir_add_entry).  The file being replaced is left out, and so
\* are a volume on which a replace was cut short and one whose journal logged
\* bitmaps or descriptors (JournalReplayed).
VolumeConsistent ==
  ~Spoilt =>
    LET names == NamedInodes(disk)
        all == ToSet(names) \cup {ROOT_INO}
        whole == IF Replacing THEN all \ {call.ino} ELSE all
    IN  /\ \A m, n \in DOMAIN names : m # n => names[m] # names[n]
        /\ \A i \in all : /\ i \in disk[InodeBitmap(InodeGroup(i))]
                          /\ disk[InodeAt(i)].mode # "none"
        /\ \A i \in whole : BlocksOf(disk, i) \subseteq Marked(disk)
        /\ \A i, j \in whole : i # j => BlocksOf(disk, i) \cap BlocksOf(disk, j) = {}

\* A file whose extents did not fit in its inode, or that reaches past its
\* direct blocks, cannot be read back (Ext4Core!Bmap).
Unreadable(d, p) == LET i == ResolveFull(d, p) IN i # 0 /\ d[InodeAt(i)].deep # <<>>

\* ext4_read returns what the last ext4_write of the path that succeeded was
\* given, through any later calls on other paths, and after a power cut in a
\* call the state before it or after it; ext4_size agrees, and ext4_listdir of
\* the parent, if it can be walked to its end, shows the name of a file that can
\* be read.  No promise is made for volumes with metadata checksums, whose
\* directories are overwritten.
ReadBack ==
  ~Spoilt /\ ~first[Super].csum =>
    \A p \in Paths : want[p] # {} /\ (Idle \/ call.path # p) =>
      \/ Unreadable(disk, p)
      \/ LET r == Ext4Read(disk, p)
         IN  /\ r \in want[p]
             /\ r # ABSENT => /\ Ext4Size(disk, p) = Len(r)
                              /\ \/ Misread(disk[InodeAt(ResolveFull(disk, Front(p)))]) # {}
                                 \/ Last(p) \in ToSet(Ext4ListDir(disk, Front(p)))

\* The free counts of a group descriptor stay within one of the bitmap for each
\* power cut (a cut between e4_sync_gd and the write of the bitmap loses one),
\* what is in memory is on the disk when a call returns, and without a cut the
\* superblock's counts, which ext4_free_blocks reports, are exact as well.  This
\* is so unless a journal that logged descriptors, bitmaps or the superblock was
\* to be replayed (JournalReplayed).
CountsExact ==
  Idle /\ e4.dev /\ ~Stale(first) =>
    LET FreeB(g) == Cardinality(FreeBlocksIn(Now, g))
    IN  /\ \A g \in Groups :
             /\ e4.gd[g].blocks \in FreeB(g) - hist.cuts .. FreeB(g) + hist.cuts
             /\ disk[Desc(g)] = e4.gd[g]
        /\ hist.cuts = 0 => TotalsMatch(Now, e4.sb)

\* As long as every call succeeds, no power is cut in one, no extent tree has
\* leaves and memory suffices for the copies of indirect blocks, replacing and
\* removing files gives all their blocks and inodes back: what the bitmaps mark
\* is what the files and directories hold.
NothingLeaked ==
  Idle /\ ~hist.leaky /\ ~Spoilt /\ ~first[Super].csum =>
    LET all == ToSet(NamedInodes(disk)) \cup {ROOT_INO}
    IN  /\ Marked(disk) = UNION {BlocksOf(disk, i) : i \in all}
        /\ \A g \in Groups : ~disk[Desc(g)].uninit =>
             disk[InodeBitmap(g)] = {i \in Inodes : InodeGroup(i) = g /\ (i < FirstIno \/ i \in all)}

----------------------------------------------------------------------------
\* The blocks that a replay restores for good: the superblock is written over
\* from memory at the end of it.
Homes == Addresses \ {Super, JournalSuper}

\* What the transactions of journal j leave at address a: the content logged last.
ReplayedTo(j, a) ==
  LET xs == LoggedFor(j, a)
  IN  IF xs = {} THEN first[a]
      ELSE LoggedContent(j, CHOOSE x \in xs : \A y \in xs : y[1] <= x[1])

\* Before the first file is touched, a block holds what it held or what a
\* committed transaction logged for it and no revoke withdrew, however often the
\* replay is cut and begun again; and once RECOVER is off on the disk, it holds
\* what one replay of all of them leaves, unless one of its tags is among those
\* the driver does not come to (JournalReplayed).
ReplaySound ==
  LET j == first[JournalSuper] IN
  "recover" \in first[Super].incompat /\ ~hist.touched =>
    \A a \in Homes :
      /\ \/ disk[a] = first[a]
         \/ \E x \in LoggedFor(j, a) : disk[a] = LoggedContent(j, x)
      /\ "recover" \notin disk[Super].incompat /\ a \notin Dropped(j) => disk[a] = ReplayedTo(j, a)

\* A volume that is mounted, from a mount that met no fault, has no journal left
\* to apply, if the driver can read its journal (e4_journal_replay).
MountRecovers ==
  Idle /\ e4.dev /\ ~hist.skipped /\ first[Super].journal =>
    \/ "recover" \notin disk[Super].incompat
    \/ Bogus(first[JournalSuper])


\* fs/ext4.h: "Mount the first block device that carries a valid ext2/3/4
\* superblock".  ext4_mount refuses a volume only when its superblock asks for
\* something that is not supported or something failed on the way.  TLC finds it
\* violated with Fixes = {}: the device is never stored in e4.dev.
MountRefusesOnlyBad ==
  call.op = "mount" /\ call.rc # 0 => call.fault # NONE \/ ~Mountable(first[Super])
=============================================================================
