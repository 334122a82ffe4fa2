------------------------------ MODULE Ext4Core ------------------------------
(***************************************************************************)
(* fs/ext4_core.c: block I/O, group descriptors, inodes, block maps and the  *)
(* two allocators of the ext4 driver.                                        *)
(*                                                                         *)
(* The driver is single-threaded: what can come between two of its steps is  *)
(* a power cut, and all that a cut sees of a call is how many of its block   *)
(* writes have reached the disk.  A function of the driver is therefore an   *)
(* operator from a state s to the state it leaves, where                     *)
(*   s.d     the disk, as the driver will have written it,                   *)
(*   s.m     struct ext4_fs e4: the device, the superblock and group         *)
(*           descriptors in memory,                                          *)
(*   s.w     the block writes issued so far, in order,                       *)
(*   s.in    the struct ext4_inode in the caller's hands,                    *)
(*   s.runs  the extents e4_append_blocks is collecting,                     *)
(*   s.rc    the value returned, 0 or -1,                                    *)
(*   s.out   the block or inode number handed back.                          *)
(* Ext4 carries out the writes one at a time.                                *)
(*                                                                         *)
(* Sizes are in blocks, and the blocks numbered here are those that hold     *)
(* files and directories: bitmaps, descriptors and the inode table have      *)
(* addresses of their own.  Times, counters of directories and checksum      *)
(* values are left out.                                                      *)
(***************************************************************************)
EXTENDS Integers, Sequences, FiniteSets, SequencesExt

CONSTANTS
  GroupCount, BlocksPerGroup, InodesPerGroup,
  FirstIno    \* the first inode that is not reserved

ASSUME GeometryAssumption ==
  /\ GroupCount \in Nat \ {0} /\ BlocksPerGroup \in Nat \ {0}
  /\ InodesPerGroup \in Nat \ {0} /\ FirstIno \in 3 .. InodesPerGroup

ROOT_INO == 2
Groups == 0 .. GroupCount - 1
Blocks == 1 .. GroupCount * BlocksPerGroup
Inodes == 1 .. GroupCount * InodesPerGroup

BlockGroup(b) == (b - 1) \div BlocksPerGroup
InodeGroup(i) == (i - 1) \div InodesPerGroup

\* Where things are on the disk.
Super == <<"super", 0>>
Desc(g) == <<"desc", g>>
BlockBitmap(g) == <<"bbitmap", g>>
InodeBitmap(g) == <<"ibitmap", g>>
InodeAt(i) == <<"inode", i>>
DataAt(b) == <<"data", b>>
JournalSuper == <<"jsb", 0>>

Addresses ==
  {Super, JournalSuper}
    \cup {Desc(g) : g \in Groups} \cup {BlockBitmap(g) : g \in Groups} \cup {InodeBitmap(g) : g \in Groups}
    \cup {InodeAt(i) : i \in Inodes} \cup {DataAt(b) : b \in Blocks}

\* What a block of a file or of a directory may hold.  JUNK is a block of the
\* inode table written where a directory or an extent leaf belongs.
ZERO == [k |-> "zero"]
JUNK == [k |-> "junk"]
FileData(c, i) == [k |-> "data", c |-> c, i |-> i]
Dirents(e) == [k |-> "dir", e |-> e]
Leaf(runs) == [k |-> "leaf", runs |-> runs]
Pointers(p) == [k |-> "ptrs", p |-> p]

\* runs: the extents, or the direct blocks of a legacy inode, each run mapping
\* count blocks of the file from first on to blocks from start on; deep: the
\* leaves of an extent tree, or the indirect block of a legacy inode.
NoInode ==
  [mode |-> "none", ext |-> TRUE, indexed |-> FALSE, size |-> 0,
   runs |-> <<>>, deep |-> <<>>]
NewFile == [NoInode EXCEPT !.mode = "reg"]
Run(first, start, count) == [first |-> first, start |-> start, count |-> count]

Fail(s) == [s EXCEPT !.rc = -1]
Done(s) == [s EXCEPT !.rc = 0]

\* The rest of a function that returns when a call it makes has failed.
Then(s, Rest(_)) == IF s.rc = 0 THEN Rest(s) ELSE s

----------------------------------------------------------------------------
\* Block I/O.

WriteBlock(s, at, v) ==
  IF s.m.dev /\ s.m.writable
  THEN Done([s EXCEPT !.d[at] = v, !.w = Append(@, <<at, v>>)])
  ELSE Fail(s)

SetBit(s, bitmap, x) == WriteBlock(s, bitmap, s.d[bitmap] \cup {x})
ClearBit(s, bitmap, x) == WriteBlock(s, bitmap, s.d[bitmap] \ {x})

\* The superblock goes through blk_write, which wants a device.
SyncSuperblock(s) ==
  IF s.m.dev
  THEN Done([s EXCEPT !.d[Super] = s.m.sb, !.w = Append(@, <<Super, s.m.sb>>)])
  ELSE Fail(s)

\* e4_extent_block_checksum_set and e4_dir_block_checksum_set read the inode
\* through the buffer that holds the block they are given: with metadata
\* checksums it is the block of the inode table that goes out to the disk.
WithChecksum(s, block) == IF s.m.sb.csum THEN JUNK ELSE block

\* e4_load_gdt: no block can be read before e4.dev is set.
LoadGdt(s) ==
  IF s.m.dev THEN Done([s EXCEPT !.m.gd = [g \in Groups |-> s.d[Desc(g)]]]) ELSE Fail(s)

SyncGd(s, g) == WriteBlock(s, Desc(g), s.m.gd[g])

----------------------------------------------------------------------------
\* Inodes and block maps.

ReadInode(s, i) == s.d[InodeAt(i)]

WriteInode(s, i) == WriteBlock(s, InodeAt(i), s.in)

UNMAPPED == 0
MISREAD == -1

\* e4_bmap.  A tree of depth one is looked up in block 0 in place of its root,
\* which fails, and an indirect block is followed one level too deep, to some
\* block that is not the file's: MISREAD stands for either.
Bmap(in, l) ==
  LET hits == {r \in ToSet(in.runs) : l >= r.first /\ l < r.first + r.count}
  IN  IF hits # {} THEN LET r == CHOOSE r \in hits : TRUE IN r.start + l - r.first
      ELSE IF in.deep # <<>> THEN MISREAD ELSE UNMAPPED

\* The blocks of an inode's runs, in the order of the file.
AppendRun(q, r) == q \o [j \in 1 .. r.count |-> r.start + j - 1]
RunBlocks(runs) == FoldLeft(AppendRun, <<>>, runs)

----------------------------------------------------------------------------
\* Allocation.

AtLeastZero(n) == IF n < 0 THEN 0 ELSE n

\* Mutant: only the group descriptor is adjusted.
AdjustDescOnly(s, g, delta) == [s EXCEPT !.m.gd[g].blocks = AtLeastZero(@ + delta)]

AdjustFreeBlocks(s, g, delta) ==
  [s EXCEPT !.m.gd[g].blocks = AtLeastZero(@ + delta),
            !.m.sb.blocks = AtLeastZero(@ + delta)]

AdjustFreeInodes(s, g, delta) ==
  [s EXCEPT !.m.gd[g].inodes = AtLeastZero(@ + delta),
            !.m.sb.inodes = AtLeastZero(@ + delta)]

\* The groups in the order the allocators try them.
GroupsFrom(hint) == [i \in 1 .. GroupCount |-> (hint + i - 1) % GroupCount]

FreeBlocksIn(s, g) == {b \in Blocks : BlockGroup(b) = g} \ s.d[BlockBitmap(g)]

\* The first free block: descriptor, bitmap, then zeroes into the block.
TakeBlock(s, g, b) ==
  [WriteBlock(SetBit(SyncGd(AdjustFreeBlocks(s, g, -1), g), BlockBitmap(g), b), DataAt(b), ZERO)
     EXCEPT !.out = b]

AllocBlockNear(s, hint) ==
  LET room == {i \in 1 .. GroupCount : FreeBlocksIn(s, GroupsFrom(hint)[i]) # {}}
      g == GroupsFrom(hint)[Min(room)]
  IN  IF ~s.m.writable \/ room = {} THEN Fail(s) ELSE TakeBlock(s, g, Min(FreeBlocksIn(s, g)))

\* A block that is free already is refused.
FreeBlock(s, b) ==
  LET g == BlockGroup(b)
  IN  IF b \notin Blocks THEN Fail(s)
      ELSE IF b \notin s.d[BlockBitmap(g)] THEN Fail(s)
      ELSE ClearBit(SyncGd(AdjustFreeBlocks(s, g, 1), g), BlockBitmap(g), b)

FreeBlocks(s, seq) == FoldLeft(FreeBlock, s, seq)

\* The inodes of the group that may be given out: the search starts past the
\* reserved ones in every group.
Candidates(g) ==
  {i \in Inodes : InodeGroup(i) = g /\ (i - 1) % InodesPerGroup >= FirstIno - 1}

\* The bitmap, or what stands for one that was never initialised.
InodeBits(s, g) ==
  IF ~s.m.gd[g].uninit THEN s.d[InodeBitmap(g)]
  ELSE IF g = 0 THEN 1 .. FirstIno - 1 ELSE {}

FreeInodesIn(s, g) == Candidates(g) \ InodeBits(s, g)

TakeInode(s, g, i) ==
  [WriteBlock(SyncGd([AdjustFreeInodes(s, g, -1) EXCEPT !.m.gd[g].uninit = FALSE], g),
              InodeBitmap(g), InodeBits(s, g) \cup {i})
     EXCEPT !.out = i]

AllocInode(s, hint) ==
  LET room == {i \in 1 .. GroupCount : FreeInodesIn(s, GroupsFrom(hint)[i]) # {}}
      g == GroupsFrom(hint)[Min(room)]
  IN  IF ~s.m.writable \/ room = {} THEN Fail(s) ELSE TakeInode(s, g, Min(FreeInodesIn(s, g)))

FreeInode(s, i) ==
  LET g == InodeGroup(i)
  IN  IF i < FirstIno \/ i \notin s.d[InodeBitmap(g)] THEN Fail(s)
      ELSE ClearBit(SyncGd(AdjustFreeInodes(s, g, 1), g), InodeBitmap(g), i)
=============================================================================
