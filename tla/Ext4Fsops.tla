----------------------------- MODULE Ext4Fsops ------------------------------
(***************************************************************************)
(* fs/ext4_fsops.c: extent trees, truncation and directories, over the       *)
(* blocks and inodes of Ext4Core.                                            *)
(*                                                                         *)
(* Names take the same room, so that a directory block is a sequence of at   *)
(* most DirSlots entries whose last one also holds the slack: an entry goes  *)
(* to the first tombstone or is split off the last entry.  The entries . and *)
(* .. are not listed.                                                        *)
(***************************************************************************)
EXTENDS Ext4Core

CONSTANTS
  RootMax,    \* extents that fit in an inode (ROOT_MAX_ENTRIES, 4)
  LeafCap,    \* extents that fit in a leaf (leaf_capacity)
  DirMax,     \* extents the header of a directory's inode has room for
  DirSlots,   \* entries that fit in a directory block
  Fixes       \* corrections assumed; {} is the code as it stands

ASSUME FsopsAssumption ==
  /\ RootMax \in Nat \ {0} /\ LeafCap \in Nat \ {0}
  /\ DirMax \in Nat \ {0} /\ DirSlots \in Nat \ {0}
  /\ Fixes \subseteq {"bind", "lookup"}

----------------------------------------------------------------------------
\* Extent trees.

\* A block that continues the last run on the disk and in the file extends it.
AddToRuns(runs, l, b) ==
  LET last == runs[Len(runs)]
  IN  IF runs # <<>> /\ last.start + last.count = b /\ last.first + last.count = l
      THEN [runs EXCEPT ![Len(runs)].count = @ + 1]
      ELSE Append(runs, Run(l, b, 1))

WriteLeaf(s, part) ==
  Then(s, LAMBDA t : Then(AllocBlockNear(t, 0), LAMBDA a :
    [WriteBlock(a, DataAt(a.out), WithChecksum(a, Leaf(part)))
       EXCEPT !.in.deep = Append(@, a.out)]))

\* Up to RootMax runs go into the inode, more into leaves; with more leaves
\* than the inode can list the file is too fragmented.
BuildTree(s) ==
  LET n == Len(s.runs)
      leaves == (n + LeafCap - 1) \div LeafCap
      Part(l) == SubSeq(s.runs, (l - 1) * LeafCap + 1, Min({l * LeafCap, n}))
  IN  IF n <= RootMax THEN Done([s EXCEPT !.in.runs = s.runs])
      ELSE IF leaves > RootMax THEN Fail(s)
      ELSE FoldLeft(WriteLeaf, Done(s), [l \in 1 .. leaves |-> Part(l)])

AppendBlock(s, block) ==
  Then(s, LAMBDA t : Then(AllocBlockNear(t, block.i \div BlocksPerGroup), LAMBDA a :
    [WriteBlock(a, DataAt(a.out), block) EXCEPT !.runs = AddToRuns(@, block.i, a.out)]))

\* e4_append_blocks: content c in n fresh blocks.  heap: whether the array of
\* runs could be allocated.  Blocks taken before a failure are not given back.
AppendBlocks(s, c, n, heap) ==
  LET blocks == [i \in 1 .. n |-> FileData(c, i - 1)]
  IN  IF ~heap THEN Fail(s)
      ELSE Then(FoldLeft(AppendBlock, Done([s EXCEPT !.runs = <<>>]), blocks), BuildTree)

----------------------------------------------------------------------------
\* Truncation.

\* A tree with leaves has its leaves freed, and not what they list.
FreeExtentTree(s) ==
  FreeBlocks(s, IF s.in.deep = <<>> THEN RunBlocks(s.in.runs) ELSE s.in.deep)

\* The blocks that an indirect block points to.
Children(d, b) ==
  IF b \notin Blocks THEN <<>> ELSE IF d[DataAt(b)].k = "ptrs" THEN d[DataAt(b)].p ELSE <<>>

\* They are freed first, then the block itself.  heap: whether the copy of the
\* pointers could be allocated; without it the tree is left as it is.
FreeIndirectTree(s, b, heap) ==
  IF heap THEN FreeBlocks(s, Children(s.d, b) \o <<b>>) ELSE s

\* Mutant: the blocks are forgotten and not freed.
TruncateKeepsBlocks(s, heap) == Done([s EXCEPT !.in.runs = <<>>, !.in.deep = <<>>, !.in.size = 0])

\* Whatever could not be freed is forgotten.
Truncate(s, heap) ==
  LET Free(t, b) == FreeIndirectTree(t, b, heap)
      freed == IF s.in.ext THEN FreeExtentTree(s)
               ELSE FoldLeft(Free, FreeBlocks(s, Reverse(RunBlocks(s.in.runs))), s.in.deep)
  IN  Done([freed EXCEPT !.in.runs = <<>>, !.in.deep = <<>>, !.in.size = 0])

----------------------------------------------------------------------------
\* Directories.

Entry(name, ino) == [name |-> name, ino |-> ino]
TOMBSTONE == 0

\* scan_dirent_block, with the tombstones: a block that holds no entries ends
\* the walk at its first record.
EntriesIn(d, b) == IF b \in Blocks /\ d[DataAt(b)].k = "dir" THEN d[DataAt(b)].e ELSE <<>>

\* The blocks of a directory that are there.
DirBlocks(in) ==
  SelectSeq([l \in 1 .. in.size |-> Bmap(in, l - 1)], LAMBDA b : b \in Blocks)

Concat(p, q) == p \o q
Listed(q, e) == IF e.ino = TOMBSTONE THEN q ELSE Append(q, e)

\* The live entries in the first n blocks of a directory.
Walk(d, in, n) ==
  FoldLeft(Listed, <<>>, FoldLeft(Concat, <<>>, [l \in 1 .. n |-> EntriesIn(d, Bmap(in, l - 1))]))

\* The blocks for which e4_bmap fails.
Misread(in) == {l \in 1 .. in.size : Bmap(in, l - 1) = MISREAD}

\* e4_iterate_dir: the live entries in the order they are met, up to the first
\* block that cannot be found.
IterateDir(d, dir) ==
  LET in == d[InodeAt(dir)]
  IN  IF in.mode # "dir" THEN <<>> ELSE Walk(d, in, Min(Misread(in) \cup {in.size + 1}) - 1)

\* e4_dir_lookup: 0 stands for -1.  The callback stops the walk with 1, which
\* e4_iterate_dir passes on and e4_dir_lookup takes for an error, so that a
\* name that is there is never found; the correction tells 1 from an error.
DirLookup(d, dir, name) ==
  LET es == IterateDir(d, dir)
      found == {n \in DOMAIN es : es[n].name = name}
  IN  IF found # {} /\ "lookup" \in Fixes THEN es[Min(found)].ino ELSE 0

\* e4_dir_empty steps over a block that cannot be found.
DirEmpty(d, dir) == LET in == d[InodeAt(dir)] IN Walk(d, in, in.size) = <<>>

\* Pass 1: the block has a tombstone or slack.
HasRoom(d, b) ==
  /\ d[DataAt(b)].k = "dir"
  /\ \/ Len(EntriesIn(d, b)) < DirSlots
     \/ \E i \in DOMAIN EntriesIn(d, b) : EntriesIn(d, b)[i].ino = TOMBSTONE

PutEntry(entries, e) ==
  LET free == {i \in DOMAIN entries : entries[i].ino = TOMBSTONE}
  IN  IF free # {} THEN [entries EXCEPT ![Min(free)] = e] ELSE Append(entries, e)

\* Pass 2: a fresh block, written and then attached; a full extent table is
\* found out only after the block was taken.
AttachDirBlock(s, dir, in, b) ==
  IF Len(in.runs) >= DirMax THEN Fail(s)
  ELSE SyncGd(WriteInode([s EXCEPT !.in = [in EXCEPT !.runs = Append(@, Run(in.size, b, 1)),
                                                     !.size = @ + 1]], dir), BlockGroup(b))

AddDirBlock(s, dir, in, e) ==
  IF ~in.ext THEN Fail(s)
  ELSE Then(AllocBlockNear(s, InodeGroup(dir)), LAMBDA a :
         AttachDirBlock(WriteBlock(a, DataAt(a.out), WithChecksum(a, Dirents(<<e>>))),
                        dir, in, a.out))

DirAddEntry(s, dir, e) ==
  LET in == ReadInode(s, dir)
      room == SelectSeq(DirBlocks(in), LAMBDA b : HasRoom(s.d, b))
      b == room[1]
  IN  IF in.indexed THEN Fail(s)
      ELSE IF room # <<>>
      THEN WriteBlock(s, DataAt(b), WithChecksum(s, Dirents(PutEntry(EntriesIn(s.d, b), e))))
      ELSE AddDirBlock(s, dir, in, e)

\* The entry's inode number becomes 0 and its room stays in the block.
DirRemoveEntry(s, dir, name) ==
  LET Has(b) == {i \in DOMAIN EntriesIn(s.d, b) :
                   EntriesIn(s.d, b)[i].name = name /\ EntriesIn(s.d, b)[i].ino # TOMBSTONE}
      holds == SelectSeq(DirBlocks(ReadInode(s, dir)), LAMBDA b : Has(b) # {})
      b == holds[1]
  IN  IF holds = <<>> THEN Fail(s)
      ELSE WriteBlock(s, DataAt(b), WithChecksum(s,
             Dirents([EntriesIn(s.d, b) EXCEPT ![Min(Has(b))].ino = TOMBSTONE])))
=============================================================================
