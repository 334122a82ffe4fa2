------------------------------- MODULE MCExt4 -------------------------------
(* Two groups of four blocks and four inodes. *)
EXTENDS Ext4

MCPaths == {<<"a">>, <<"d">>, <<"d", "a">>}
MCContents == {"e", "x", "y", "z"}
MCSizeOf(c) == CASE c = "e" -> 0 [] c = "x" -> 1 [] c = "y" -> 2 [] c = "z" -> 3

Raw(v) == [t |-> "raw", v |-> v, headless |-> FALSE]
Headless(v) == [t |-> "raw", v |-> v, headless |-> TRUE]
Tag(to, last, escape) == [to |-> to, last |-> last, escape |-> escape]
Descriptor(seq, tags) == [t |-> "desc", seq |-> seq, tags |-> tags]
CommitRec(seq) == [t |-> "commit", seq |-> seq]
RevokeRec(blocks) == [t |-> "revoke", blocks |-> blocks]
File(c) == FileData(c, 0)

\* Targets that no block of the model has: block 0 and one past the end.
BlockZero == <<"zero", 0>>
Beyond == <<"beyond", 0>>

\* Transaction 7 logs blocks 3, 5 and 4 (its last tag), 8 logs 3 again, escaped,
\* and revokes 5; 9 is not committed.
TheLog == <<Raw(File("j1")),
            Descriptor(7, <<Tag(DataAt(3), FALSE, FALSE), Tag(DataAt(5), FALSE, FALSE),
                            Tag(DataAt(4), TRUE, FALSE)>>),
            Raw(File("j3")), Raw(File("j5")), Raw(File("j4")), CommitRec(7),
            RevokeRec({DataAt(5), Beyond}),
            Descriptor(8, <<Tag(DataAt(3), FALSE, TRUE), Tag(DataAt(6), FALSE, FALSE),
                            Tag(Beyond, FALSE, FALSE)>>),
            Headless(File("k3")), Raw(File("k6")), CommitRec(8),
            Descriptor(9, <<Tag(DataAt(6), FALSE, FALSE), Tag(BlockZero, FALSE, FALSE)>>),
            Raw(File("l6"))>>

Journal(order, log) ==
  [order |-> order, first |-> 2, start |-> 2, sequence |-> 7, log |-> log]

Plain ==
  LET used == {1, 2, 3, 4, 6}
      bbm(g) == {b \in used : BlockGroup(b) = g}
      ibm(g) == IF g = 0 THEN {1, 2, 3, 4} ELSE {7}
      inode(i) ==
        CASE i = 2 -> [NoInode EXCEPT !.mode = "dir", !.size = 1, !.runs = <<Run(0, 1, 1)>>]
          [] i = 3 -> [NoInode EXCEPT !.mode = "dir", !.size = 1, !.runs = <<Run(0, 2, 1)>>]
          [] i = 4 -> [NewFile EXCEPT !.ext = FALSE, !.size = 2, !.runs = <<Run(0, 3, 1)>>,
                                      !.deep = <<4>>]
          [] OTHER -> NoInode
      data(b) ==
        CASE b = 1 -> Dirents(<<Entry("d", 3)>>)
          [] b = 2 -> Dirents(<<Entry("a", 4)>>)
          [] b = 3 -> FileData("o", 0)
          [] b = 4 -> Pointers(<<6>>)
          [] b = 6 -> FileData("o", 1)
          [] OTHER -> ZERO
      value(a) ==
        CASE a[1] = "super" -> [magic |-> TRUE, log |-> 0, geometry |-> TRUE,
                                incompat |-> {"extents"}, bigalloc |-> FALSE,
                                csum |-> FALSE, journal |-> TRUE, blocks |-> 3, inodes |-> 4]
          [] a[1] = "desc" -> [blocks |-> BlocksPerGroup - Cardinality(bbm(a[2])),
                               inodes |-> IF a[2] = 0 THEN 0 ELSE 4, uninit |-> a[2] = 1]
          [] a[1] = "bbitmap" -> bbm(a[2])
          [] a[1] = "ibitmap" -> ibm(a[2])
          [] a[1] = "inode" -> inode(a[2])
          [] a[1] = "data" -> data(a[2])
          [] a[1] = "jsb" -> Journal("little", <<>>)
  IN  [a \in Addresses |-> value(a)]

\* The volume left by a crash of Linux: /d/a is an ordinary file of two blocks.
Crashed(order) ==
  [Plain EXCEPT ![Super].incompat = @ \cup {"recover"},
                ![InodeAt(4)] = [NewFile EXCEPT !.size = 2, !.runs = <<Run(0, 3, 2)>>],
                ![DataAt(4)] = FileData("o", 1), ![DataAt(6)] = ZERO,
                ![BlockBitmap(1)] = {}, ![Desc(1)].blocks = 4, ![Super].blocks = 4,
                ![JournalSuper] = Journal(order, TheLog)]

\* The same with a transaction that gives /d/a a third block: bitmap, descriptor
\* and superblock are logged with the inode.
GrownLog ==
  <<Raw(File("j1")),
    Descriptor(7, <<Tag(BlockBitmap(1), FALSE, FALSE), Tag(Desc(1), FALSE, FALSE),
                    Tag(InodeAt(4), FALSE, FALSE), Tag(Super, FALSE, FALSE),
                    Tag(DataAt(6), FALSE, FALSE), Tag(BlockZero, FALSE, FALSE)>>),
    Raw({6}), Raw([blocks |-> 3, inodes |-> 4, uninit |-> TRUE]),
    Raw([NewFile EXCEPT !.size = 3, !.runs = <<Run(0, 3, 2), Run(2, 6, 1)>>]),
    Raw([Crashed("little")[Super] EXCEPT !.blocks = 3]),
    Raw(FileData("o", 2)), CommitRec(7)>>
Grown == [Crashed("little") EXCEPT ![JournalSuper] = Journal("little", GrownLog)]

\* A legacy directory that reaches past its direct blocks.
Legacy ==
  [Plain EXCEPT ![InodeAt(3)].ext = FALSE, ![InodeAt(3)].size = 2, ![InodeAt(3)].deep = <<5>>,
                ![DataAt(5)] = Pointers(<<8>>), ![DataAt(8)] = Dirents(<<>>),
                ![BlockBitmap(1)] = {5, 6, 8}, ![Desc(1)].blocks = 1, ![Super].blocks = 1]

\* Six volumes that can be mounted and five that cannot.
MCVolumes == {Plain, Crashed("little"), Grown, Legacy,
              [Crashed("big") EXCEPT ![InodeAt(3)].indexed = TRUE],
              [Plain EXCEPT ![Super].csum = TRUE, ![Super].incompat = @ \cup {"recover"},
                            ![Super].journal = FALSE],
              [Plain EXCEPT ![Super].incompat = @ \cup {"meta_bg"}],
              [Plain EXCEPT ![Super].log = 4], [Plain EXCEPT ![Super].bigalloc = TRUE],
              [Plain EXCEPT ![Super].magic = FALSE], [Plain EXCEPT ![Super].geometry = FALSE]}

\* Those with a journal to replay: as Linux writes it, with a tag marked last, and
\* with logged descriptors.
LinuxVolume == {Crashed("big")}
LastTagVolume == {Crashed("little")}
GrownVolume == {Grown}
PendingVolumes == LinuxVolume \cup LastTagVolume \cup GrownVolume

\* Nothing is claimed of a volume once a replace was cut short or the journal was
\* left for later: the search does not go on from there.  Two cuts leave room for
\* two calls; where /d is indexed or a legacy directory, or there are checksums, one
\* call less shows what is different, and where the journal logged more than files
\* it is the replay.
Limit == IF Stale(first) THEN 2
         ELSE IF first[Super].csum \/ first[InodeAt(3)].indexed \/ ~first[InodeAt(3)].ext THEN 3
         ELSE 4
Explored == ~hist.torn /\ ~hist.skipped /\ hist.calls + hist.cuts <= Limit
=============================================================================
