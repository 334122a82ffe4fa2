---------------------------- MODULE Ext4Journal -----------------------------
(***************************************************************************)
(* fs/ext4_journal.c: the journal is read in two passes, the blocks of       *)
(* committed transactions are copied to their places and the journal is      *)
(* emptied.  What the journal holds is a sequence of records in the driver's *)
(* own reading of the format:                                                *)
(*   [t |-> "desc", seq, tags]  a descriptor, its contents in the blocks     *)
(*                              that follow it; a tag is [to, last, escape]  *)
(*   [t |-> "commit", seq]      [t |-> "revoke", blocks]                     *)
(*   [t |-> "raw", v, headless] a content block, its first word zeroed when  *)
(*                              it would have read as a journal record       *)
(* The target of a tag is an address of Ext4Core or something else: block 0, *)
(* or one past the end of the device.  (Block 0 holds the superblock if      *)
(* blocks are larger than 1 KiB; it is then never restored.)                 *)
(***************************************************************************)
EXTENDS Ext4Core

CONSTANT MaxTrackedSeqs    \* MAX_TRACKED_SEQS, 256

ASSUME JournalAssumption == MaxTrackedSeqs \in Nat \ {0}

\* The journal superblock is read little-endian, and a log that starts before
\* block 2 is refused.
Bogus(j) == j.order # "little" \/ j.first < 2 \/ j.first > Len(j.log) \/ j.start > Len(j.log)

\* The records both passes walk over: from first to the end, whatever start
\* and sequence say.
Scanned(j) == j.first .. Len(j.log)

\* The sequence numbers of the commit records, in the order they are met.
Commits(j) ==
  LET recs == SelectSeq(SubSeq(j.log, j.first, Len(j.log)), LAMBDA r : r.t = "commit")
  IN  [n \in DOMAIN recs |-> recs[n].seq]

\* note_commit: the first MaxTrackedSeqs of them are remembered.
Committed(j) ==
  FoldLeft(LAMBDA seen, q : IF Cardinality(seen) < MaxTrackedSeqs THEN seen \cup {q} ELSE seen,
           {}, Commits(j))

\* The blocks that any revoke record names; one outside the volume is ignored.
Revoked(j) ==
  Addresses \cap UNION {j.log[i].blocks : i \in {i \in Scanned(j) : j.log[i].t = "revoke"}}

\* What a content block is written back as.
Content(rec, escape) ==
  IF rec.t # "raw" THEN JUNK
  ELSE IF rec.headless /\ ~escape THEN JUNK
  ELSE rec.v

\* One tag of a descriptor: whatever block of the volume it names is written.
\* The loop leaves at the tag marked last, before it is applied, at the end of
\* the journal, at target 0 and at a target that e4_write_block refuses.
ApplyTag(acc, tag) ==
  IF acc.stop \/ acc.at > Len(acc.j.log) \/ tag.last \/ tag.to \notin Addresses
  THEN [acc EXCEPT !.stop = TRUE]
  ELSE [acc EXCEPT
          !.at = @ + 1,
          !.s = IF tag.to \in Revoked(acc.j) THEN @
                ELSE WriteBlock(@, tag.to, Content(acc.j.log[acc.at], tag.escape))]

\* Pass 2 at record i: a committed descriptor is applied and its contents are
\* stepped over.
ApplyRecord(acc, i) ==
  LET r == acc.j.log[i]
  IN  IF i < acc.at \/ r.t # "desc" THEN acc
      ELSE IF r.seq \notin Committed(acc.j) THEN acc
      ELSE FoldLeft(ApplyTag, [acc EXCEPT !.at = i + 1, !.stop = FALSE], r.tags)

\* Mutant: RECOVER is left on.
ResetKeepsFlag(s, heap) ==
  IF heap THEN WriteBlock(s, JournalSuper, [s.d[JournalSuper] EXCEPT !.start = 0]) ELSE s

\* e4_journal_reset: the journal's superblock, then RECOVER off.
Reset(s, heap) ==
  LET j == s.d[JournalSuper]
      last == Max(ToSet(Commits(j)) \cup {0})
      s1 == WriteBlock(s, JournalSuper, [j EXCEPT !.start = 0, !.sequence = last + 1])
  IN  IF ~heap THEN s
      ELSE SyncSuperblock([s1 EXCEPT !.m.sb.incompat = @ \ {"recover"}])

\* Mutant: the journal is emptied before it is applied.
ResetFirst(s, heap, resetHeap) ==
  LET j == s.d[JournalSuper]
      s1 == Reset(s, resetHeap)
      acc == FoldLeft(ApplyRecord, [s |-> s1, j |-> j, at |-> 0, stop |-> FALSE],
                      [n \in 1 .. Cardinality(Scanned(j)) |-> j.first + n - 1])
  IN  IF ~s.m.sb.journal \/ ~heap THEN Fail(s) ELSE IF Bogus(j) THEN Fail(s) ELSE acc.s

\* e4_journal_replay; heap and resetHeap: whether the buffers of the replay and
\* of the reset could be allocated.
Replay(s, heap, resetHeap) ==
  LET j == s.d[JournalSuper]
      acc == FoldLeft(ApplyRecord, [s |-> s, j |-> j, at |-> 0, stop |-> FALSE],
                      [n \in 1 .. Cardinality(Scanned(j)) |-> j.first + n - 1])
  IN  IF ~s.m.sb.journal THEN Done(s)
      ELSE IF ~heap \/ Bogus(j) THEN Fail(s)
      ELSE Reset(IF Committed(j) = {} THEN s ELSE acc.s, resetHeap)
----------------------------------------------------------------------------
\* What is in a log.

\* The tags the driver comes to: those before the one at which it leaves.
Live(tags) ==
  1 .. Min({n \in DOMAIN tags : tags[n].last \/ tags[n].to \notin Addresses} \cup {Len(tags) + 1}) - 1

\* All the tags of a descriptor, the one marked last included.
Whole(tags) ==
  {n \in DOMAIN tags : tags[n].to \in Addresses /\ \A m \in 1 .. n - 1 : ~tags[m].last}

\* The descriptors of the transactions that have a commit record.
Transactions(j) ==
  {i \in Scanned(j) : j.log[i].t = "desc" /\ j.log[i].seq \in ToSet(Commits(j))}

\* Their tags, as <<position of the content, tag>>: those the driver comes to,
\* and all of them.
LiveTags(j) ==
  UNION {{<<i + n, j.log[i].tags[n]>> : n \in Live(j.log[i].tags)} : i \in Transactions(j)}
CommittedTags(j) ==
  UNION {{<<i + n, j.log[i].tags[n]>> : n \in Whole(j.log[i].tags)} : i \in Transactions(j)}

LoggedFor(j, a) == {x \in CommittedTags(j) : x[2].to = a /\ a \notin Revoked(j)}
LoggedContent(j, x) == Content(j.log[x[1]], x[2].escape)

\* The targets of the tags the driver does not come to.
Dropped(j) == {x[2].to : x \in CommittedTags(j) \ LiveTags(j)}

\* A log the driver can follow: it does not wrap around, the contents of a
\* transaction are never taken for records of the journal, the journal does not
\* log itself, and note_commit has room for every commit record.  (The bit of a
\* target far outside the volume would be read behind revbits; no log has one.)
WellFormed(j) ==
  /\ j.first \in Nat /\ Len(j.log) \in Nat
  /\ Committed(j) = ToSet(Commits(j))
  /\ \A i \in Transactions(j) :
       /\ Len(j.log[i].tags) \in Nat /\ DOMAIN j.log[i].tags = 1 .. Len(j.log[i].tags)
       /\ \A n \in Whole(j.log[i].tags) : /\ i + n <= Len(j.log) /\ j.log[i + n].t = "raw"
                                          /\ j.log[i].tags[n].to # JournalSuper
=============================================================================
