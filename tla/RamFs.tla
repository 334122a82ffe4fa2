------------------------------- MODULE RamFs --------------------------------
(***************************************************************************)
(* fs/ramfs.c over the heap that mm/heap.h promises (Allocator): a table of  *)
(* files, each with a heap block of its own that is replaced by every write. *)
(* Memory is modelled byte by byte, so that a block that is too small, was   *)
(* freed too early or is shared shows in what is read; a free byte holds the *)
(* pattern of memguard_poison_free.                                          *)
(***************************************************************************)
EXTENDS Integers, Sequences, FiniteSets, FiniteSetsExt

CONSTANTS
  RAMFS_MAX_FILES,
  Names, LongNames,   \* names, and those of RAMFS_NAME_LEN characters or more
  Chars, Contents,    \* bytes, and the sequences of them that callers write
  Rooms,              \* the buffers they read into
  MemSize             \* bytes of the heap

ASSUME RamFsAssumption ==
  /\ RAMFS_MAX_FILES \in Nat /\ MemSize \in Nat
  /\ LongNames \subseteq Names /\ Rooms \subseteq Nat
  /\ Contents \subseteq Seq(Chars)

VARIABLES
  ready, files,     \* the two variables of ramfs.c
  live,             \* the extents <<start, length>> the heap has handed out
  mem,              \* its bytes
  reply             \* the call made last and what it returned

vars == <<ready, files, live, mem, reply>>

NULL == -1
POISON == "poison"
Slots == 0 .. RAMFS_MAX_FILES - 1
Bytes == 0 .. MemSize - 1
EmptySlot == [used |-> FALSE, name |-> "", data |-> NULL, size |-> 0]
Answer(op, rc, out) == [op |-> op, rc |-> rc, out |-> out]

Init ==
  /\ ready = FALSE /\ files = [i \in Slots |-> EmptySlot]
  /\ live = {} /\ mem = [b \in Bytes |-> POISON]
  /\ reply = Answer("none", 0, <<>>)

----------------------------------------------------------------------------
\* The heap.

A == INSTANCE Allocator WITH
       Extents <- {e \in Bytes \X (1 .. MemSize) : e[1] + e[2] <= MemSize},
       Requests <- 1 .. MemSize, pending <- 0

\* The blocks kmalloc(n) may return.
Grants(n) == {<<a, n>> : a \in {a \in Bytes :
                /\ a + n <= MemSize
                /\ \A f \in live : A!Disjoint(<<a, n>>, f)}}

Inside(b, e) == b >= e[1] /\ b < e[1] + e[2]

\* The live block that starts at p, if there is one.
BlockAt(p) == {e \in live : e[1] = p}

----------------------------------------------------------------------------
\* The file system.

\* ramfs_init is called once, by standard_boot.
ramfs_init ==
  /\ ~ready /\ ready' = TRUE
  /\ files' = [i \in Slots |-> EmptySlot]
  /\ reply' = Answer("init", 0, <<>>)
  /\ UNCHANGED <<live, mem>>

\* The first entry of that name, NULL when there is none.
lookup(n) ==
  LET hits == {i \in Slots : files[i].used /\ files[i].name = n}
  IN  IF ready /\ hits # {} THEN Min(hits) ELSE NULL

Vacant == {i \in Slots : ~files[i].used}

\* Mutant: a name that is there already is not looked for.
MayCreateTwice(n) == ready /\ n \notin LongNames /\ Vacant # {}

MayCreate(n) == ready /\ n \notin LongNames /\ lookup(n) = NULL /\ Vacant # {}

ramfs_create(n) ==
  /\ IF MayCreate(n)
     THEN /\ files' = [files EXCEPT ![Min(Vacant)] =
                         [used |-> TRUE, name |-> n, data |-> NULL, size |-> 0]]
          /\ reply' = Answer("create", Min(Vacant), <<>>)
     ELSE UNCHANGED files /\ reply' = Answer("create", -1, <<>>)
  /\ UNCHANGED <<ready, live, mem>>

Wanted(c) == IF Len(c) = 0 THEN 1 ELSE Len(c)

\* memcpy into the fresh block, then kfree of the old one.
Copied(e, c, old) ==
  [b \in Bytes |-> IF b >= e[1] /\ b < e[1] + Len(c) THEN c[b - e[1] + 1]
                   ELSE IF \E f \in old : Inside(b, f) THEN POISON ELSE mem[b]]

\* Mutant: the old block is not freed.
NotReleased(i) == {}

\* What kfree(f->data) gives back: nothing before the first write.
Released(i) == BlockAt(files[i].data)

ramfs_write(n, c) ==
  LET i == lookup(n) IN
  /\ \/ /\ i # NULL
        /\ \E e \in Grants(Wanted(c)) :
             LET old == Released(i) IN
             /\ live' = (live \cup {e}) \ old
             /\ mem' = Copied(e, c, old)
             /\ files' = [files EXCEPT ![i].data = e[1], ![i].size = Len(c)]
        /\ reply' = Answer("write", 0, <<>>)
     \/ /\ reply' = Answer("write", -1, <<>>)    \* no such file, or no memory
        /\ UNCHANGED <<files, live, mem>>
  /\ UNCHANGED ready

ramfs_read(n, max) ==
  LET i == lookup(n)
      k == IF files[i].size < max THEN files[i].size ELSE max
  IN  /\ reply' = IF i = NULL THEN Answer("read", -1, <<>>)
                  ELSE Answer("read", k, [b \in 1 .. k |-> mem[files[i].data + b - 1]])
      /\ UNCHANGED <<ready, files, live, mem>>

ramfs_size(n) ==
  LET i == lookup(n)
  IN  /\ reply' = Answer("size", IF i = NULL THEN 0 ELSE files[i].size, <<>>)
      /\ UNCHANGED <<ready, files, live, mem>>

UsedSlots == {i \in Slots : files[i].used}

\* The first k entries in use, in the order of the table.
FirstUsed(k) ==
  {q \in [1 .. k -> UsedSlots] :
     /\ \A s, t \in 1 .. k : s < t => q[s] < q[t]
     /\ \A t \in 1 .. k, i \in UsedSlots : i < q[t] => \E s \in 1 .. k : q[s] = i}

ramfs_list(max) ==
  LET k == IF Cardinality(UsedSlots) < max THEN Cardinality(UsedSlots) ELSE max
  IN  /\ \E q \in FirstUsed(k) : reply' = Answer("list", k, [s \in 1 .. k |-> files[q[s]].name])
      /\ UNCHANGED <<ready, files, live, mem>>

Next ==
  \/ ramfs_init
  \/ \E n \in Names : \/ ramfs_create(n) \/ ramfs_size(n)
                      \/ \E c \in Contents : ramfs_write(n, c)
                      \/ \E max \in Rooms : ramfs_read(n, max)
  \/ \E max \in Rooms : ramfs_list(max)

Spec == Init /\ [][Next]_vars

----------------------------------------------------------------------------
\* The bytes of a file.
Stored(i) == [b \in 1 .. files[i].size |-> mem[files[i].data + b - 1]]

F == INSTANCE FileStore WITH
       Capacity <- RAMFS_MAX_FILES,
       store <- [n \in {n \in Names : lookup(n) # NULL} |-> Stored(lookup(n))],
       reply <- IF reply.op = "create" /\ reply.rc >= 0 THEN [reply EXCEPT !.rc = 0] ELSE reply

\* Through any sequence of calls, with the heap exhausted at any of them,
\* ramfs.c is the store FileStore describes: a name is created once, a write
\* replaces a content as a whole or not at all, and a read, a size and a listing
\* return what was written, whatever blocks the heap has reused meanwhile.
ImplementsFileStore == F!Spec

\* Every block the heap has handed out belongs to one file, which holds its
\* address and does not reach past its end: ramfs_write frees the block it
\* replaces, and only that.
BlocksOwned ==
  LET owners(e) == {i \in Slots : files[i].used /\ files[i].data = e[1]}
  IN  /\ \A e \in live : Cardinality(owners(e)) = 1
      /\ \A i \in Slots : files[i].used /\ files[i].data # NULL =>
           \E e \in live : e[1] = files[i].data /\ files[i].size <= e[2]
=============================================================================
