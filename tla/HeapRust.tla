------------------------------ MODULE HeapRust ------------------------------
(***************************************************************************)
(* The Rust kernel allocator, mm/alloc/src/lib.rs, linked in place of        *)
(* mm/heap_c.c on x86_64.  Memory is modelled as in HeapC: granules of 16    *)
(* bytes, `magic' saying what a granule holds.                              *)
(*                                                                         *)
(* Links are offsets from `aligned' where kmalloc stores and reads them, but *)
(* kfree stores the ADDRESS of the header it frees and compares links with   *)
(* it.  An address used as an offset leads hdr_at out of the region: what is *)
(* read or written there is not the heap's, and pc is "wild" from then on.   *)
(* Nothing runs between the steps of a call, so what follows a walk (the     *)
(* memset of kzalloc, the copy of krealloc) belongs to its last step.        *)
(***************************************************************************)
EXTENDS Integers

CONSTANTS
  WORD,           \* number of values of a u32
  Base,           \* the arguments of heap_init
  RegionSize,
  Sizes           \* the sizes callers ask for

ALIGN == 16
HDR_SIZE == 16
END_OF_LIST == WORD - 1
NULL == -1

align_up(v) == ((v + ALIGN - 1) \div ALIGN) * ALIGN

aligned == align_up(Base)
span == align_up(RegionSize) - (aligned - Base)

\* heap_init returns false, and the kernel panics, below HDR_SIZE bytes; the
\* kernels reserve 4 MiB above the first megabyte.
ASSUME RegionAssumption ==
  /\ WORD \in Nat
  /\ RegionSize \in Nat /\ RegionSize >= 3 * HDR_SIZE
  /\ Base \in Nat /\ Base > RegionSize + ALIGN
  /\ Base + RegionSize + 2 * ALIGN < WORD

ASSUME CallerAssumption == Sizes \subseteq 1 .. WORD - 1

Offs == { o \in 0 .. span - 1 : o % ALIGN = 0 }
Addresses == { aligned + o : o \in Offs }
Links == Offs \cup Addresses \cup {END_OF_LIST}

VARIABLES
  magic, size, next_off,    \* the granules of the region
  free_head,                \* ST.free_head
  pc, op,                   \* where the running call stands, and which it is
  want,                     \* kmalloc: the size asked for
  prev, cur, off,           \* the list walks, and the block kfree frees
  rptr,                     \* krealloc: the old block
  granted,                  \* history: <<header, size asked for>>, not freed
  blocks                    \* history: every header handed out so far

mem == <<magic, size, next_off>>
vars == <<mem, free_head, pc, op, want, prev, cur, off, rptr, granted, blocks>>

Payload(b, n) == { o \in Offs : b + HDR_SIZE <= o /\ o < b + HDR_SIZE + n }

Init ==
  /\ magic = [o \in Offs |-> IF o = 0 THEN "FREE" ELSE "RAW"]
  /\ size = [o \in Offs |-> IF o = 0 THEN span - HDR_SIZE ELSE 0]
  /\ next_off = [o \in Offs |-> END_OF_LIST]
  /\ free_head = 0
  /\ pc = "idle" /\ op = "none" /\ want = 0
  /\ prev = NULL /\ cur = END_OF_LIST /\ off = NULL /\ rptr = NULL
  /\ granted = {} /\ blocks = {}

Return ==
  /\ pc' = "idle" /\ op' = "none" /\ want' = 0
  /\ prev' = NULL /\ cur' = END_OF_LIST /\ off' = NULL /\ rptr' = NULL

Wild ==
  /\ pc' = "wild"
  /\ UNCHANGED <<mem, free_head, op, want, prev, cur, off, rptr, granted, blocks>>

----------------------------------------------------------------------------
(* kmalloc, kzalloc, and the first half of krealloc *)

StartAlloc(entry, s, p) ==
  /\ pc = "idle"
  /\ pc' = "alloc" /\ op' = entry /\ want' = s /\ rptr' = p
  /\ prev' = NULL /\ cur' = free_head
  /\ UNCHANGED <<mem, free_head, off, granted, blocks>>

kmalloc(s) == StartAlloc("kmalloc", s, NULL)
kzalloc(s) == StartAlloc("kzalloc", s, NULL)

\* krealloc first asks block_size_of for a live header.
krealloc(p, s) == magic[p] = "USED" /\ StartAlloc("krealloc", s, p)

Want == align_up(want) % WORD

AllocWalk ==
  /\ pc = "alloc" /\ cur \in Offs /\ magic[cur] = "FREE"
  /\ size[cur] < Want
  /\ prev' = cur /\ cur' = next_off[cur]
  /\ UNCHANGED <<mem, free_head, pc, op, want, off, rptr, granted, blocks>>

\* Mutant: the remainder is placed without the room for the first header.
SplitOffNoHeader == cur + Want

split_off == cur + HDR_SIZE + Want

\* Mutant: the split is made although no header fits into the remainder.
SplitsAlways == size[cur] >= Want

Splits == size[cur] - Want >= HDR_SIZE + ALIGN

\* What kzalloc and krealloc then write into the new block; m is the memory
\* with the headers in place.
Filled(m) ==
  LET n == IF op = "krealloc" /\ size[rptr] < want THEN size[rptr] ELSE want
      p == Payload(cur, n)
  IN [o \in Offs |->
        IF o \notin p \/ op = "kmalloc" THEN m[o]
        ELSE IF op = "kzalloc" THEN "ZERO" ELSE m[o - cur + rptr]]

\* The header of the block handed out keeps the size it had.
AllocTake ==
  /\ pc = "alloc" /\ cur \in Offs /\ magic[cur] = "FREE"
  /\ size[cur] >= Want
  /\ LET rest == IF Splits THEN split_off ELSE next_off[cur]
         made == IF Splits
                 THEN [next_off EXCEPT ![rest] = next_off[cur], ![cur] = rest]
                 ELSE next_off
     IN /\ magic' = Filled(IF Splits THEN [magic EXCEPT ![rest] = "FREE", ![cur] = "USED"]
                           ELSE [magic EXCEPT ![cur] = "USED"])
        /\ size' = IF Splits THEN [size EXCEPT ![rest] = size[cur] - Want - HDR_SIZE]
                   ELSE size
        /\ IF prev = NULL THEN free_head' = rest /\ next_off' = made
           ELSE next_off' = [made EXCEPT ![prev] = rest] /\ UNCHANGED free_head
  /\ granted' = granted \cup {<<cur, want>>}
  /\ blocks' = blocks \cup {cur}
  /\ IF op = "krealloc"
     THEN pc' = "release" /\ UNCHANGED <<op, want, prev, cur, off, rptr>>
     ELSE Return

\* The list ends, or a link leads to a header that is not MAGIC_FREE.
AllocFail ==
  /\ pc = "alloc"
  /\ cur \in Offs => magic[cur] # "FREE"
  /\ Return
  /\ UNCHANGED <<mem, free_head, granted, blocks>>

\* A link that leads out of the region may find anything there.
AllocStray == pc = "alloc" /\ cur \in Addresses /\ Wild

----------------------------------------------------------------------------
(* kfree *)

\* Mutant: the freed header keeps its magic.
NotMarked(p) == magic

Marked(p) == [magic EXCEPT ![p] = "FREE"]

EnterFree(entry, p) ==
  /\ magic[p] = "USED"
  /\ magic' = Marked(p)
  /\ granted' = { g \in granted : g[1] # p }
  /\ pc' = "free" /\ op' = entry /\ off' = p
  /\ prev' = NULL /\ cur' = free_head
  /\ UNCHANGED <<size, next_off, free_head, want, rptr, blocks>>

\* Callers pass what they were given, also twice; a header that is not live is
\* ignored.
kfree(p) == pc = "idle" /\ EnterFree("kfree", p)

ReallocFree == pc = "release" /\ EnterFree("krealloc", rptr)

head == aligned + off

FreeWalk ==
  /\ pc = "free"
  /\ cur # END_OF_LIST /\ cur < head
  /\ IF cur \in Offs
     THEN /\ prev' = cur /\ cur' = next_off[cur]
          /\ UNCHANGED <<mem, free_head, pc, op, want, off, rptr, granted, blocks>>
     ELSE Wild

\* A link that touches the freed block from above: its size is read through
\* hdr_at, out of the region.
MergeRight == cur # END_OF_LIST /\ head + HDR_SIZE + size[off] = cur

MergeLeft == prev # NULL /\ aligned + prev + HDR_SIZE + size[prev] = head

FreeLink ==
  /\ pc = "free"
  /\ cur = END_OF_LIST \/ cur >= head
  /\ IF MergeRight THEN Wild
     ELSE /\ free_head' = IF prev = NULL THEN head ELSE free_head
          /\ next_off' = IF prev = NULL THEN [next_off EXCEPT ![off] = cur]
                         ELSE [next_off EXCEPT ![off] = cur,
                                               ![prev] = IF MergeLeft THEN cur ELSE head]
          /\ size' = IF MergeLeft
                     THEN [size EXCEPT ![prev] = size[prev] + HDR_SIZE + size[off]]
                     ELSE size
          /\ Return
          /\ UNCHANGED <<magic, granted, blocks>>

----------------------------------------------------------------------------
\* The owner writes the bytes it asked for.
UserWrite ==
  /\ pc = "idle"
  /\ \E g \in granted :
       magic' = [o \in Offs |-> IF o \in Payload(g[1], g[2]) THEN "USER" ELSE magic[o]]
  /\ UNCHANGED <<size, next_off, free_head, pc, op, want, prev, cur, off, rptr, granted, blocks>>

Next ==
  \/ \E s \in Sizes : kmalloc(s) \/ kzalloc(s)
  \/ \E p \in blocks, s \in Sizes : krealloc(p, s)
  \/ \E p \in blocks : kfree(p)
  \/ AllocWalk \/ AllocTake \/ AllocFail \/ AllocStray
  \/ ReallocFree \/ FreeWalk \/ FreeLink
  \/ UserWrite

Spec == Init /\ [][Next]_vars

----------------------------------------------------------------------------
(* Properties *)

TypeOK ==
  /\ magic \in [Offs -> {"RAW", "USED", "FREE", "ZERO", "USER"}]
  /\ size \in [Offs -> 0 .. WORD - 1]
  /\ next_off \in [Offs -> Links] /\ free_head \in Links
  /\ pc \in {"idle", "alloc", "release", "free", "wild"}
  /\ op \in {"none", "kmalloc", "kzalloc", "krealloc", "kfree"}
  /\ want \in Sizes \cup {0}
  /\ prev \in Offs \cup {NULL} /\ cur \in Links
  /\ off \in Offs \cup {NULL} /\ rptr \in Offs \cup {NULL}
  /\ granted \subseteq Offs \X Sizes /\ blocks \subseteq Offs

\* While every access stays in the region, what kmalloc has handed out lies in
\* the region and is disjoint, headers included, however blocks were freed.
GrantsDisjoint ==
  pc # "wild" =>
    \A g \in granted :
      /\ g[1] + HDR_SIZE + g[2] <= span
      /\ \A h \in granted : g[1] < h[1] => g[1] + HDR_SIZE + g[2] <= h[1]

\* Of the pointers callers were given, kfree and krealloc accept the live ones: a
\* second kfree of a pointer is ignored.
DoubleFreeCaught ==
  pc # "wild" =>
    \A o \in blocks : magic[o] = "USED" <=> \E g \in granted : g[1] = o
=============================================================================
