------------------------------- MODULE HeapC -------------------------------
(***************************************************************************)
(* The C kernel allocator, mm/heap_c.c: a first-fit free list over one      *)
(* region, every block led by a 16-byte header, free blocks kept in address *)
(* order so that neighbours coalesce.                                       *)
(*                                                                         *)
(* Memory is a row of 16-byte granules named by their offset from hbase.    *)
(* `magic' says what a granule holds: a header (MAGIC_USED, MAGIC_FREE), or *)
(* payload bytes (RAW at boot, ZERO, POISON, USER).  `size' and `next_off'  *)
(* are the header fields of that granule; they mean nothing where payload   *)
(* was written.  The header's `used' word is written together with magic    *)
(* in every place and always says the same, so magic stands for both.       *)
(*                                                                         *)
(* A call is executed in steps, one per iteration of its list walk, because *)
(* the walk is what a broken list breaks.  The kernel calls the heap from   *)
(* one thread and never from an interrupt handler, so one call runs at a    *)
(* time.  The counters alloc_count, free_count and errors are never read in *)
(* the tree: `outcome' says instead how the last call ended.                *)
(***************************************************************************)
EXTENDS Integers, FiniteSets, FiniteSetsExt

CONSTANTS
  WORD,           \* number of values of a u32 (2^32 on the machine)
  SIZE_T,         \* number of values of a size_t: WORD on x86, more on 64 bits
  RegionSize,     \* the size argument of heap_init
  Sizes,          \* the sizes callers ask for
  StaleRealloc    \* do callers also pass freed pointers to krealloc?

ALIGN == 16
HDR_SIZE == 16
END_OF_LIST == WORD - 1

\* u32 and size_t arithmetic.
U32(x) == x % WORD
SizeT(x) == x % SIZE_T

align_up(v) == LET x == U32(v + ALIGN - 1) IN x - (x % ALIGN)

hsize == align_up(RegionSize)

(***************************************************************************)
(* What the specification assumes of its constants.                        *)
(***************************************************************************)
ASSUME WidthAssumption ==
  /\ WORD \in Nat /\ SIZE_T \in Nat
  /\ WORD % ALIGN = 0 /\ SIZE_T >= WORD

ASSUME RegionAssumption ==
  /\ RegionSize \in Nat /\ RegionSize >= 2 * HDR_SIZE
  /\ 2 * RegionSize + 32 < WORD        \* (s32)off < 0 is never a block

ASSUME CallerAssumption ==
  /\ Sizes \subseteq 0 .. WORD - 1
  /\ StaleRealloc \in BOOLEAN

\* Requests for which align_up and need + HDR_SIZE + ALIGN cannot wrap.
SafeRequests == \A s \in Sizes : s + 3 * ALIGN <= WORD

Offs == { o \in 0 .. hsize - 1 : o % ALIGN = 0 }

Contents == {"RAW", "USED", "FREE", "ZERO", "POISON", "USER"}

VARIABLES
  magic, size, next_off,    \* the granules of the region
  free_head,                \* static u32 free_head
  used_bytes, free_bytes,   \* struct heap_stats
  high_water,
  pc,                       \* where the running call stands
  op,                       \* the entry point that is running
  want, need,               \* kmalloc: size and its rounding
  prev_off, cur_off,        \* the list walk of kmalloc and of kfree
  off,                      \* kfree: the block being freed
  rptr, fresh,              \* krealloc: the old block and the new one
  outcome,                  \* how the last call ended
  blocks                    \* history: the offsets that are block headers

mem == <<magic, size, next_off>>
stats == <<used_bytes, free_bytes, high_water>>
locals == <<want, need, prev_off, cur_off, off, rptr, fresh>>
vars == <<mem, free_head, stats, pc, op, locals, outcome, blocks>>

\* The payload granules of the n bytes behind the header at b.
Payload(b, n) == { o \in Offs : b + HDR_SIZE <= o /\ o < b + HDR_SIZE + n }

Fill(where, what) ==
  [o \in Offs |-> IF o \in where THEN what ELSE magic[o]]

Live == { o \in Offs : magic[o] = "USED" }

----------------------------------------------------------------------------

Init ==
  /\ magic = [o \in Offs |-> "RAW"]
  /\ size = [o \in Offs |-> 0]
  /\ next_off = [o \in Offs |-> 0]
  /\ free_head = END_OF_LIST
  /\ used_bytes = 0 /\ free_bytes = 0 /\ high_water = 0
  /\ pc = "boot" /\ op = "none"
  /\ want = 0 /\ need = 0
  /\ prev_off = END_OF_LIST /\ cur_off = END_OF_LIST
  /\ off = END_OF_LIST /\ rptr = END_OF_LIST /\ fresh = END_OF_LIST
  /\ outcome = "none"
  /\ blocks = {}

heap_init ==
  /\ pc = "boot"
  /\ free_head' = 0
  /\ magic' = [magic EXCEPT ![0] = "FREE"]
  /\ size' = [size EXCEPT ![0] = hsize - HDR_SIZE]
  /\ next_off' = [next_off EXCEPT ![0] = END_OF_LIST]
  /\ free_bytes' = hsize - HDR_SIZE
  /\ blocks' = {0}
  /\ pc' = "idle"
  /\ UNCHANGED <<used_bytes, high_water, op, locals, outcome>>

\* A call ends: its locals go out of scope.
Return(how) ==
  /\ pc' = "idle" /\ op' = "none"
  /\ want' = 0 /\ need' = 0
  /\ prev_off' = END_OF_LIST /\ cur_off' = END_OF_LIST
  /\ off' = END_OF_LIST /\ rptr' = END_OF_LIST /\ fresh' = END_OF_LIST
  /\ outcome' = how

----------------------------------------------------------------------------
(* kmalloc *)

\* The early return of kmalloc: no size, or no heap yet.
kmalloc_refused(s) ==
  /\ \/ pc = "boot"
     \/ pc = "idle" /\ s = 0
  /\ outcome' = "NULL"
  /\ UNCHANGED <<mem, free_head, stats, pc, op, locals, blocks>>

\* Entering kmalloc, from a caller or from kzalloc and krealloc.
StartAlloc(entry, s, p) ==
  /\ pc = "idle"
  /\ s # 0
  /\ pc' = "alloc" /\ op' = entry
  /\ want' = s /\ need' = align_up(s)
  /\ prev_off' = END_OF_LIST /\ cur_off' = free_head
  /\ rptr' = p
  /\ outcome' = "none"
  /\ UNCHANGED <<mem, free_head, stats, off, fresh, blocks>>

kmalloc(s) == StartAlloc("kmalloc", s, END_OF_LIST)
kzalloc(s) == StartAlloc("kzalloc", s, END_OF_LIST)

\* Mutant: the header is counted on the wrong side of the comparison.
FitsWrongSide(b) == size[b] + HDR_SIZE >= need

\* cur->size >= need + HDR_SIZE, and whether the remainder is split off.
Fits(b) == size[b] >= SizeT(need + HDR_SIZE)
Splits(b) == size[b] >= SizeT(need + HDR_SIZE + ALIGN)

\* Mutant: the walk forgets to remember the block it leaves.
AllocWalkKeepsPrev ==
  /\ pc = "alloc"
  /\ cur_off # END_OF_LIST
  /\ ~Fits(cur_off)
  /\ cur_off' = next_off[cur_off]
  /\ UNCHANGED <<mem, free_head, stats, pc, op, want, need, prev_off, off, rptr,
                 fresh, outcome, blocks>>

\* One iteration of the walk that moves on.
AllocWalk ==
  /\ pc = "alloc"
  /\ cur_off # END_OF_LIST
  /\ ~Fits(cur_off)
  /\ prev_off' = cur_off
  /\ cur_off' = next_off[cur_off]
  /\ UNCHANGED <<mem, free_head, stats, pc, op, want, need, off, rptr,
                 fresh, outcome, blocks>>

\* Cut `cur_off' down to need bytes and put a block of rest bytes at new_off.
SplitAs(new_off, rest) ==
  /\ magic' = [magic EXCEPT ![new_off] = "FREE", ![cur_off] = "USED"]
  /\ size' = [size EXCEPT ![new_off] = rest, ![cur_off] = need]
  /\ blocks' = blocks \cup {new_off}
  /\ LET linked == [next_off EXCEPT ![new_off] = next_off[cur_off],
                                    ![cur_off] = new_off]
     IN IF prev_off = END_OF_LIST
        THEN free_head' = new_off /\ next_off' = linked
        ELSE /\ next_off' = [linked EXCEPT ![prev_off] = new_off]
             /\ UNCHANGED free_head

\* Mutant: the remainder is placed by the block's old size.
SplitByOldSize ==
  SplitAs(U32(cur_off + HDR_SIZE + size[cur_off]), U32(size[cur_off] - need - HDR_SIZE))

\* Mutant: the remainder forgets the room of its own header.
SplitWithoutHeader ==
  SplitAs(U32(cur_off + HDR_SIZE + need), U32(size[cur_off] - need))

\* What kmalloc splits off lies right behind, less the room for its header.
Split ==
  SplitAs(U32(cur_off + HDR_SIZE + need), U32(size[cur_off] - need - HDR_SIZE))

\* Hand out the whole of `cur_off'.
TakeWhole ==
  /\ magic' = [magic EXCEPT ![cur_off] = "USED"]
  /\ IF prev_off = END_OF_LIST
     THEN free_head' = next_off[cur_off] /\ UNCHANGED next_off
     ELSE /\ next_off' = [next_off EXCEPT ![prev_off] = next_off[cur_off]]
          /\ UNCHANGED free_head
  /\ UNCHANGED <<size, blocks>>

\* Mutant: free_bytes is not reduced.
AccountUsedOnly(n) ==
  /\ used_bytes' = U32(used_bytes + n)
  /\ high_water' = IF used_bytes' > high_water THEN used_bytes' ELSE high_water
  /\ UNCHANGED free_bytes

\* The statistics of an allocation of n bytes.
Account(n) ==
  /\ used_bytes' = U32(used_bytes + n)
  /\ free_bytes' = U32(free_bytes - n)
  /\ high_water' = IF used_bytes' > high_water THEN used_bytes' ELSE high_water

\* The walk finds a block: unlink it, account for it and return it;
\* krealloc goes on to copy.
AllocTake ==
  /\ pc = "alloc"
  /\ cur_off # END_OF_LIST
  /\ Fits(cur_off)
  /\ IF Splits(cur_off) THEN Split ELSE TakeWhole
  /\ Account(size'[cur_off])
  /\ IF op = "kmalloc" THEN Return("ok")
     ELSE /\ pc' = (IF op = "kzalloc" THEN "zero" ELSE "copy")
          /\ fresh' = cur_off
          /\ UNCHANGED <<op, want, need, prev_off, cur_off, off, rptr, outcome>>

\* The walk runs off the list: st.errors++, NULL.
AllocFail ==
  /\ pc = "alloc"
  /\ cur_off = END_OF_LIST
  /\ Return("error")
  /\ UNCHANGED <<mem, free_head, stats, blocks>>

\* kzalloc: memset(p, 0, size).
ZeroFill ==
  /\ pc = "zero"
  /\ magic' = Fill(Payload(fresh, want), "ZERO")
  /\ Return("ok")
  /\ UNCHANGED <<size, next_off, free_head, stats, blocks>>

----------------------------------------------------------------------------
(* kfree *)

\* off is out of the region, or no live header stands there.
Refused(p) ==
  \/ 2 * p >= WORD \/ p >= hsize
  \/ magic[p] # "USED"

\* Mutants: the header keeps MAGIC_USED; the payload is not poisoned.
PoisonedNotMarked(p) == Fill(Payload(p, size[p]), "POISON")
MarkedNotPoisoned(p) == [magic EXCEPT ![p] = "FREE"]

\* memguard_poison_free over the payload, and the header marked free.
Poisoned(p) == [Fill(Payload(p, size[p]), "POISON") EXCEPT ![p] = "FREE"]

\* The part of kfree before its walk: checks, poison, statistics, marking.
EnterFree(entry, p) ==
  IF Refused(p)
  THEN /\ Return("error")
       /\ UNCHANGED <<mem, free_head, stats, blocks>>
  ELSE /\ magic' = Poisoned(p)
       /\ used_bytes' = U32(used_bytes - size[p])
       /\ free_bytes' = U32(free_bytes + size[p])
       /\ off' = p
       /\ prev_off' = END_OF_LIST /\ cur_off' = free_head
       /\ pc' = "free" /\ op' = entry
       /\ UNCHANGED <<size, next_off, free_head, high_water, want, need,
                      rptr, fresh, outcome, blocks>>

\* Callers pass any granule, live, stale or wild, and pointers outside.
FreeArgs == Offs \cup {hsize, WORD - HDR_SIZE}

kfree(p) ==
  /\ pc = "idle"
  /\ EnterFree("kfree", p)

\* Mutant: the walk does not stop at the freed block's address.
BeforeEnd == cur_off # END_OF_LIST

\* The condition of kfree's walk.
Before == cur_off # END_OF_LIST /\ cur_off < off

FreeWalk ==
  /\ pc = "free"
  /\ Before
  /\ prev_off' = cur_off
  /\ cur_off' = next_off[cur_off]
  /\ UNCHANGED <<mem, free_head, stats, pc, op, want, need, off, rptr,
                 fresh, outcome, blocks>>

\* The block before the freed one touches it.
MergePrev ==
  /\ prev_off # END_OF_LIST
  /\ prev_off + HDR_SIZE + size[prev_off] = off

\* Mutant: the block behind is never merged.
MergeNextNever(h, n) == FALSE

\* The block behind touches the block at h, grown to n bytes.
MergeNext(h, n) ==
  /\ h + HDR_SIZE + n = cur_off
  /\ cur_off # END_OF_LIST
  /\ magic[cur_off] = "FREE"

\* Mutant: a new head is linked to itself.
LinkedToItself ==
  IF prev_off = END_OF_LIST
  THEN [next_off EXCEPT ![off] = off]
  ELSE [next_off EXCEPT ![off] = cur_off,
                        ![prev_off] = IF MergePrev THEN cur_off ELSE off]

\* The list with the freed block linked, or folded into the one before.
Linked ==
  IF prev_off = END_OF_LIST
  THEN [next_off EXCEPT ![off] = cur_off]
  ELSE [next_off EXCEPT ![off] = cur_off,
                        ![prev_off] = IF MergePrev THEN cur_off ELSE off]

\* Link the block between prev_off and cur_off, then merge it with the one
\* before and with the one behind.
FreeInsert ==
  /\ pc = "free"
  /\ ~Before
  /\ LET h == IF MergePrev THEN prev_off ELSE off
         n == IF MergePrev THEN size[prev_off] + HDR_SIZE + size[off] ELSE size[off]
         grow == MergeNext(h, n)
     IN /\ free_head' = IF prev_off = END_OF_LIST THEN off ELSE free_head
        /\ next_off' = IF grow THEN [Linked EXCEPT ![h] = next_off[cur_off]] ELSE Linked
        /\ size' = [size EXCEPT ![h] = IF grow THEN n + HDR_SIZE + size[cur_off] ELSE n]
        /\ blocks' = blocks \ ((IF MergePrev THEN {off} ELSE {})
                               \cup (IF grow THEN {cur_off} ELSE {}))
  /\ Return("ok")
  /\ UNCHANGED <<magic, stats>>

----------------------------------------------------------------------------
(* krealloc *)

\* A pointer whose block was allocated and freed: its payload is poisoned.
Freed(p) ==
  /\ magic[p] = "FREE"
  /\ p + HDR_SIZE \in Offs /\ magic[p + HDR_SIZE] = "POISON"

\* Mutant: the caller's pointer may be one it has freed.
kreallocAny(p, s) ==
  /\ magic[p] = "USED" \/ Freed(p)
  /\ StartAlloc("krealloc", s, p)

\* krealloc(NULL, s) is kmalloc(s) and krealloc(p, 0) is kfree(p); otherwise
\* the pointer is used without a look at its magic.
krealloc(p, s) ==
  /\ magic[p] = "USED" \/ (StaleRealloc /\ Freed(p))
  /\ StartAlloc("krealloc", s, p)

\* Mutant: the whole old block is copied.
CopiedWhole == size[rptr]

\* memcpy of min(cur->size, size) bytes, then kfree of the old block.
Copied == IF size[rptr] < want THEN size[rptr] ELSE want

ReallocCopy ==
  /\ pc = "copy"
  /\ magic' = [o \in Offs |->
                 IF o \in Payload(fresh, Copied) /\ (o - fresh) + rptr \in Offs
                 THEN magic[(o - fresh) + rptr] ELSE magic[o]]
  /\ pc' = "release"
  /\ UNCHANGED <<size, next_off, free_head, stats, op, locals, outcome, blocks>>

ReallocFree ==
  /\ pc = "release"
  /\ EnterFree("krealloc", rptr)

----------------------------------------------------------------------------
\* A caller writes its own block.
UserWrite(b) ==
  /\ pc = "idle"
  /\ magic[b] = "USED"
  /\ magic' = Fill(Payload(b, size[b]), "USER")
  /\ UNCHANGED <<size, next_off, free_head, stats, pc, op, locals, outcome,
                 blocks>>

Kernel ==
  \/ AllocWalk \/ AllocTake \/ AllocFail \/ ZeroFill
  \/ FreeWalk \/ FreeInsert
  \/ ReallocCopy \/ ReallocFree

Next ==
  \/ heap_init
  \/ \E s \in Sizes : kmalloc_refused(s) \/ kmalloc(s) \/ kzalloc(s)
  \/ \E p \in FreeArgs : kfree(p)
  \/ \E p \in Offs, s \in Sizes : krealloc(p, s)
  \/ \E b \in Offs : UserWrite(b)
  \/ Kernel

Spec == Init /\ [][Next]_vars

FairSpec == Spec /\ WF_vars(Kernel)

----------------------------------------------------------------------------
(* Properties *)

TypeOK ==
  /\ magic \in [Offs -> Contents]
  /\ size \in [Offs -> 0 .. WORD - 1]
  /\ next_off \in [Offs -> Offs \cup {END_OF_LIST}]
  /\ free_head \in Offs \cup {END_OF_LIST}
  /\ used_bytes \in 0 .. WORD - 1 /\ free_bytes \in 0 .. WORD - 1
  /\ high_water \in 0 .. WORD - 1
  /\ pc \in {"boot", "idle", "alloc", "zero", "copy", "release", "free"}
  /\ op \in {"none", "kmalloc", "kzalloc", "krealloc", "kfree"}
  /\ want \in Sizes \cup {0} /\ need \in 0 .. WORD - 1
  /\ prev_off \in Offs \cup {END_OF_LIST}
  /\ cur_off \in Offs \cup {END_OF_LIST}
  /\ off \in Offs \cup {END_OF_LIST}
  /\ rptr \in Offs \cup {END_OF_LIST}
  /\ fresh \in Offs \cup {END_OF_LIST}
  /\ outcome \in {"none", "ok", "NULL", "error"}
  /\ blocks \subseteq Offs

\* The free blocks, less the one kfree has marked and not linked yet.
FreeBlocks == { b \in blocks : magic[b] = "FREE" }
Listed == FreeBlocks \ (IF pc = "free" THEN {off} ELSE {})

\* The blocks tile the region: each begins where the one before it ends, the
\* last one ends at hsize, and no two overlap.
Tiling ==
  pc # "boot" =>
    /\ 0 \in blocks
    /\ \A b \in blocks :
         /\ size[b] % ALIGN = 0
         /\ b + HDR_SIZE + size[b] \in blocks \cup {hsize}
         /\ \A c \in blocks : b < c => b + HDR_SIZE + size[b] <= c

\* A header that says MAGIC_USED is the header of a block: what kfree accepts
\* is never a stale or a wild pointer.
MagicExact ==
  /\ \A b \in blocks : magic[b] \in {"USED", "FREE"}
  /\ \A o \in Offs : magic[o] = "USED" => o \in blocks

\* n is what follows b in the ascending enumeration of S.
Follows(S, b, n) ==
  /\ \A g \in S : g > b => n # END_OF_LIST /\ n <= g
  /\ n # END_OF_LIST => n \in S /\ n > b

\* The list holds every free block, once, in address order.
ListExact ==
  /\ Follows(Listed, -1, free_head)
  /\ \A b \in Listed : Follows(Listed, b, next_off[b])

\* No two free blocks touch: adjacent frees have coalesced.
Coalesced == \A b \in Listed : b + HDR_SIZE + size[b] \notin Listed

\* Between two iterations a walk stands on the list: cur_off is the head or
\* what follows prev_off, and kfree's walk has not passed the freed block.
WalkOnList ==
  pc \in {"alloc", "free"} =>
    \/ prev_off = END_OF_LIST /\ cur_off = free_head
    \/ prev_off \in Listed /\ cur_off = next_off[prev_off]

\* What the running call relies on: the request it serves, the block it has
\* taken and still owns, the live block krealloc will free.
CallState ==
  /\ pc = "boot" => blocks = {} /\ free_head = END_OF_LIST
  /\ pc = "alloc" => want \in Sizes \ {0} /\ need = align_up(want)
  /\ pc \in {"zero", "copy", "release"} =>
       fresh \in Live /\ want \in Sizes \ {0} /\ want <= size[fresh]
  /\ pc = "free" =>
       /\ off \in FreeBlocks
       /\ prev_off # END_OF_LIST => prev_off < off
       /\ op = "krealloc" => fresh \in Live
  /\ op = "krealloc" /\ pc \in {"alloc", "copy", "release"} =>
       rptr \in Live /\ (pc # "alloc" => rptr # fresh)
  /\ pc = "alloc" => op \in {"kmalloc", "kzalloc", "krealloc"}
  /\ pc \in {"copy", "release"} => op = "krealloc"

\* However calls follow one another, a walk of kmalloc or kfree never leaves the
\* list it walks, and a call never loses the block it has taken or will free.
WalkSound == WalkOnList /\ CallState

\* The statistics count the live payload exactly, and the rest of the region,
\* headers of further blocks included, as free.
StatsExact ==
  pc # "boot" =>
    LET sum(S) == MapThenSumSet(LAMBDA b : size[b], S) IN
    /\ used_bytes = sum(Live)
    /\ free_bytes = sum(FreeBlocks) + HDR_SIZE * (Cardinality(blocks) - 1)
    /\ used_bytes <= high_water

\* No caller's data survives in free memory (memguard.c).
FreeIsPoisoned ==
  \A b \in FreeBlocks : \A o \in Payload(b, size[b]) : magic[o] \notin {"USER", "ZERO"}

\* Nothing but kfree of it, its owner, or the call about to return it changes
\* the header or the payload of a live block.
LiveUntouched ==
  [][\A b \in Live :
       \/ pc' = "free" /\ off' = b
       \/ b = fresh
       \/ UserWrite(b)
       \/ /\ magic'[b] = "USED" /\ size'[b] = size[b]
          /\ \A o \in Payload(b, size[b]) : magic'[o] = magic[o]]_vars

\* The refinement mapping: the abstract extents are the payloads behind the
\* headers that say MAGIC_USED.
Abstract ==
  INSTANCE Allocator WITH
    Extents <- { o + HDR_SIZE : o \in Offs } \X Offs,
    Requests <- Sizes,
    live <- { <<o + HDR_SIZE, size[o]>> : o \in Live },
    pending <- IF pc = "alloc" THEN want ELSE 0

\* The heap implements the allocator heap.h promises: what kmalloc returns holds
\* the request and overlaps nothing live, and only kfree of a live block ends it.
ImplementsAllocator == Abstract!Spec

\* Every call returns.
CallReturns == (pc \notin {"boot", "idle"}) ~> (pc = "idle")

\* What krealloc returns is a live block.
ReallocReturnsLive ==
  [][(op = "krealloc" /\ fresh # END_OF_LIST /\ pc' = "idle") => fresh \in Live']_vars
=============================================================================
