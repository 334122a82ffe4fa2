--------------------------- MODULE HeapRustProofs ---------------------------
(***************************************************************************)
(* Proofs about the Rust allocator (module HeapRust), for regions and        *)
(* requests of any size.                                                    *)
(*                                                                         *)
(* kfree puts addresses where kmalloc looks for offsets, so that no freed    *)
(* block is ever handed out again: new blocks come from the frontier, the   *)
(* one block of the list whose link is an offset.  The inductive invariant   *)
(* says so: the frontier is the head of the list, it reaches to the end of   *)
(* the region, and everything handed out lies below it.                     *)
(***************************************************************************)
EXTENDS HeapRust, TLAPS

\* The sizes for which align_up(size) fits into a u32.  A larger one is rounded
\* up to 0, and kmalloc hands out less than was asked for.
SafeRequests == \A s \in Sizes : s + ALIGN <= WORD

----------------------------------------------------------------------------
(* Offsets, addresses and the end of the list *)

LEMMA AlignUp ==
  ASSUME NEW v \in Nat
  PROVE  /\ align_up(v) \in Nat /\ v <= align_up(v) /\ align_up(v) <= v + 15
         /\ align_up(v) % 16 = 0
  BY DEF align_up, ALIGN

LEMMA Region ==
  /\ aligned \in Nat /\ span \in Nat /\ span >= 32 /\ span < aligned
  /\ aligned + span < WORD - 1 /\ WORD \in Nat
<1>1. WORD \in Nat
  BY RegionAssumption DEF ALIGN, HDR_SIZE
<1>2. /\ align_up(Base) \in Nat /\ Base <= align_up(Base) /\ align_up(Base) <= Base + 15
      /\ align_up(RegionSize) \in Nat /\ RegionSize <= align_up(RegionSize)
      /\ align_up(RegionSize) <= RegionSize + 15
  BY AlignUp, RegionAssumption
<1> QED
  BY <1>1, <1>2, RegionAssumption DEF aligned, span, ALIGN, HDR_SIZE

LEMMA LinksApart ==
  /\ \A o \in Offs : o \in Nat /\ o < span /\ o % 16 = 0 /\ o # END_OF_LIST /\ aligned + o \notin Offs
  /\ \A a \in Addresses : a \in Nat /\ a >= aligned /\ a < aligned + span /\ a # END_OF_LIST
  /\ \A a \in Addresses : a \notin Offs
  /\ END_OF_LIST \notin Offs /\ NULL \notin Offs /\ 0 \in Offs
  BY Region DEF Offs, Addresses, END_OF_LIST, ALIGN, NULL

\* Under SafeRequests a block is at least as large as was asked for.
LEMMA WantFacts ==
  ASSUME SafeRequests, want \in Sizes
  PROVE  Want \in Nat /\ want \in Nat /\ want <= Want /\ Want % 16 = 0 /\ Want < WORD
<1>1. want \in Nat /\ WORD \in Nat /\ want + 16 <= WORD
  BY CallerAssumption, Region DEF SafeRequests, ALIGN
<1>2. align_up(want) \in Nat /\ want <= align_up(want) /\ align_up(want) < WORD /\ align_up(want) % 16 = 0
  BY <1>1, AlignUp
<1>3. align_up(want) % WORD = align_up(want)
  <2> DEFINE x == align_up(want)
  <2> HIDE DEF x
  <2>1. x \in Nat /\ x < WORD
    BY <1>2 DEF x
  <2>2. x % WORD = x
    BY <1>1, <2>1
  <2> QED
    BY <2>2 DEF x
<1> QED
  BY <1>1, <1>2, <1>3 DEF Want

----------------------------------------------------------------------------
(* The inductive invariant *)

\* The head of the list is the frontier, or no link of the list is an offset.
FrontierOK ==
  free_head \in Offs =>
    /\ magic[free_head] = "FREE" /\ size[free_head] = span - HDR_SIZE - free_head
    /\ next_off[free_head] \notin Offs
    /\ \A b \in blocks : b < free_head

\* Every header handed out still gives its block the rest of the region.
BlocksOK ==
  \A b \in blocks :
    /\ size[b] = span - HDR_SIZE - b
    /\ magic[b] = "USED" <=> \E g \in granted : g[1] = b

GrantsOK ==
  \A g \in granted :
    /\ g[1] \in blocks /\ g[1] + HDR_SIZE + g[2] <= span
    /\ free_head \in Offs => g[1] + HDR_SIZE + g[2] <= free_head
    /\ \A b \in blocks : g[1] < b => g[1] + HDR_SIZE + g[2] <= b

\* The walks look at the head of the list, or have passed the frontier.
WalkOK ==
  /\ pc \in {"alloc", "free"} =>
       \/ prev = NULL /\ cur = free_head
       \/ prev = free_head /\ free_head \in Offs /\ cur = next_off[free_head]
  /\ pc = "alloc" => want \in Sizes /\ op \in {"kmalloc", "kzalloc", "krealloc"}
  /\ pc = "alloc" /\ op = "krealloc" => rptr \in blocks
  /\ pc = "release" => rptr \in blocks
  /\ pc = "free" => off \in blocks

IInv == TypeOK /\ FrontierOK /\ BlocksOK /\ GrantsOK /\ WalkOK

----------------------------------------------------------------------------
(* Every step keeps it *)

LEMMA InitInv == Init => IInv
<1> SUFFICES ASSUME Init PROVE IInv
  OBVIOUS
<1>1. /\ 0 \in Offs /\ END_OF_LIST \notin Offs /\ span - HDR_SIZE \in 0 .. WORD - 1 /\ 0 \in 0 .. WORD - 1
  BY Region, LinksApart DEF HDR_SIZE
<1>2. TypeOK
  BY <1>1 DEF Init, TypeOK, Links
<1>3. FrontierOK
  BY <1>1, Region DEF Init, FrontierOK, HDR_SIZE
<1>4. BlocksOK /\ GrantsOK /\ WalkOK
  BY DEF Init, BlocksOK, GrantsOK, WalkOK
<1> QED
  BY <1>2, <1>3, <1>4 DEF IInv

\* A grant is a header and a size.
LEMMA GrantTypes ==
  ASSUME TypeOK, NEW g \in granted
  PROVE  g[1] \in Offs /\ g[1] \in Nat /\ g[2] \in Nat
<1>1. g[1] \in Offs /\ g[2] \in Sizes
  BY DEF TypeOK
<1>2. g[2] \in 1 .. WORD - 1
  BY <1>1, CallerAssumption
<1> QED
  BY <1>1, <1>2, Region, LinksApart

\* The steps that leave the memory, the list and the grants alone.
LEMMA QuietStep ==
  ASSUME IInv, UNCHANGED <<mem, free_head, granted, blocks>>, TypeOK', WalkOK'
  PROVE  IInv'
  BY DEF mem, IInv, FrontierOK, BlocksOK, GrantsOK

LEMMA StartStep ==
  ASSUME IInv, NEW entry \in {"kmalloc", "kzalloc", "krealloc"}, NEW s \in Sizes,
         NEW p \in blocks \cup {NULL}, entry = "krealloc" => p \in blocks, StartAlloc(entry, s, p)
  PROVE  IInv'
<1>1. TypeOK' /\ WalkOK'
  BY DEF StartAlloc, mem, IInv, TypeOK, WalkOK
<1> QED
  BY <1>1, QuietStep DEF StartAlloc

LEMMA WalkStep ==
  ASSUME IInv, AllocWalk \/ AllocFail \/ AllocStray \/ FreeWalk \/ UNCHANGED vars
  PROVE  IInv'
<1>1. UNCHANGED <<mem, free_head, granted, blocks>>
  BY DEF AllocWalk, AllocFail, AllocStray, FreeWalk, Wild, vars
<1>2. TypeOK'
  <2>1. CASE AllocWalk
    BY <1>1, <2>1 DEF AllocWalk, mem, IInv, TypeOK
  <2>2. CASE AllocFail
    BY <1>1, <2>2 DEF AllocFail, Return, mem, IInv, TypeOK, Links
  <2>3. CASE AllocStray
    BY <1>1, <2>3 DEF AllocStray, Wild, mem, IInv, TypeOK
  <2>4. CASE FreeWalk
    BY <1>1, <2>4 DEF FreeWalk, Wild, mem, IInv, TypeOK
  <2>5. CASE UNCHANGED vars
    BY <2>5 DEF vars, mem, IInv, TypeOK
  <2> QED
    BY <2>1, <2>2, <2>3, <2>4, <2>5
<1>3. WalkOK'
  <2>1. CASE AllocWalk
    BY <1>1, <2>1 DEF AllocWalk, mem, IInv, WalkOK, FrontierOK
  <2>2. CASE AllocFail
    BY <2>2 DEF AllocFail, Return, WalkOK
  <2>3. CASE AllocStray
    BY <2>3 DEF AllocStray, Wild, WalkOK
  <2>4. CASE FreeWalk
    BY <1>1, <2>4 DEF FreeWalk, Wild, mem, IInv, WalkOK, FrontierOK
  <2>5. CASE UNCHANGED vars
    BY <2>5 DEF vars, mem, IInv, WalkOK
  <2> QED
    BY <2>1, <2>2, <2>3, <2>4, <2>5
<1> QED
  BY <1>1, <1>2, <1>3, QuietStep

\* The owner of a block reaches no header.
LEMMA UserWriteStep == ASSUME IInv, UserWrite PROVE IInv'
<1>1. PICK g \in granted :
        magic' = [o \in Offs |-> IF o \in Payload(g[1], g[2]) THEN "USER" ELSE magic[o]]
  BY DEF UserWrite
<1>2. UNCHANGED <<size, next_off, free_head, pc, op, want, prev, cur, off, rptr, granted, blocks>>
  BY DEF UserWrite
<1>3. /\ g[1] \in Offs /\ g[1] \in Nat /\ g[2] \in Nat /\ blocks \subseteq Offs
      /\ g[1] + HDR_SIZE + g[2] \in Nat
  <2>1. g[1] \in Offs /\ g[1] \in Nat /\ g[2] \in Nat /\ blocks \subseteq Offs
    BY GrantTypes DEF IInv, TypeOK
  <2> QED
    BY <2>1 DEF HDR_SIZE
<1>4. TypeOK'
  BY <1>1, <1>2 DEF IInv, TypeOK
<1>5. ASSUME NEW b \in blocks PROVE magic'[b] = magic[b]
  <2>1. b \in Nat /\ b \in Offs /\ (g[1] < b => g[1] + HDR_SIZE + g[2] <= b)
    BY <1>3, LinksApart DEF IInv, GrantsOK
  <2>2. b \notin Payload(g[1], g[2])
    BY <1>3, <2>1 DEF Payload, HDR_SIZE
  <2> QED
    BY <1>1, <2>1, <2>2
<1>6. free_head \in Offs => magic'[free_head] = magic[free_head]
  <2> SUFFICES ASSUME free_head \in Offs PROVE magic'[free_head] = magic[free_head]
    OBVIOUS
  <2>1. free_head \in Nat /\ g[1] + HDR_SIZE + g[2] <= free_head
    BY LinksApart DEF IInv, GrantsOK
  <2>2. free_head \notin Payload(g[1], g[2])
    BY <1>3, <2>1 DEF Payload, HDR_SIZE
  <2> QED
    BY <1>1, <2>2
<1> QED
  BY <1>2, <1>4, <1>5, <1>6 DEF IInv, FrontierOK, BlocksOK, GrantsOK, WalkOK

LEMMA EnterFreeStep ==
  ASSUME IInv, NEW p \in blocks, NEW entry \in {"kfree", "krealloc"}, EnterFree(entry, p)
  PROVE  IInv'
<1>1. /\ magic' = [magic EXCEPT ![p] = "FREE"] /\ granted' = { g \in granted : g[1] # p }
      /\ UNCHANGED <<size, next_off, free_head, blocks, want, rptr>>
      /\ pc' = "free" /\ op' = entry /\ off' = p /\ prev' = NULL /\ cur' = free_head
  BY DEF EnterFree, Marked
<1>2. TypeOK'
  BY <1>1 DEF IInv, TypeOK
<1>3. FrontierOK'
  BY <1>1 DEF IInv, TypeOK, FrontierOK
<1>4. BlocksOK'
  BY <1>1 DEF IInv, TypeOK, BlocksOK
<1>5. GrantsOK'
  BY <1>1 DEF IInv, GrantsOK
<1>6. WalkOK'
  BY <1>1 DEF WalkOK
<1> QED
  BY <1>2, <1>3, <1>4, <1>5, <1>6 DEF IInv

\* kfree never merges: every block reaches to the end of the region, and no link
\* leads there.
LEMMA NeverMerges ==
  ASSUME IInv, pc = "free", cur = END_OF_LIST \/ cur >= head
  PROVE  /\ ~MergeRight /\ ~MergeLeft /\ cur \notin Offs /\ prev \in {NULL, free_head}
         /\ prev = NULL => free_head \notin Offs
         /\ prev # NULL => free_head \in Offs /\ off < free_head
         /\ off \in blocks /\ off \in Offs /\ head \in Addresses
<1>1. /\ off \in blocks /\ off \in Offs /\ off \in Nat /\ off < span /\ head = aligned + off
      /\ size[off] = span - HDR_SIZE - off /\ head \in Addresses
  BY LinksApart DEF IInv, TypeOK, WalkOK, BlocksOK, head, Addresses
<1>2. cur \notin Offs
  <2> SUFFICES ASSUME cur \in Offs PROVE FALSE
    OBVIOUS
  <2>1. cur \in Nat /\ cur < span /\ cur # END_OF_LIST
    BY LinksApart
  <2> QED
    BY <1>1, <2>1, Region
<1>3. ~MergeRight
  <2>1. cur # END_OF_LIST => cur \in Addresses
    BY <1>2 DEF IInv, TypeOK, Links
  <2>2. head + HDR_SIZE + size[off] = aligned + span
    BY <1>1, Region DEF HDR_SIZE
  <2> QED
    BY <2>1, <2>2, Region, LinksApart DEF MergeRight
<1>4. prev = NULL => free_head \notin Offs
  BY <1>2, LinksApart DEF IInv, WalkOK
<1>5. prev # NULL => prev = free_head /\ free_head \in Offs /\ off < free_head
  BY <1>1 DEF IInv, WalkOK, FrontierOK
<1>6. ~MergeLeft
  <2> SUFFICES ASSUME prev # NULL PROVE aligned + prev + HDR_SIZE + size[prev] # head
    BY DEF MergeLeft
  <2>1. prev \in Nat /\ size[prev] = span - HDR_SIZE - prev
    BY <1>5, LinksApart DEF IInv, FrontierOK
  <2> QED
    BY <1>1, <2>1, Region DEF HDR_SIZE
<1> QED
  BY <1>1, <1>2, <1>3, <1>4, <1>5, <1>6

LEMMA FreeLinkStep == ASSUME IInv, FreeLink PROVE IInv'
<1>1. /\ ~MergeRight /\ ~MergeLeft /\ cur \notin Offs /\ prev \in {NULL, free_head}
      /\ prev = NULL => free_head \notin Offs
      /\ prev # NULL => free_head \in Offs /\ off < free_head
      /\ off \in blocks /\ off \in Offs /\ head \in Addresses /\ off \in Nat
  BY NeverMerges, LinksApart DEF FreeLink
<1>2. /\ free_head' = IF prev = NULL THEN head ELSE free_head
      /\ next_off' = IF prev = NULL THEN [next_off EXCEPT ![off] = cur]
                     ELSE [next_off EXCEPT ![off] = cur, ![prev] = head]
      /\ UNCHANGED <<size, magic, granted, blocks>> /\ Return
  BY <1>1 DEF FreeLink
<1>3. TypeOK'
  <2>1. free_head' \in Links /\ next_off' \in [Offs -> Links]
    BY <1>1, <1>2 DEF IInv, TypeOK, Links
  <2> QED
    BY <1>2, <2>1 DEF Return, IInv, TypeOK, Links
<1>4. head \notin Offs
  BY <1>1, LinksApart
<1>5. FrontierOK'
  BY <1>1, <1>2, <1>4, LinksApart DEF IInv, TypeOK, FrontierOK
<1>6. BlocksOK'
  BY <1>2 DEF IInv, BlocksOK
<1>7. GrantsOK'
  BY <1>1, <1>2, <1>4 DEF IInv, GrantsOK
<1>8. WalkOK'
  BY <1>2 DEF Return, WalkOK
<1> QED
  BY <1>3, <1>5, <1>6, <1>7, <1>8 DEF IInv

\* What kmalloc can take: the frontier, from the head of the list.
LEMMA TakeFacts ==
  ASSUME SafeRequests, IInv, AllocTake
  PROVE  /\ cur = free_head /\ prev = NULL /\ cur \in Offs /\ cur \in Nat /\ cur \notin blocks
         /\ want \in Sizes /\ want \in Nat /\ Want \in Nat /\ want <= Want
         /\ size[cur] = span - HDR_SIZE - cur /\ cur + HDR_SIZE + Want <= span
         /\ Splits => /\ split_off \in Offs /\ split_off \in Nat
                      /\ split_off = cur + HDR_SIZE + Want /\ split_off > cur
                      /\ size[cur] - Want - HDR_SIZE = span - HDR_SIZE - split_off
                      /\ size[cur] - Want - HDR_SIZE \in 0 .. WORD - 1
<1>1. pc = "alloc" /\ cur \in Offs /\ size[cur] >= Want
  BY DEF AllocTake
<1>2. cur = free_head /\ prev = NULL /\ cur \notin blocks
  BY <1>1, LinksApart DEF IInv, WalkOK, FrontierOK
<1>3. cur \in Nat /\ cur % 16 = 0
  BY <1>1, LinksApart
<1>4. want \in Sizes /\ want \in Nat /\ Want \in Nat /\ want <= Want /\ Want % 16 = 0
  BY <1>1, WantFacts DEF IInv, WalkOK
<1>5. size[cur] = span - HDR_SIZE - cur /\ span \in Nat /\ WORD \in Nat /\ span < WORD
  BY <1>1, <1>2, Region DEF IInv, FrontierOK
<1>6. cur + HDR_SIZE + Want <= span
  BY <1>1, <1>3, <1>4, <1>5 DEF HDR_SIZE
<1>7. ASSUME Splits
      PROVE  /\ split_off \in Offs /\ split_off \in Nat
             /\ split_off = cur + HDR_SIZE + Want /\ split_off > cur
             /\ size[cur] - Want - HDR_SIZE = span - HDR_SIZE - split_off
             /\ size[cur] - Want - HDR_SIZE \in 0 .. WORD - 1
  <2>1. split_off \in Nat /\ split_off = cur + HDR_SIZE + Want /\ split_off > cur
    BY <1>3, <1>4 DEF split_off, HDR_SIZE
  <2>2. size[cur] - Want >= 32
    BY <1>7 DEF Splits, HDR_SIZE, ALIGN
  <2>3. split_off % 16 = 0
    BY <1>3, <1>4, <2>1 DEF HDR_SIZE
  <2>4. split_off < span
    BY <1>3, <1>4, <1>5, <2>1, <2>2 DEF HDR_SIZE
  <2>5. split_off \in Offs
    BY <1>5, <2>1, <2>3, <2>4 DEF Offs, ALIGN
  <2> QED
    BY <1>3, <1>4, <1>5, <2>1, <2>2, <2>5 DEF HDR_SIZE
<1> QED
  BY <1>1, <1>2, <1>3, <1>4, <1>5, <1>6, <1>7

\* kzalloc and krealloc write only behind the header of the new block, up to the
\* end of what was asked for; krealloc reads only what the old block holds.
LEMMA FilledFacts ==
  ASSUME SafeRequests, IInv, AllocTake,
         NEW m \in [Offs -> {"RAW", "USED", "FREE", "ZERO", "USER"}]
  PROVE  /\ Filled(m) \in [Offs -> {"RAW", "USED", "FREE", "ZERO", "USER"}]
         /\ \A o \in Offs : o <= cur \/ o >= cur + HDR_SIZE + Want => Filled(m)[o] = m[o]
<1> DEFINE n == IF op = "krealloc" /\ size[rptr] < want THEN size[rptr] ELSE want
           p == Payload(cur, n)
<1>1. /\ cur \in Offs /\ cur \in Nat /\ want \in Nat /\ Want \in Nat /\ want <= Want
      /\ cur % 16 = 0 /\ span \in Nat
  BY TakeFacts, LinksApart, Region
<1>2. op = "krealloc" => /\ rptr \in Offs /\ rptr \in Nat /\ rptr % 16 = 0
                         /\ size[rptr] = span - HDR_SIZE - rptr /\ size[rptr] \in Nat
  <2>1. op = "krealloc" => rptr \in blocks
    BY DEF AllocTake, IInv, WalkOK
  <2>2. op = "krealloc" => rptr \in Offs /\ size[rptr] = span - HDR_SIZE - rptr /\ size[rptr] \in Nat
    BY <2>1, Region DEF IInv, TypeOK, BlocksOK
  <2> QED
    BY <2>2, LinksApart
<1>3. n \in Nat /\ n <= want
  BY <1>1, <1>2
<1>4. ASSUME NEW o \in p
      PROVE  /\ o \in Nat /\ cur < o /\ o < cur + HDR_SIZE + Want
             /\ op = "krealloc" => o - cur + rptr \in Offs
  <2>1. o \in Nat /\ o % 16 = 0 /\ cur + HDR_SIZE <= o /\ o < cur + HDR_SIZE + n
    BY LinksApart DEF Payload
  <2>2. cur < o /\ o < cur + HDR_SIZE + Want
    BY <1>1, <1>3, <2>1 DEF HDR_SIZE
  <2>3. ASSUME op = "krealloc" PROVE o - cur + rptr \in Offs
    <3>1. /\ rptr \in Nat /\ rptr % 16 = 0 /\ size[rptr] = span - HDR_SIZE - rptr /\ n <= size[rptr]
          /\ size[rptr] \in Nat
      BY <1>1, <1>2, <2>3
    <3>2. o - cur + rptr \in Nat /\ o - cur + rptr < span
      BY <1>1, <1>3, <2>1, <3>1 DEF HDR_SIZE
    <3>3. (o - cur + rptr) % 16 = 0
      BY <1>1, <2>1, <3>1, <3>2 DEF HDR_SIZE
    <3> QED
      BY <1>1, <3>2, <3>3 DEF Offs, ALIGN
  <2> QED
    BY <2>1, <2>2, <2>3
<1>5. op \in {"kmalloc", "kzalloc", "krealloc"}
  BY DEF AllocTake, IInv, WalkOK
<1>6. Filled(m) = [o \in Offs |-> IF o \notin p \/ op = "kmalloc" THEN m[o]
                                  ELSE IF op = "kzalloc" THEN "ZERO" ELSE m[o - cur + rptr]]
  BY DEF Filled
<1> HIDE DEF p
<1>7. Filled(m) \in [Offs -> {"RAW", "USED", "FREE", "ZERO", "USER"}]
  BY <1>4, <1>5, <1>6
<1>8. ASSUME NEW o \in Offs, o <= cur \/ o >= cur + HDR_SIZE + Want
      PROVE  Filled(m)[o] = m[o]
  <2>1. o \notin p
    BY <1>1, <1>4, <1>8, LinksApart DEF HDR_SIZE
  <2> QED
    BY <1>6, <2>1
<1> QED
  BY <1>7, <1>8

LEMMA TakeStep == ASSUME SafeRequests, IInv, AllocTake PROVE IInv'
<1> DEFINE kinds == {"RAW", "USED", "FREE", "ZERO", "USER"}
           rest == IF Splits THEN split_off ELSE next_off[cur]
           m == IF Splits THEN [magic EXCEPT ![split_off] = "FREE", ![cur] = "USED"]
                ELSE [magic EXCEPT ![cur] = "USED"]
<1>1. /\ cur = free_head /\ prev = NULL /\ cur \in Offs /\ cur \in Nat /\ cur \notin blocks
      /\ want \in Sizes /\ want \in Nat /\ Want \in Nat /\ want <= Want
      /\ size[cur] = span - HDR_SIZE - cur /\ cur + HDR_SIZE + Want <= span
  BY TakeFacts
<1>2. Splits => /\ split_off \in Offs /\ split_off \in Nat
                /\ split_off = cur + HDR_SIZE + Want /\ split_off > cur
                /\ size[cur] - Want - HDR_SIZE = span - HDR_SIZE - split_off
                /\ size[cur] - Want - HDR_SIZE \in 0 .. WORD - 1
  BY TakeFacts
<1>3. /\ magic' = Filled(m) /\ free_head' = rest
      /\ granted' = granted \cup {<<cur, want>>} /\ blocks' = blocks \cup {cur}
  BY <1>1 DEF AllocTake
<1>4. /\ next_off' = IF Splits THEN [next_off EXCEPT ![split_off] = next_off[cur], ![cur] = split_off]
                     ELSE next_off
      /\ size' = IF Splits THEN [size EXCEPT ![split_off] = size[cur] - Want - HDR_SIZE] ELSE size
  BY <1>1 DEF AllocTake
<1>5. m \in [Offs -> kinds]
  BY <1>1, <1>2 DEF IInv, TypeOK
<1>6. m[cur] = "USED" /\ (Splits => m[split_off] = "FREE")
      /\ \A o \in Offs : o < cur => m[o] = magic[o]
  BY <1>1, <1>2 DEF IInv, TypeOK
<1>7. magic' \in [Offs -> kinds]
  <2> HIDE DEF m
  <2> QED
    BY <1>3, <1>5, FilledFacts
<1>8. \A o \in Offs : o <= cur \/ o >= cur + HDR_SIZE + Want => magic'[o] = m[o]
  <2> HIDE DEF m
  <2> QED
    BY <1>3, <1>5, FilledFacts
<1>9. \A b \in blocks : b \in Offs /\ b \in Nat /\ b < cur
  BY <1>1, LinksApart DEF IInv, TypeOK, FrontierOK
<1>10. /\ magic'[cur] = "USED" /\ (Splits => magic'[split_off] = "FREE")
       /\ \A b \in blocks : magic'[b] = magic[b]
  <2> HIDE DEF m
  <2>1. magic'[cur] = "USED"
    BY <1>1, <1>6, <1>8
  <2>2. Splits => magic'[split_off] = "FREE"
    BY <1>2, <1>6, <1>8
  <2>3. ASSUME NEW b \in blocks PROVE magic'[b] = magic[b]
    BY <1>1, <1>6, <1>8, <1>9
  <2> QED
    BY <2>1, <2>2, <2>3
<1> HIDE DEF m
<1>11. TypeOK'
  <2>1. size' \in [Offs -> 0 .. WORD - 1] /\ next_off' \in [Offs -> Links] /\ free_head' \in Links
    BY <1>1, <1>2, <1>3, <1>4 DEF IInv, TypeOK, Links
  <2>2. granted' \subseteq Offs \X Sizes /\ blocks' \subseteq Offs
    BY <1>1, <1>3 DEF IInv, TypeOK
  <2>3. CASE op = "krealloc"
    BY <1>7, <2>1, <2>2, <2>3 DEF AllocTake, IInv, TypeOK
  <2>4. CASE op # "krealloc"
    BY <1>7, <2>1, <2>2, <2>4 DEF AllocTake, Return, IInv, TypeOK, Links
  <2> QED
    BY <2>3, <2>4
<1>12. \A b \in blocks' : size'[b] = span - HDR_SIZE - b
  BY <1>1, <1>2, <1>3, <1>4, <1>9 DEF IInv, TypeOK, BlocksOK
<1>13. BlocksOK'
  <2>1. \A b \in blocks' : magic'[b] = "USED" <=> \E g \in granted' : g[1] = b
    <3>1. magic'[cur] = "USED" /\ \E g \in granted' : g[1] = cur
      <4>1. <<cur, want>> \in granted' /\ <<cur, want>>[1] = cur
        BY <1>3
      <4> QED
        BY <1>10, <4>1, Zenon
    <3>2. ASSUME NEW b \in blocks
          PROVE  magic'[b] = "USED" <=> \E g \in granted' : g[1] = b
      <4>1. magic'[b] = magic[b] /\ b # cur
        BY <1>1, <1>10
      <4>2. (\E g \in granted' : g[1] = b) <=> \E g \in granted : g[1] = b
        BY <1>3, <4>1
      <4> QED
        BY <4>1, <4>2 DEF IInv, BlocksOK
    <3> QED
      BY <1>3, <3>1, <3>2
  <2> QED
    BY <1>12, <2>1 DEF BlocksOK
<1>14. FrontierOK'
  <2>1. CASE Splits
    <3>1. /\ free_head' = split_off /\ next_off'[split_off] = next_off[cur]
          /\ size'[split_off] = span - HDR_SIZE - split_off
      BY <1>1, <1>2, <1>3, <1>4, <2>1 DEF IInv, TypeOK
    <3>2. next_off[cur] \notin Offs
      BY <1>1 DEF IInv, FrontierOK
    <3>3. \A b \in blocks' : b < split_off
      BY <1>1, <1>2, <1>3, <1>9, <2>1
    <3> QED
      BY <1>10, <2>1, <3>1, <3>2, <3>3 DEF FrontierOK
  <2>2. CASE ~Splits
    BY <1>1, <1>3, <2>2 DEF IInv, FrontierOK
  <2> QED
    BY <2>1, <2>2
<1>15. GrantsOK'
  <2>1. free_head' \in Offs => Splits
    BY <1>1, <1>3 DEF IInv, FrontierOK
  <2>2. ASSUME NEW g \in granted
        PROVE  /\ g[1] \in blocks' /\ g[1] + HDR_SIZE + g[2] <= span
               /\ free_head' \in Offs => g[1] + HDR_SIZE + g[2] <= free_head'
               /\ \A b \in blocks' : g[1] < b => g[1] + HDR_SIZE + g[2] <= b
    <3>1. /\ g[1] \in blocks /\ g[1] + HDR_SIZE + g[2] <= span /\ g[1] + HDR_SIZE + g[2] <= cur
          /\ \A b \in blocks : g[1] < b => g[1] + HDR_SIZE + g[2] <= b
          /\ g[1] \in Nat /\ g[2] \in Nat
      BY <1>1, GrantTypes DEF IInv, GrantsOK
    <3>2. free_head' \in Offs => free_head' = split_off
      BY <1>3, <2>1
    <3> QED
      BY <1>1, <1>2, <1>3, <2>1, <3>1, <3>2 DEF HDR_SIZE
  <2>3. /\ cur \in blocks' /\ cur + HDR_SIZE + want <= span
        /\ free_head' \in Offs => cur + HDR_SIZE + want <= free_head'
        /\ \A b \in blocks' : ~(cur < b)
    <3>1. cur \in blocks' /\ cur + HDR_SIZE + want <= span
      BY <1>1, <1>3, Region DEF HDR_SIZE
    <3>2. free_head' \in Offs => cur + HDR_SIZE + want <= split_off /\ free_head' = split_off
      BY <1>1, <1>2, <1>3, <2>1 DEF HDR_SIZE
    <3>3. \A b \in blocks' : ~(cur < b)
      BY <1>1, <1>3, <1>9
    <3> QED
      BY <3>1, <3>2, <3>3
  <2> QED
    BY <1>3, <2>2, <2>3 DEF GrantsOK
<1>16. WalkOK'
  BY <1>3 DEF AllocTake, Return, IInv, WalkOK
<1> QED
  BY <1>11, <1>13, <1>14, <1>15, <1>16 DEF IInv

LEMMA InvStep == ASSUME SafeRequests, IInv, [Next]_vars PROVE IInv'
<1>1. ASSUME NEW s \in Sizes, kmalloc(s) \/ kzalloc(s) PROVE IInv'
  BY <1>1, StartStep DEF kmalloc, kzalloc
<1>2. ASSUME NEW p \in blocks, NEW s \in Sizes, krealloc(p, s) PROVE IInv'
  BY <1>2, StartStep DEF krealloc
<1>3. ASSUME NEW p \in blocks, kfree(p) PROVE IInv'
  BY <1>3, EnterFreeStep DEF kfree
<1>4. CASE ReallocFree
  <2>1. rptr \in blocks
    BY <1>4 DEF ReallocFree, IInv, WalkOK
  <2> QED
    BY <1>4, <2>1, EnterFreeStep DEF ReallocFree
<1> QED
  BY <1>1, <1>2, <1>3, <1>4, WalkStep, TakeStep, FreeLinkStep, UserWriteStep DEF Next

\* Every block handed out comes from the frontier, which reaches to the end of the
\* region.
THEOREM HeapInvariant == ASSUME SafeRequests PROVE Spec => []IInv
<1>1. IInv /\ [Next]_vars => IInv'
  BY InvStep
<1> QED
  BY <1>1, InitInv, PTL DEF Spec

\* Type correctness: the links are offsets, addresses or END_OF_LIST, and the
\* memory keeps its shape.
THEOREM TypeCorrect == ASSUME SafeRequests PROVE Spec => []TypeOK
<1>1. IInv => TypeOK
  BY DEF IInv
<1> QED
  BY <1>1, HeapInvariant, PTL

\* What kmalloc, kzalloc and krealloc hand out lies in the region and is disjoint,
\* headers included, whatever was freed before.
THEOREM Disjoint == ASSUME SafeRequests PROVE Spec => []GrantsDisjoint
<1>1. IInv => GrantsDisjoint
  BY DEF IInv, GrantsOK, GrantsDisjoint
<1> QED
  BY <1>1, HeapInvariant, PTL

\* kfree and krealloc tell a live pointer from one that was freed already.
THEOREM FreedOnce == ASSUME SafeRequests PROVE Spec => []DoubleFreeCaught
<1>1. IInv => DoubleFreeCaught
  BY DEF IInv, BlocksOK, DoubleFreeCaught
<1> QED
  BY <1>1, HeapInvariant, PTL

=============================================================================
