----------------------------- MODULE HeapCProofs ----------------------------
(***************************************************************************)
(* Proofs about mm/heap_c.c (module HeapC): the inductive invariant, the     *)
(* safety properties it implies and the refinement of Allocator, for every   *)
(* region, word width and set of requests that cannot wrap.                 *)
(*                                                                         *)
(* Plan: facts about rounding and address-ordered lists; then one lemma per  *)
(* action that it preserves IInv; then the theorems.  kfree and the split of *)
(* kmalloc change memory and list together, so each has lemmas of its own    *)
(* about the memory after the change.                                      *)
(***************************************************************************)
EXTENDS HeapC, FiniteSetTheorems, WellFoundedInduction, TLAPS

\* No request wraps and krealloc is given live blocks only; the README says what
\* heap_c.c does where either fails.
Assumptions == SafeRequests /\ ~StaleRealloc

\* The inductive invariant: the structure of memory and list, the position of
\* the walk, and what the running call still has to do.
IInv ==
  TypeOK /\ Tiling /\ MagicExact /\ ListExact /\ Coalesced /\ WalkOnList /\ CallState

\* A number below the word size survives the width of size_t.
LEMMA U32Identity == ASSUME NEW x \in Nat, x < WORD PROVE U32(x) = x
  BY WidthAssumption DEF U32, ALIGN

\* Arithmetic of size_t stays below the word size.
LEMMA U32Type == ASSUME NEW x \in Int PROVE U32(x) \in 0 .. WORD - 1
  BY WidthAssumption, RegionAssumption DEF U32, ALIGN

\* align_up rounds up, by less than ALIGN, when the sum does not wrap.
LEMMA AlignUp ==
  ASSUME NEW v \in Nat, v + ALIGN <= WORD
  PROVE  /\ align_up(v) \in Nat /\ v <= align_up(v) /\ align_up(v) < v + ALIGN
         /\ align_up(v) % ALIGN = 0
  BY U32Identity, WidthAssumption DEF align_up, ALIGN

\* The region starts at offset 0, is a multiple of ALIGN and lies below
\* END_OF_LIST.
LEMMA RegionFacts ==
  /\ hsize \in Nat /\ hsize % ALIGN = 0 /\ 2 * HDR_SIZE <= hsize
  /\ 2 * hsize < WORD /\ WORD \in Nat
  /\ Offs \subseteq Nat /\ 0 \in Offs
  /\ END_OF_LIST \in Nat /\ END_OF_LIST \notin Offs /\ END_OF_LIST > hsize
  /\ \A o \in Offs : o < hsize /\ o % ALIGN = 0
  /\ \A o \in Nat : o < hsize /\ o % ALIGN = 0 => o \in Offs
<1>1. RegionSize + ALIGN <= WORD /\ RegionSize \in Nat /\ WORD \in Nat
  BY RegionAssumption, WidthAssumption DEF ALIGN
<1>2. /\ hsize \in Nat /\ RegionSize <= hsize /\ hsize < RegionSize + ALIGN
      /\ hsize % ALIGN = 0
  BY <1>1, AlignUp DEF hsize
<1>3. 2 * HDR_SIZE <= hsize /\ 2 * hsize < WORD
  BY <1>2, RegionAssumption, WidthAssumption DEF ALIGN, HDR_SIZE
<1> QED
  BY <1>2, <1>3, WidthAssumption DEF Offs, END_OF_LIST, ALIGN, HDR_SIZE

(***************************************************************************)
(* Lists in address order.  Follows(S, b, n) says that n is the next member *)
(* of S above b.                                                           *)
(***************************************************************************)
\* Unlinking c: its predecessor is then followed by its successor.
LEMMA FollowsRemove ==
  ASSUME NEW S \in SUBSET Nat, NEW b \in Int, NEW c \in S, NEW n \in S \cup {END_OF_LIST},
         c # END_OF_LIST, Follows(S, b, c), Follows(S, c, n)
  PROVE  Follows(S \ {c}, b, n)
<1>1. b < c /\ c \in Nat
  BY DEF Follows
<1>2. ASSUME NEW g \in S \ {c}, g > b PROVE n # END_OF_LIST /\ n <= g
  <2>1. c <= g /\ g \in Nat
    BY <1>2 DEF Follows
  <2>2. g > c
    BY <2>1, <1>1, <1>2
  <2> QED
    BY <2>2 DEF Follows
<1>3. n # END_OF_LIST => n \in S \ {c} /\ n > b
  BY <1>1 DEF Follows
<1> QED
  BY <1>2, <1>3 DEF Follows

\* Removing a member that is not the next one changes no neighbour.
LEMMA FollowsKeep ==
  ASSUME NEW S \in SUBSET Nat, NEW b \in Int, NEW c \in S, NEW n,
         Follows(S, b, n), n # c
  PROVE  Follows(S \ {c}, b, n)
  BY DEF Follows

\* Two members are not followed by the same one.
LEMMA FollowsInjective ==
  ASSUME NEW S \in SUBSET Nat, NEW a \in S \cup {-1}, NEW b \in S \cup {-1}, NEW n,
         n # END_OF_LIST, Follows(S, a, n), Follows(S, b, n)
  PROVE  a = b
<1>1. n \in S /\ n \in Nat /\ a < n /\ b < n
  BY DEF Follows
<1> QED
  BY <1>1 DEF Follows

\* Linking a new member between p and its successor.
LEMMA FollowsInsert ==
  ASSUME NEW S \in SUBSET Nat, NEW b \in Int, NEW x \in Nat, NEW n \in S \cup {END_OF_LIST},
         Follows(S, b, n), b < x, x # END_OF_LIST, n # END_OF_LIST => x < n
  PROVE  Follows(S \cup {x}, b, x) /\ Follows(S \cup {x}, x, n)
<1>1. ASSUME NEW g \in S \cup {x}, g > b PROVE x <= g
  BY <1>1, RegionFacts DEF Follows
<1>2. ASSUME NEW g \in S \cup {x}, g > x PROVE n # END_OF_LIST /\ n <= g
  BY <1>2, RegionFacts DEF Follows
<1> QED
  BY <1>1, <1>2 DEF Follows

\* Linking a new member leaves the other links right.
LEMMA FollowsElsewhere ==
  ASSUME NEW S \in SUBSET Nat, NEW b \in S \cup {-1}, NEW n \in S \cup {END_OF_LIST},
         NEW x \in Nat,
         Follows(S, b, n), x < b \/ (n # END_OF_LIST /\ n < x)
  PROVE  Follows(S \cup {x}, b, n)
<1>1. ASSUME NEW g \in S \cup {x}, g > b PROVE n # END_OF_LIST /\ n <= g
  BY <1>1, RegionFacts DEF Follows
<1> QED
  BY <1>1 DEF Follows

\* The state before heap_init satisfies the invariant.
THEOREM InitInv == Init => IInv
<1> SUFFICES ASSUME Init PROVE IInv
  OBVIOUS
<1> USE RegionFacts
<1>1. TypeOK
  BY DEF Init, TypeOK, Contents
<1>2. Listed = {}
  BY DEF Init, Listed, FreeBlocks
<1> QED
  BY <1>1, <1>2 DEF Init, IInv, Tiling, MagicExact, ListExact, Follows, Coalesced,
     WalkOnList, CallState

\* The walk stands on the list, and prev_off behind it.
LEMMA WalkFacts ==
  ASSUME IInv, pc \in {"alloc", "free"}, cur_off # END_OF_LIST
  PROVE  /\ cur_off \in Listed /\ cur_off \in blocks /\ magic[cur_off] = "FREE"
         /\ cur_off \in Offs
         /\ prev_off # END_OF_LIST => prev_off \in Listed /\ prev_off < cur_off
  BY RegionFacts DEF IInv, TypeOK, WalkOnList, ListExact, Follows, Listed, FreeBlocks

\* A block ends inside the region, at the next block or at its end.
LEMMA BlockFacts ==
  ASSUME IInv, pc # "boot", NEW b \in blocks
  PROVE  /\ b \in Offs /\ b \in Nat /\ size[b] \in Nat /\ size[b] % ALIGN = 0
         /\ b + HDR_SIZE + size[b] <= hsize
         /\ b + HDR_SIZE + size[b] \in blocks \cup {hsize}
         /\ \A c \in blocks : b < c => b + HDR_SIZE + size[b] <= c
<1>1. /\ b \in Offs /\ b \in Nat /\ size[b] \in Nat
  BY RegionFacts DEF IInv, TypeOK
<1>2. /\ b + HDR_SIZE + size[b] \in blocks \cup {hsize}
      /\ size[b] % ALIGN = 0
      /\ \A c \in blocks : b < c => b + HDR_SIZE + size[b] <= c
  BY DEF IInv, Tiling
<1> QED
  BY <1>1, <1>2, RegionFacts DEF IInv, TypeOK, HDR_SIZE

\* One step of kmalloc's search.
LEMMA AllocWalkStep ==
  ASSUME IInv, AllocWalk PROVE IInv'
<1> USE DEF AllocWalk, mem, stats
<1>1. cur_off \in Listed /\ cur_off \in Offs
  BY WalkFacts
<1>2. next_off[cur_off] \in Offs \cup {END_OF_LIST}
  BY <1>1 DEF IInv, TypeOK
<1>3. Listed' = Listed /\ Live' = Live /\ FreeBlocks' = FreeBlocks
  BY DEF Listed, Live, FreeBlocks
<1>4. TypeOK'
  BY <1>1, <1>2 DEF IInv, TypeOK
<1>5. Tiling' /\ MagicExact' /\ Coalesced'
  BY <1>3 DEF IInv, Tiling, MagicExact, Coalesced
<1>6. ListExact'
  BY <1>3 DEF IInv, ListExact, Follows
<1>7. WalkOnList'
  BY <1>1, <1>3 DEF IInv, WalkOnList
<1>8. CallState'
  BY <1>3 DEF IInv, CallState
<1> QED
  BY <1>4, <1>5, <1>6, <1>7, <1>8 DEF IInv

\* One step of kfree's search for the place of the freed block.
LEMMA FreeWalkStep ==
  ASSUME IInv, FreeWalk PROVE IInv'
<1> USE DEF FreeWalk, Before, mem, stats
<1>1. cur_off \in Listed /\ cur_off \in Offs
  BY WalkFacts
<1>2. next_off[cur_off] \in Offs \cup {END_OF_LIST}
  BY <1>1 DEF IInv, TypeOK
<1>3. Listed' = Listed /\ Live' = Live /\ FreeBlocks' = FreeBlocks
  BY DEF Listed, Live, FreeBlocks
<1>4. TypeOK'
  BY <1>1, <1>2 DEF IInv, TypeOK
<1>5. Tiling' /\ MagicExact' /\ Coalesced'
  BY <1>3 DEF IInv, Tiling, MagicExact, Coalesced
<1>6. ListExact'
  BY <1>3 DEF IInv, ListExact, Follows
<1>7. WalkOnList'
  BY <1>1, <1>3 DEF IInv, WalkOnList
<1>8. CallState'
  BY <1>3 DEF IInv, CallState
<1> QED
  BY <1>4, <1>5, <1>6, <1>7, <1>8 DEF IInv

\* What is true of the block kmalloc has found.
LEMMA FitFacts ==
  ASSUME IInv, Assumptions, pc = "alloc", cur_off # END_OF_LIST, Fits(cur_off)
  PROVE  /\ cur_off \in Listed /\ cur_off \in blocks /\ magic[cur_off] = "FREE"
         /\ want \in Nat /\ need \in Nat /\ want <= need /\ need % ALIGN = 0
         /\ need + HDR_SIZE <= size[cur_off]
         /\ Splits(cur_off) => need + HDR_SIZE + ALIGN <= size[cur_off]
<1>1. want \in Sizes \ {0} /\ need = align_up(want)
  BY DEF IInv, CallState
<1>2. want \in Nat /\ want + 3 * ALIGN <= WORD
  BY <1>1, CallerAssumption, WidthAssumption DEF Assumptions, SafeRequests
<1>3. need \in Nat /\ want <= need /\ need % ALIGN = 0 /\ need < want + ALIGN
  BY <1>1, <1>2, AlignUp, WidthAssumption DEF ALIGN
<1>4. /\ SizeT(need + HDR_SIZE) = need + HDR_SIZE
      /\ SizeT(need + HDR_SIZE + ALIGN) = need + HDR_SIZE + ALIGN
  BY <1>2, <1>3, WidthAssumption DEF SizeT, HDR_SIZE, ALIGN
<1>5. cur_off \in Listed /\ cur_off \in blocks /\ magic[cur_off] = "FREE"
  BY WalkFacts
<1> QED
  BY <1>2, <1>3, <1>4, <1>5 DEF Fits, Splits

\* The memory part of the invariant, for a state in which every free block is
\* on the list.
MemInv ==
  /\ magic \in [Offs -> Contents]
  /\ size \in [Offs -> 0 .. WORD - 1]
  /\ next_off \in [Offs -> Offs \cup {END_OF_LIST}]
  /\ free_head \in Offs \cup {END_OF_LIST}
  /\ blocks \subseteq Offs
  /\ 0 \in blocks
  /\ \A b \in blocks :
       /\ size[b] % ALIGN = 0
       /\ b + HDR_SIZE + size[b] \in blocks \cup {hsize}
       /\ \A c \in blocks : b < c => b + HDR_SIZE + size[b] <= c
  /\ MagicExact
  /\ Follows(FreeBlocks, -1, free_head)
  /\ \A b \in FreeBlocks : Follows(FreeBlocks, b, next_off[b])
  /\ \A b \in FreeBlocks : b + HDR_SIZE + size[b] \notin FreeBlocks

\* Memory after kmalloc has handed out a whole block.
LEMMA TakeWholeMem ==
  ASSUME IInv, Assumptions, pc = "alloc", cur_off # END_OF_LIST, Fits(cur_off),
         TakeWhole
  PROVE  MemInv'
<1> USE DEF TakeWhole
<1>1. /\ cur_off \in Listed /\ cur_off \in blocks /\ magic[cur_off] = "FREE"
      /\ cur_off \in Offs
      /\ prev_off # END_OF_LIST => prev_off \in Listed /\ prev_off < cur_off
  BY WalkFacts
<1>2. Listed = FreeBlocks /\ FreeBlocks \subseteq Offs
  BY DEF Listed, FreeBlocks, IInv, TypeOK
<1>3. FreeBlocks' = FreeBlocks \ {cur_off}
  BY <1>1 DEF FreeBlocks, IInv, TypeOK, MagicExact
<1>4. /\ (magic \in [Offs -> Contents])'
      /\ (size \in [Offs -> 0 .. WORD - 1])'
      /\ (next_off \in [Offs -> Offs \cup {END_OF_LIST}])'
      /\ (free_head \in Offs \cup {END_OF_LIST})'
      /\ (blocks \subseteq Offs)'
  BY <1>1 DEF IInv, TypeOK, Contents
<1>5. MagicExact'
  BY <1>1 DEF IInv, TypeOK, MagicExact
<1>6. /\ FreeBlocks \in SUBSET Nat /\ cur_off \in FreeBlocks /\ cur_off # END_OF_LIST
      /\ Follows(FreeBlocks, cur_off, next_off[cur_off])
      /\ Follows(FreeBlocks, -1, free_head)
      /\ \A b \in FreeBlocks : /\ Follows(FreeBlocks, b, next_off[b])
                               /\ next_off[b] \in FreeBlocks \cup {END_OF_LIST}
  BY <1>1, <1>2, RegionFacts DEF IInv, ListExact, Follows
<1>7. /\ Follows(FreeBlocks, -1, free_head)'
      /\ (\A b \in FreeBlocks : Follows(FreeBlocks, b, next_off[b]))'
  <2>1. CASE prev_off = END_OF_LIST
    <3>1. cur_off = free_head /\ free_head' = next_off[cur_off] /\ next_off' = next_off
      BY <2>1, <1>1, RegionFacts DEF IInv, WalkOnList, Listed, FreeBlocks, TypeOK
    <3>2. Follows(FreeBlocks \ {cur_off}, -1, next_off[cur_off])
      BY <3>1, <1>6, FollowsRemove
    <3>3. ASSUME NEW b \in FreeBlocks \ {cur_off}
          PROVE  Follows(FreeBlocks \ {cur_off}, b, next_off[b])
      <4>1. next_off[b] # cur_off
        BY <3>1, <1>6, <1>2, RegionFacts DEF Follows
      <4> QED
        BY <4>1, <1>6, FollowsKeep
    <3> QED
      BY <1>3, <3>1, <3>2, <3>3
  <2>2. CASE prev_off # END_OF_LIST
    <3>1. /\ prev_off \in FreeBlocks /\ prev_off # cur_off /\ next_off[prev_off] = cur_off
          /\ free_head' = free_head
          /\ next_off' = [next_off EXCEPT ![prev_off] = next_off[cur_off]]
          /\ prev_off \in Offs /\ cur_off \in Offs /\ next_off \in [Offs -> Offs \cup {END_OF_LIST}]
      BY <2>2, <1>1, <1>2, RegionFacts DEF IInv, WalkOnList, TypeOK
    <3>2. Follows(FreeBlocks \ {cur_off}, prev_off, next_off[cur_off])
      <4>1. Follows(FreeBlocks, prev_off, cur_off) /\ prev_off \in Int
        BY <3>1, <1>6, <1>2, RegionFacts
      <4> QED
        BY <4>1, <1>6, FollowsRemove
    <3>3. free_head # cur_off
      BY <3>1, <1>6, FollowsInjective
    <3>4. ASSUME NEW b \in FreeBlocks \ {cur_off}, b # prev_off
          PROVE  Follows(FreeBlocks \ {cur_off}, b, next_off[b])
      <4>1. next_off[b] # cur_off
        BY <3>1, <3>4, <1>6, FollowsInjective
      <4> QED
        BY <4>1, <1>6, FollowsKeep
    <3>5. Follows(FreeBlocks \ {cur_off}, -1, free_head)
      BY <3>3, <1>6, FollowsKeep
    <3>6. ASSUME NEW b \in FreeBlocks \ {cur_off}
          PROVE  Follows(FreeBlocks \ {cur_off}, b, next_off'[b])
      BY <3>1, <3>2, <3>4, <1>2
    <3> QED
      BY <1>3, <3>1, <3>5, <3>6
  <2> QED
    BY <2>1, <2>2
<1>8. (\A b \in FreeBlocks : b + HDR_SIZE + size[b] \notin FreeBlocks)'
  BY <1>2, <1>3 DEF IInv, Coalesced
<1>9. (0 \in blocks /\ \A b \in blocks :
       /\ size[b] % ALIGN = 0
       /\ b + HDR_SIZE + size[b] \in blocks \cup {hsize}
       /\ \A c \in blocks : b < c => b + HDR_SIZE + size[b] <= c)'
  BY DEF IInv, Tiling
<1> QED
  BY <1>4, <1>5, <1>7, <1>8, <1>9 DEF MemInv

\* Memory after kmalloc has split a block and handed out its front.
LEMMA SplitMem ==
  ASSUME IInv, Assumptions, pc = "alloc", cur_off # END_OF_LIST, Fits(cur_off),
         Splits(cur_off), Split
  PROVE  MemInv' /\ size'[cur_off] = need
<1> DEFINE new == cur_off + HDR_SIZE + need
<1>1. /\ cur_off \in Listed /\ cur_off \in blocks /\ magic[cur_off] = "FREE"
      /\ cur_off \in Offs
      /\ prev_off # END_OF_LIST => prev_off \in Listed /\ prev_off < cur_off
  BY WalkFacts
<1>2. need \in Nat /\ need % ALIGN = 0 /\ need + HDR_SIZE + ALIGN <= size[cur_off]
  BY FitFacts
<1>3. /\ cur_off \in Nat /\ size[cur_off] \in Nat /\ size[cur_off] % ALIGN = 0
      /\ cur_off + HDR_SIZE + size[cur_off] <= hsize
      /\ cur_off + HDR_SIZE + size[cur_off] \in blocks \cup {hsize}
      /\ \A c \in blocks : cur_off < c => cur_off + HDR_SIZE + size[cur_off] <= c
  BY <1>1, BlockFacts
<1>4. /\ new \in Nat /\ new < hsize /\ new % ALIGN = 0 /\ cur_off < new
      /\ new + HDR_SIZE + ALIGN <= cur_off + HDR_SIZE + size[cur_off]
  BY <1>1, <1>2, <1>3, RegionFacts DEF HDR_SIZE, ALIGN
<1>5. new \in Offs
  BY <1>4, RegionFacts
<1>6. new \notin blocks
  BY <1>3, <1>4 DEF HDR_SIZE, ALIGN
<1>7. U32(cur_off + HDR_SIZE + need) = new
  BY <1>4, RegionFacts, U32Identity
<1>8. /\ U32(size[cur_off] - need - HDR_SIZE) = size[cur_off] - need - HDR_SIZE
      /\ size[cur_off] - need - HDR_SIZE \in Nat
  BY <1>2, <1>3, RegionFacts, U32Identity DEF HDR_SIZE, ALIGN
<1> DEFINE c == cur_off
           S == FreeBlocks
           T == (FreeBlocks \cup {new}) \ {c}
           rest == size[c] - need - HDR_SIZE
<1>9. /\ magic' = [magic EXCEPT ![new] = "FREE", ![c] = "USED"]
      /\ size' = [size EXCEPT ![new] = rest, ![c] = need]
      /\ blocks' = blocks \cup {new}
      /\ magic \in [Offs -> Contents] /\ size \in [Offs -> 0 .. WORD - 1]
      /\ next_off \in [Offs -> Offs \cup {END_OF_LIST}]
      /\ free_head \in Offs \cup {END_OF_LIST}
      /\ blocks \subseteq Offs /\ blocks \subseteq Nat
      /\ c \in Offs /\ c # new /\ new \in Offs /\ new # END_OF_LIST
  <2>1. /\ magic' = [magic EXCEPT ![new] = "FREE", ![c] = "USED"]
        /\ size' = [size EXCEPT ![new] = rest, ![c] = need]
        /\ blocks' = blocks \cup {new}
    <3> HIDE DEF new
    <3> QED
      BY <1>7, <1>8 DEF Split, SplitAs
  <2>2. /\ magic \in [Offs -> Contents] /\ size \in [Offs -> 0 .. WORD - 1]
        /\ next_off \in [Offs -> Offs \cup {END_OF_LIST}]
        /\ free_head \in Offs \cup {END_OF_LIST}
        /\ blocks \subseteq Offs /\ blocks \subseteq Nat
    BY RegionFacts DEF IInv, TypeOK
  <2>3. c \in Offs /\ c # new /\ new \in Offs /\ new # END_OF_LIST
    BY <1>1, <1>3, <1>4, <1>5, RegionFacts
  <2> QED
    BY <2>1, <2>2, <2>3
<1>10. /\ prev_off = END_OF_LIST =>
            /\ free_head = c /\ free_head' = new
            /\ next_off' = [next_off EXCEPT ![new] = next_off[c], ![c] = new]
       /\ prev_off # END_OF_LIST =>
            /\ prev_off \in Offs /\ prev_off \in S /\ prev_off < c
            /\ next_off[prev_off] = c /\ free_head' = free_head
            /\ next_off' = [next_off EXCEPT ![new] = next_off[c], ![c] = new,
                                            ![prev_off] = new]
  BY <1>1, <1>7, RegionFacts DEF Split, SplitAs, IInv, TypeOK, WalkOnList, Listed, FreeBlocks
<1>11. size'[c] = need /\ size'[new] = rest /\ \A o \in Offs \ {c, new} : size'[o] = size[o]
  BY <1>9
<1>12. /\ rest \in Nat /\ rest % ALIGN = 0 /\ rest <= WORD - 1 /\ need <= WORD - 1
       /\ new + HDR_SIZE + rest = c + HDR_SIZE + size[c]
  BY <1>2, <1>3, <1>8, RegionFacts DEF HDR_SIZE, ALIGN
<1>13. S \in SUBSET Nat /\ S \subseteq Offs /\ S \subseteq blocks /\ c \in S /\ Listed = S
  BY <1>1, <1>9 DEF FreeBlocks, Listed
<1>14. FreeBlocks' = T
  BY <1>6, <1>9 DEF FreeBlocks
<1>15. /\ (magic \in [Offs -> Contents])'
       /\ (size \in [Offs -> 0 .. WORD - 1])'
       /\ (next_off \in [Offs -> Offs \cup {END_OF_LIST}])'
       /\ (free_head \in Offs \cup {END_OF_LIST})'
       /\ (blocks \subseteq Offs)'
  <2>1. (magic \in [Offs -> Contents])' /\ (blocks \subseteq Offs)'
    BY <1>9 DEF Contents
  <2>2. (size \in [Offs -> 0 .. WORD - 1])'
    BY <1>9, <1>12, <1>2, RegionFacts
  <2>3. (next_off \in [Offs -> Offs \cup {END_OF_LIST}])' /\ (free_head \in Offs \cup {END_OF_LIST})'
    BY <1>9, <1>10
  <2> QED
    BY <2>1, <2>2, <2>3
<1>16. MagicExact'
  BY <1>9, <1>1 DEF IInv, MagicExact
<1>17. ASSUME NEW b \in blocks \cup {new}
       PROVE  /\ size'[b] % ALIGN = 0
              /\ b + HDR_SIZE + size'[b] \in blocks \cup {new, hsize}
              /\ \A d \in blocks \cup {new} : b < d => b + HDR_SIZE + size'[b] <= d
  <2>1. CASE b = c
    BY <2>1, <1>2, <1>3, <1>4, <1>11 DEF HDR_SIZE, ALIGN
  <2>2. CASE b = new
    BY <2>2, <1>3, <1>4, <1>9, <1>11, <1>12 DEF HDR_SIZE, ALIGN
  <2>3. CASE b \in blocks \ {c}
    <3>1. size'[b] = size[b] /\ b \in Nat
      BY <2>3, <1>6, <1>9, <1>11
    <3>2. /\ size[b] \in Nat /\ size[b] % ALIGN = 0
          /\ b + HDR_SIZE + size[b] \in blocks \cup {hsize}
          /\ \A d \in blocks : b < d => b + HDR_SIZE + size[b] <= d
      BY <2>3, BlockFacts
    <3>3. b < new => b + HDR_SIZE + size[b] <= new
      BY <2>3, <3>1, <3>2, <1>1, <1>3, <1>4 DEF HDR_SIZE, ALIGN
    <3> QED
      BY <3>1, <3>2, <3>3
  <2> QED
    BY <2>1, <2>2, <2>3
<1>18. (0 \in blocks /\ \A b \in blocks :
       /\ size[b] % ALIGN = 0
       /\ b + HDR_SIZE + size[b] \in blocks \cup {hsize}
       /\ \A d \in blocks : b < d => b + HDR_SIZE + size[b] <= d)'
  BY <1>17, <1>9 DEF IInv, Tiling
<1>19. /\ Follows(S, -1, free_head)
       /\ \A b \in S : /\ Follows(S, b, next_off[b])
                       /\ next_off[b] \in S \cup {END_OF_LIST}
  BY <1>13 DEF IInv, ListExact, Follows
<1>20. /\ Follows(S \cup {new}, c, new) /\ Follows(S \cup {new}, new, next_off[c])
  <2>1. next_off[c] # END_OF_LIST => new < next_off[c]
    <3> SUFFICES ASSUME next_off[c] # END_OF_LIST PROVE new < next_off[c]
      OBVIOUS
    <3>1. next_off[c] \in blocks /\ c < next_off[c] /\ next_off[c] \in Nat
      BY <1>9, <1>13, <1>19 DEF Follows
    <3> QED
      BY <3>1, <1>3, <1>4 DEF HDR_SIZE, ALIGN
  <2>2. c \in Int /\ Follows(S, c, next_off[c]) /\ next_off[c] \in S \cup {END_OF_LIST}
    BY <1>3, <1>13, <1>19
  <2> HIDE DEF new
  <2> QED
    BY <2>1, <2>2, <1>4, <1>9, <1>13, FollowsInsert
<1>21. ASSUME NEW b \in S \cup {-1}, Follows(S, b, c)
       PROVE  Follows(T, b, new)
  <2>1. Follows(S \cup {new}, b, c)
    BY <1>21, <1>4, <1>9, <1>13, RegionFacts, FollowsElsewhere
  <2> HIDE DEF new
  <2> QED
    BY <2>1, <1>4, <1>9, <1>13, <1>20, RegionFacts, FollowsRemove
<1>22. Follows(T, new, next_off[c])
  <2>1. next_off[c] # c
    BY <1>13, <1>19, <1>9, RegionFacts DEF Follows
  <2> HIDE DEF new
  <2> QED
    BY <2>1, <1>4, <1>9, <1>13, <1>20, FollowsKeep
<1>23. ASSUME NEW b \in S \cup {-1}, b # c, NEW n \in S \cup {END_OF_LIST},
              Follows(S, b, n), n # c
       PROVE  Follows(T, b, n)
  <2>1. new < b \/ (n # END_OF_LIST /\ n < new)
    BY <1>23, <1>13, <1>3, <1>4 DEF Follows, HDR_SIZE, ALIGN
  <2>2. Follows(S \cup {new}, b, n)
    BY <2>1, <1>23, <1>4, <1>13, FollowsElsewhere
  <2> HIDE DEF new
  <2> QED
    BY <2>2, <1>23, <1>4, <1>13, FollowsKeep
<1>24. /\ Follows(FreeBlocks, -1, free_head)'
       /\ (\A b \in FreeBlocks : Follows(FreeBlocks, b, next_off[b]))'
  <2>1. CASE prev_off = END_OF_LIST
    <3>1. ASSUME NEW b \in S \ {c} PROVE next_off[b] # c
      BY <2>1, <1>10, <1>13, <1>19, <1>9, RegionFacts, FollowsInjective
    <3>2. ASSUME NEW b \in T PROVE Follows(T, b, next_off'[b])
      <4>1. CASE b = new
        BY <4>1, <2>1, <1>9, <1>10, <1>22
      <4>2. CASE b \in S \ {c}
        <5>1. next_off'[b] = next_off[b]
          BY <4>2, <2>1, <1>9, <1>10, <1>13, <1>6
        <5> QED
          BY <5>1, <4>2, <3>1, <1>19, <1>23
      <4> QED
        BY <4>1, <4>2
    <3>3. Follows(T, -1, free_head')
      BY <2>1, <1>10, <1>19, <1>21
    <3> QED
      BY <3>2, <3>3, <1>14
  <2>2. CASE prev_off # END_OF_LIST
    <3>1. ASSUME NEW b \in S \ {c, prev_off} PROVE next_off[b] # c
      BY <2>2, <1>10, <1>13, <1>19, <1>9, RegionFacts, FollowsInjective
    <3>0. Follows(S, prev_off, c) /\ prev_off \in S /\ prev_off # -1
      BY <2>2, <1>10, <1>13, <1>19
    <3>2. free_head # c
      BY <3>0, <1>13, <1>19, <1>9, RegionFacts, FollowsInjective
    <3>3. ASSUME NEW b \in T PROVE Follows(T, b, next_off'[b])
      <4>1. CASE b = new
        BY <4>1, <2>2, <1>9, <1>10, <1>22, <1>13, <1>6
      <4>2. CASE b = prev_off
        <5>1. next_off'[prev_off] = new
          BY <2>2, <1>9, <1>10
        <5> QED
          BY <5>1, <4>2, <3>0, <1>21
      <4>3. CASE b \in S \ {c, prev_off}
        <5>1. next_off'[b] = next_off[b]
          BY <4>3, <2>2, <1>9, <1>10, <1>13, <1>6
        <5> QED
          BY <5>1, <4>3, <3>1, <1>19, <1>23
      <4> QED
        BY <4>1, <4>2, <4>3
    <3>4. Follows(T, -1, free_head')
      BY <2>2, <3>2, <1>10, <1>13, <1>19, <1>23 DEF Follows
    <3> QED
      BY <3>3, <3>4, <1>14
  <2> QED
    BY <2>1, <2>2
<1>25. (\A b \in FreeBlocks : b + HDR_SIZE + size[b] \notin FreeBlocks)'
  <2>1. \A b \in S : b + HDR_SIZE + size[b] \notin S
    BY <1>13 DEF IInv, Coalesced
  <2>2. ASSUME NEW b \in T PROVE b + HDR_SIZE + size'[b] \notin T
    <3>1. CASE b = new
      BY <3>1, <2>1, <1>11, <1>12, <1>13, <1>3, <1>4 DEF HDR_SIZE, ALIGN
    <3>2. CASE b \in S \ {c}
      <4>1. size'[b] = size[b] /\ b + HDR_SIZE + size[b] \notin S
        BY <3>2, <2>1, <1>6, <1>11, <1>13
      <4>2. b + HDR_SIZE + size[b] # new
        BY <3>2, <1>6, <1>13, <1>4, BlockFacts
      <4> QED
        BY <4>1, <4>2
    <3> QED
      BY <3>1, <3>2
  <2> QED
    BY <2>2, <1>14
<1> QED
  BY <1>11, <1>15, <1>16, <1>18, <1>24, <1>25 DEF MemInv

\* MemInv gives the structural conjuncts of IInv once nothing waits to be
\* linked.
LEMMA FromMemInv ==
  ASSUME MemInv', (pc # "free")'
  PROVE  /\ Tiling' /\ MagicExact' /\ ListExact' /\ Coalesced'
         /\ (magic \in [Offs -> Contents])'
         /\ (size \in [Offs -> 0 .. WORD - 1])'
         /\ (next_off \in [Offs -> Offs \cup {END_OF_LIST}])'
         /\ (free_head \in Offs \cup {END_OF_LIST})'
         /\ (blocks \subseteq Offs)'
<1>1. Listed' = FreeBlocks'
  BY DEF Listed
<1> QED
  BY <1>1 DEF MemInv, Tiling, ListExact, Coalesced

\* What the rest of the invariant needs when a call returns.
LEMMA ReturnStep ==
  ASSUME NEW how \in {"ok", "NULL", "error"}, MemInv', Return(how),
         (used_bytes \in 0 .. WORD - 1)', (free_bytes \in 0 .. WORD - 1)',
         (high_water \in 0 .. WORD - 1)'
  PROVE  IInv'
<1> USE DEF Return
<1>1. /\ Tiling' /\ MagicExact' /\ ListExact' /\ Coalesced'
      /\ (magic \in [Offs -> Contents])'
      /\ (size \in [Offs -> 0 .. WORD - 1])'
      /\ (next_off \in [Offs -> Offs \cup {END_OF_LIST}])'
      /\ (free_head \in Offs \cup {END_OF_LIST})'
      /\ (blocks \subseteq Offs)'
  BY FromMemInv
<1>2. TypeOK'
  BY <1>1, RegionFacts, WidthAssumption DEF TypeOK
<1>3. WalkOnList' /\ CallState'
  BY DEF WalkOnList, CallState
<1> QED
  BY <1>1, <1>2, <1>3 DEF IInv

\* In a state where no block waits to be linked, IInv gives MemInv.
LEMMA ToMemInv ==
  ASSUME IInv, pc # "free", pc # "boot" PROVE MemInv
<1>1. Listed = FreeBlocks
  BY DEF Listed
<1> QED
  BY <1>1 DEF IInv, TypeOK, Tiling, ListExact, Coalesced, MemInv

\* kmalloc takes a block, whole or split.
LEMMA AllocTakeStep ==
  ASSUME IInv, Assumptions, AllocTake PROVE IInv'
<1>1. pc = "alloc" /\ cur_off # END_OF_LIST /\ Fits(cur_off)
  BY DEF AllocTake
<1>2. /\ cur_off \in blocks /\ magic[cur_off] = "FREE"
      /\ want \in Nat /\ need \in Nat /\ want <= need
      /\ need + HDR_SIZE <= size[cur_off]
  BY <1>1, FitFacts
<1>3. MemInv' /\ want <= size'[cur_off]
  <2>1. CASE Splits(cur_off)
    BY <2>1, <1>1, <1>2, SplitMem DEF AllocTake
  <2>2. CASE ~Splits(cur_off)
    <3>1. TakeWhole
      BY <2>2 DEF AllocTake
    <3>2. size'[cur_off] = size[cur_off] /\ size[cur_off] \in Nat
      BY <3>1, <1>1, <1>2, BlockFacts DEF TakeWhole
    <3> QED
      BY <3>1, <3>2, <1>1, <1>2, TakeWholeMem DEF HDR_SIZE
  <2> QED
    BY <2>1, <2>2
<1>4. cur_off \in Offs /\ cur_off \in Live' /\ size'[cur_off] \in 0 .. WORD - 1
  <2>1. cur_off \in Offs /\ magic \in [Offs -> Contents]
    BY <1>2 DEF IInv, TypeOK
  <2>2. magic'[cur_off] = "USED"
    BY <2>1 DEF AllocTake, Split, SplitAs, TakeWhole
  <2> QED
    BY <2>1, <2>2, <1>3 DEF Live, MemInv
<1>5. \A o \in Live : o \in Live' /\ o # cur_off
  <2> SUFFICES ASSUME NEW o \in Live PROVE o \in Live' /\ o # cur_off
    OBVIOUS
  <2>1. o \in Offs /\ magic[o] = "USED" /\ o # cur_off /\ o \in blocks
    BY <1>2 DEF Live, IInv, MagicExact
  <2>2. magic'[o] = "USED"
    <3>1. CASE TakeWhole
      BY <3>1, <2>1 DEF TakeWhole, IInv, TypeOK
    <3>2. CASE Split /\ Splits(cur_off)
      <4>1. /\ U32(cur_off + HDR_SIZE + need) = cur_off + HDR_SIZE + need
            /\ cur_off + HDR_SIZE + need \notin blocks
        <5>1. need + HDR_SIZE + ALIGN <= size[cur_off]
          BY <1>1, <3>2, FitFacts
        <5>2. /\ cur_off \in Nat /\ size[cur_off] \in Nat
              /\ cur_off + HDR_SIZE + size[cur_off] <= hsize
              /\ \A c \in blocks : cur_off < c => cur_off + HDR_SIZE + size[cur_off] <= c
          BY <1>1, <1>2, BlockFacts
        <5> QED
          BY <5>1, <5>2, <1>2, RegionFacts, U32Identity DEF HDR_SIZE, ALIGN
      <4> QED
        BY <4>1, <3>2, <2>1 DEF Split, SplitAs, IInv, TypeOK
    <3> QED
      BY <3>1, <3>2 DEF AllocTake
  <2> QED
    BY <2>1, <2>2 DEF Live
<1>6. /\ (used_bytes \in 0 .. WORD - 1)' /\ (free_bytes \in 0 .. WORD - 1)'
      /\ (high_water \in 0 .. WORD - 1)'
  BY <1>4, U32Type DEF AllocTake, Account, IInv, TypeOK
<1>7. CASE op = "kmalloc"
  BY <1>7, <1>3, <1>6, ReturnStep DEF AllocTake
<1>8. CASE op # "kmalloc"
  <2>1. /\ pc' = (IF op = "kzalloc" THEN "zero" ELSE "copy")
        /\ fresh' = cur_off
        /\ UNCHANGED <<op, want, need, prev_off, cur_off, off, rptr, outcome>>
    BY <1>8 DEF AllocTake
  <2>2. /\ Tiling' /\ MagicExact' /\ ListExact' /\ Coalesced'
        /\ (magic \in [Offs -> Contents])'
        /\ (size \in [Offs -> 0 .. WORD - 1])'
        /\ (next_off \in [Offs -> Offs \cup {END_OF_LIST}])'
        /\ (free_head \in Offs \cup {END_OF_LIST})'
        /\ (blocks \subseteq Offs)'
    BY <2>1, <1>3, FromMemInv
  <2>3. TypeOK'
    BY <2>1, <2>2, <1>6, <1>4 DEF IInv, TypeOK
  <2>4. WalkOnList'
    BY <2>1 DEF WalkOnList
  <2>5. CallState'
    <3>1. /\ want \in Sizes \ {0} /\ op \in {"kzalloc", "krealloc"}
          /\ op = "krealloc" => rptr \in Live
      BY <1>1, <1>8 DEF IInv, CallState
    <3>2. /\ (pc' = "zero" /\ op' = "kzalloc") \/ (pc' = "copy" /\ op' = "krealloc")
          /\ want' \in Sizes \ {0} /\ fresh' \in Live' /\ want' <= size'[fresh']
          /\ op' = "krealloc" => rptr' \in Live' /\ rptr' # fresh'
      BY <3>1, <2>1, <1>3, <1>4, <1>5
    <3> QED
      BY <3>2 DEF CallState
  <2> QED
    BY <2>2, <2>3, <2>4, <2>5 DEF IInv
<1> QED
  BY <1>7, <1>8

\* kmalloc reaches the end of the list.
LEMMA AllocFailStep ==
  ASSUME IInv, AllocFail PROVE IInv'
<1>1. MemInv
  BY ToMemInv DEF AllocFail
<1>2. MemInv'
  BY <1>1 DEF AllocFail, mem, MemInv, MagicExact, Follows, FreeBlocks
<1> QED
  BY <1>2, ReturnStep DEF AllocFail, stats, IInv, TypeOK

\* A call of kmalloc, kzalloc or krealloc begins its search.
LEMMA StartAllocStep ==
  ASSUME IInv, Assumptions, NEW entry \in {"kmalloc", "kzalloc", "krealloc"},
         NEW s \in Sizes, NEW p \in Offs \cup {END_OF_LIST},
         entry = "krealloc" => p \in Live,
         StartAlloc(entry, s, p)
  PROVE  IInv'
<1> USE DEF StartAlloc, mem, stats
<1>1. Listed' = Listed /\ Live' = Live /\ FreeBlocks' = FreeBlocks
  BY DEF Listed, Live, FreeBlocks
<1>2. need' \in 0 .. WORD - 1
  <2>1. s \in Nat /\ s + 3 * ALIGN <= WORD
    BY CallerAssumption, WidthAssumption DEF Assumptions, SafeRequests
  <2> QED
    BY <2>1, AlignUp, WidthAssumption DEF ALIGN
<1>3. TypeOK'
  BY <1>2 DEF IInv, TypeOK
<1>4. Tiling' /\ MagicExact' /\ Coalesced'
  BY <1>1 DEF IInv, Tiling, MagicExact, Coalesced
<1>5. ListExact'
  BY <1>1 DEF IInv, ListExact, Follows
<1>6. WalkOnList'
  BY <1>1 DEF IInv, WalkOnList
<1>7. CallState'
  BY <1>1 DEF IInv, CallState
<1> QED
  BY <1>3, <1>4, <1>5, <1>6, <1>7 DEF IInv

\* heap_init makes one free block of the region.
LEMMA HeapInitStep ==
  ASSUME IInv, heap_init PROVE IInv'
<1> USE DEF heap_init
<1>1. /\ magic \in [Offs -> Contents] /\ size \in [Offs -> 0 .. WORD - 1]
      /\ next_off \in [Offs -> Offs \cup {END_OF_LIST}] /\ 0 \in Offs
      /\ \A o \in Offs : magic[o] # "USED"
  BY RegionFacts DEF IInv, TypeOK, CallState, MagicExact
<1>2. /\ hsize - HDR_SIZE \in 0 .. WORD - 1 /\ (hsize - HDR_SIZE) % ALIGN = 0
      /\ hsize \in Nat
  BY RegionFacts DEF HDR_SIZE, ALIGN
<1>3. TypeOK'
  BY <1>1, <1>2, RegionFacts DEF IInv, TypeOK, locals, Contents
<1>4. FreeBlocks' = {0} /\ Listed' = {0}
  BY <1>1 DEF FreeBlocks, Listed
<1>5. size'[0] = hsize - HDR_SIZE /\ next_off'[0] = END_OF_LIST /\ magic'[0] = "FREE"
      /\ blocks' = {0} /\ 0 + HDR_SIZE + size'[0] = hsize /\ hsize # 0
  BY <1>1, <1>2, RegionFacts DEF HDR_SIZE
<1>6. Tiling' /\ Coalesced'
  BY <1>2, <1>4, <1>5 DEF Tiling, Coalesced
<1>7. MagicExact'
  BY <1>1, <1>5 DEF MagicExact
<1>8. ListExact'
  BY <1>4, <1>5, RegionFacts DEF ListExact, Follows
<1>9. WalkOnList' /\ CallState'
  BY DEF WalkOnList, CallState, IInv, locals
<1> QED
  BY <1>3, <1>6, <1>7, <1>8, <1>9 DEF IInv

\* A granule inside a block is not a header.
LEMMA PayloadFacts ==
  ASSUME IInv, pc # "boot", NEW b \in blocks, NEW n \in Nat, n <= size[b]
  PROVE  \A o \in Payload(b, n) : o \in Offs /\ o \notin blocks /\ o # b
  BY BlockFacts, RegionFacts DEF Payload, HDR_SIZE, IInv, TypeOK

\* Writing payload granules with anything that is not a live header leaves the
\* structure of the heap alone.
LEMMA PayloadWrite ==
  ASSUME IInv, pc # "boot", NEW W \in SUBSET Offs, W \cap blocks = {},
         magic' \in [Offs -> Contents],
         \A o \in Offs \ W : magic'[o] = magic[o],
         \A o \in W : magic'[o] # "USED",
         UNCHANGED <<size, next_off, free_head, blocks>>
  PROVE  /\ FreeBlocks' = FreeBlocks /\ Live' = Live /\ MagicExact'
         /\ pc # "free" => MemInv'
<1>1. \A b \in blocks : magic'[b] = magic[b] /\ b \in Offs
  BY DEF IInv, TypeOK
<1>2. FreeBlocks' = FreeBlocks
  BY <1>1 DEF FreeBlocks
<1>3. Live' = Live /\ MagicExact'
  <2>1. \A o \in Offs : magic'[o] = "USED" <=> magic[o] = "USED"
    BY <1>1 DEF IInv, MagicExact
  <2> QED
    BY <2>1, <1>1 DEF Live, IInv, MagicExact
<1>4. ASSUME pc # "free" PROVE MemInv'
  <2>1. MemInv
    BY <1>4, ToMemInv
  <2> QED
    BY <2>1, <1>2, <1>3 DEF MemInv, Follows
<1> QED
  BY <1>2, <1>3, <1>4

\* Every live header is the header of a block.
LEMMA LiveBlocks == ASSUME IInv PROVE Live \subseteq blocks /\ Live \subseteq Offs
  BY DEF IInv, MagicExact, Live

\* Requested sizes are natural numbers.
LEMMA SizesNat == Sizes \subseteq Nat
  BY CallerAssumption, WidthAssumption

\* kzalloc clears what kmalloc returned.
LEMMA ZeroFillStep ==
  ASSUME IInv, Assumptions, ZeroFill PROVE IInv'
<1>1. /\ fresh \in blocks /\ want \in Nat /\ want <= size[fresh] /\ pc = "zero"
  BY LiveBlocks, SizesNat DEF ZeroFill, IInv, CallState
<1>2. \A o \in Payload(fresh, want) : o \in Offs /\ o \notin blocks
  BY <1>1, PayloadFacts
<1>3. MemInv'
  <2>1. magic' \in [Offs -> Contents]
    BY DEF ZeroFill, Fill, Contents, IInv, TypeOK
  <2> QED
    BY <2>1, <1>1, <1>2, PayloadWrite DEF ZeroFill, Fill
<1> QED
  BY <1>3, ReturnStep DEF ZeroFill, stats, IInv, TypeOK

\* A caller writes its own block.
LEMMA UserWriteStep ==
  ASSUME IInv, NEW b \in Offs, UserWrite(b) PROVE IInv'
<1>1. b \in blocks /\ size[b] \in Nat /\ pc = "idle"
  BY RegionFacts DEF UserWrite, IInv, MagicExact, TypeOK
<1>2. \A o \in Payload(b, size[b]) : o \in Offs /\ o \notin blocks
  BY <1>1, PayloadFacts
<1>3. magic' \in [Offs -> Contents]
  BY DEF UserWrite, Fill, Contents, IInv, TypeOK
<1>4. MemInv' /\ Live' = Live
  BY <1>1, <1>2, <1>3, PayloadWrite DEF UserWrite, Fill
<1>5. Tiling' /\ MagicExact' /\ ListExact' /\ Coalesced'
  BY <1>1, <1>4, FromMemInv DEF UserWrite
<1>6. TypeOK'
  BY <1>3 DEF UserWrite, IInv, TypeOK, stats, locals
<1>7. WalkOnList' /\ CallState'
  BY <1>1 DEF UserWrite, WalkOnList, CallState
<1> QED
  BY <1>5, <1>6, <1>7 DEF IInv

\* The copy of krealloc writes payload granules of the new block only.
LEMMA CopyKeepsLive ==
  ASSUME IInv, ReallocCopy
  PROVE  MemInv' /\ Live' = Live /\ magic' \in [Offs -> Contents]
<1> USE DEF ReallocCopy
<1>1. /\ fresh \in blocks /\ want \in Nat /\ want <= size[fresh] /\ pc = "copy"
      /\ rptr \in blocks /\ rptr # fresh /\ op = "krealloc"
      /\ fresh \in Live /\ rptr \in Live /\ want \in Sizes \ {0}
  BY LiveBlocks, SizesNat DEF IInv, CallState
<1>2. /\ fresh \in Nat /\ rptr \in Nat /\ size[rptr] \in Nat
      /\ fresh \in Offs /\ rptr \in Offs
  BY <1>1, BlockFacts
<1>3. Copied \in Nat /\ Copied <= size[fresh] /\ Copied <= size[rptr]
  BY <1>1, <1>2, BlockFacts DEF Copied
<1>4. \A o \in Payload(fresh, Copied) : o \in Offs /\ o \notin blocks
  BY <1>1, <1>3, PayloadFacts
<1>5. \A o \in Payload(fresh, Copied) :
         (o - fresh) + rptr \in Offs => (o - fresh) + rptr \in Payload(rptr, size[rptr])
  BY <1>2, <1>3, RegionFacts DEF Payload, HDR_SIZE
<1>6. \A o \in Payload(rptr, size[rptr]) : magic[o] # "USED"
  <2>1. size[rptr] <= size[rptr]
    BY <1>2
  <2>2. \A o \in Payload(rptr, size[rptr]) : o \in Offs /\ o \notin blocks
    BY <2>1, <1>1, <1>2, PayloadFacts
  <2> QED
    BY <2>2 DEF IInv, MagicExact
<1>7. magic' \in [Offs -> Contents]
  BY DEF IInv, TypeOK
<1>8. /\ \A o \in Offs \ Payload(fresh, Copied) : magic'[o] = magic[o]
      /\ \A o \in Payload(fresh, Copied) : magic'[o] # "USED"
  <2>1. ASSUME NEW o \in Payload(fresh, Copied) PROVE magic'[o] # "USED"
    BY <1>4, <1>5, <1>6 DEF IInv, MagicExact
  <2> QED
    BY <2>1
<1> QED
  BY <1>1, <1>4, <1>7, <1>8, PayloadWrite

\* krealloc copies the old payload.
LEMMA ReallocCopyStep ==
  ASSUME IInv, ReallocCopy PROVE IInv'
<1> USE DEF ReallocCopy
<1>1. MemInv' /\ Live' = Live /\ magic' \in [Offs -> Contents]
  BY CopyKeepsLive
<1>2. /\ want \in Sizes \ {0} /\ want <= size[fresh] /\ pc = "copy" /\ op = "krealloc"
      /\ fresh \in Live /\ rptr \in Live /\ rptr # fresh
  BY DEF IInv, CallState
<1>3. Tiling' /\ MagicExact' /\ ListExact' /\ Coalesced'
  BY <1>1, FromMemInv
<1>4. TypeOK'
  BY <1>1 DEF IInv, TypeOK, stats, locals
<1>5. WalkOnList' /\ CallState'
  BY <1>1, <1>2 DEF WalkOnList, CallState, locals
<1> QED
  BY <1>3, <1>4, <1>5 DEF IInv

\* kfree before its walk, called with any pointer, from a caller or krealloc.
LEMMA EnterFreeStep ==
  ASSUME IInv, NEW entry \in {"kfree", "krealloc"}, NEW p \in FreeArgs \cup Offs,
         pc \in {"idle", "release"}, EnterFree(entry, p),
         entry = "krealloc" => fresh \in Live /\ fresh # p
  PROVE  IInv'
<1>1. CASE Refused(p)
  <2>1. MemInv
    BY ToMemInv
  <2>2. MemInv'
    BY <1>1, <2>1 DEF EnterFree, mem, MemInv, MagicExact, Follows, FreeBlocks
  <2> QED
    BY <1>1, <2>2, ReturnStep DEF EnterFree, stats, IInv, TypeOK
<1>2. CASE ~Refused(p)
  <2>1. p \in Offs /\ magic[p] = "USED" /\ p \in blocks
    BY <1>2, RegionFacts DEF Refused, FreeArgs, IInv, MagicExact, HDR_SIZE
  <2>2. /\ magic' = [Fill(Payload(p, size[p]), "POISON") EXCEPT ![p] = "FREE"]
        /\ used_bytes' = U32(used_bytes - size[p])
        /\ free_bytes' = U32(free_bytes + size[p])
        /\ off' = p /\ op' = entry
        /\ prev_off' = END_OF_LIST /\ cur_off' = free_head
        /\ pc' = "free"
        /\ UNCHANGED <<size, next_off, free_head, high_water, want, need,
                       rptr, fresh, outcome, blocks>>
    BY <1>2 DEF EnterFree, Poisoned
  <2>3. size[p] \in Nat /\ size[p] <= size[p]
    BY <2>1, BlockFacts
  <2>4. \A o \in Payload(p, size[p]) : o \in Offs /\ o \notin blocks
    BY <2>1, <2>3, PayloadFacts
  <2>5. /\ magic \in [Offs -> Contents] /\ magic' \in [Offs -> Contents]
        /\ magic'[p] = "FREE"
        /\ \A b \in blocks : b \in Offs /\ (b # p => magic'[b] = magic[b])
        /\ \A o \in Offs : magic'[o] = "USED" <=> magic[o] = "USED" /\ o # p
    <3>1. magic \in [Offs -> Contents] /\ blocks \subseteq Offs
      BY DEF IInv, TypeOK
    <3>2. \A o \in Offs : magic'[o] = IF o = p THEN "FREE"
                                     ELSE IF o \in Payload(p, size[p]) THEN "POISON"
                                     ELSE magic[o]
      BY <2>1, <2>2 DEF Fill
    <3>3. magic' \in [Offs -> Contents]
      BY <2>1, <2>2, <3>1 DEF Fill, Contents
    <3> QED
      BY <2>1, <2>4, <3>1, <3>2, <3>3 DEF IInv, MagicExact
  <2>6. FreeBlocks' = FreeBlocks \cup {p} /\ Listed' = Listed /\ Live' = Live \ {p}
    <3>1. p \notin FreeBlocks /\ Listed = FreeBlocks
      BY <2>1 DEF FreeBlocks, Listed
    <3>2. FreeBlocks' = FreeBlocks \cup {p}
      BY <2>1, <2>2, <2>5 DEF FreeBlocks
    <3>3. Listed' = FreeBlocks' \ {p}
      BY <2>2 DEF Listed
    <3>4. Live' = Live \ {p}
      BY <2>5 DEF Live
    <3> QED
      BY <3>1, <3>2, <3>3, <3>4
  <2>7. TypeOK'
    <3>1. used_bytes' \in 0 .. WORD - 1 /\ free_bytes' \in 0 .. WORD - 1
      BY <2>2, <2>3, U32Type DEF IInv, TypeOK
    <3> QED
      BY <2>1, <2>2, <2>5, <3>1 DEF IInv, TypeOK
  <2>8. Tiling'
    BY <2>2 DEF IInv, Tiling
  <2>9. MagicExact'
    BY <2>1, <2>2, <2>5 DEF IInv, MagicExact
  <2>10. ListExact' /\ Coalesced'
    BY <2>2, <2>6 DEF IInv, ListExact, Coalesced, Follows
  <2>11. WalkOnList'
    BY <2>2 DEF WalkOnList
  <2>12. CallState'
    BY <2>2, <2>6 DEF CallState
  <2> QED
    BY <2>7, <2>8, <2>9, <2>10, <2>11, <2>12 DEF IInv
<1> QED
  BY <1>1, <1>2

(***************************************************************************)
(* kfree's last part is an insertion into the list followed by up to two    *)
(* merges.  Struct is what each of the three keeps, of a region cut into    *)
(* blocks B with free blocks F: tiling and an exact list.                   *)
(***************************************************************************)
Struct(B, F, sz, nx, h) ==
  /\ B \subseteq Offs /\ 0 \in B /\ F \subseteq B
  /\ sz \in [Offs -> 0 .. WORD - 1]
  /\ nx \in [Offs -> Offs \cup {END_OF_LIST}]
  /\ h \in Offs \cup {END_OF_LIST}
  /\ \A b \in B :
       /\ sz[b] % ALIGN = 0
       /\ b + HDR_SIZE + sz[b] \in B \cup {hsize}
       /\ \A c \in B : b < c => b + HDR_SIZE + sz[b] <= c
  /\ Follows(F, -1, h)
  /\ \A b \in F : Follows(F, b, nx[b])

\* Linking the freed block.
LEMMA InsertStruct ==
  ASSUME NEW B, NEW F, NEW sz, NEW nx, NEW h, Struct(B, F, sz, nx, h),
         NEW x \in B \ F, NEW p \in F \cup {-1}, NEW n \in F \cup {END_OF_LIST},
         p < x, n # END_OF_LIST => x < n,
         n = IF p = -1 THEN h ELSE nx[p]
  PROVE  Struct(B, F \cup {x}, sz,
                IF p = -1 THEN [nx EXCEPT ![x] = n] ELSE [nx EXCEPT ![x] = n, ![p] = x],
                IF p = -1 THEN x ELSE h)
<1> DEFINE nx2 == IF p = -1 THEN [nx EXCEPT ![x] = n] ELSE [nx EXCEPT ![x] = n, ![p] = x]
           h2 == IF p = -1 THEN x ELSE h
<1>1. /\ x \in Offs /\ x \in Nat /\ x # END_OF_LIST /\ F \in SUBSET Nat /\ F \subseteq Offs
      /\ nx \in [Offs -> Offs \cup {END_OF_LIST}] /\ p \in Int
      /\ h \in F \cup {END_OF_LIST}
      /\ \A b \in F : nx[b] \in F \cup {END_OF_LIST}
  BY RegionFacts DEF Struct, Follows
<1>2. Follows(F, p, n)
  BY DEF Struct
<1>3. Follows(F \cup {x}, p, x) /\ Follows(F \cup {x}, x, n)
  BY <1>1, <1>2, FollowsInsert
<1>4. ASSUME NEW b \in F \cup {-1}, NEW m \in F \cup {END_OF_LIST}, b # p, Follows(F, b, m)
      PROVE  Follows(F \cup {x}, b, m)
  <2>1. x < b \/ (m # END_OF_LIST /\ m < x)
    <3>1. CASE b > p
      <4>1. b \in F /\ n # END_OF_LIST /\ n <= b
        BY <3>1, <1>1, <1>2 DEF Follows
      <4> QED
        BY <4>1, <1>1
    <3>2. CASE b < p
      <4>1. p \in F
        BY <3>2, <1>1
      <4> QED
        BY <4>1, <3>2, <1>1, <1>4 DEF Follows
    <3> QED
      BY <3>1, <3>2, <1>1, <1>4
  <2> QED
    BY <2>1, <1>1, <1>4, FollowsElsewhere
<1>5. nx2 \in [Offs -> Offs \cup {END_OF_LIST}] /\ h2 \in Offs \cup {END_OF_LIST}
  BY <1>1 DEF Struct
<1>6. Follows(F \cup {x}, -1, h2)
  <2>1. CASE p = -1
    BY <2>1, <1>3
  <2>2. CASE p # -1
    BY <2>2, <1>1, <1>4 DEF Struct
  <2> QED
    BY <2>1, <2>2
<1>7. ASSUME NEW b \in F \cup {x} PROVE Follows(F \cup {x}, b, nx2[b])
  <2>1. CASE b = x
    <3>1. nx2[x] = n
      BY <1>1
    <3> QED
      BY <2>1, <3>1, <1>3
  <2>2. CASE b # x /\ b = p
    <3>1. nx2[p] = x
      BY <2>2, <1>1
    <3> QED
      BY <2>2, <3>1, <1>3
  <2>3. CASE b # x /\ b # p
    <3>1. nx2[b] = nx[b]
      BY <2>3, <1>1
    <3>2. Follows(F, b, nx[b]) /\ nx[b] \in F \cup {END_OF_LIST}
      BY <2>3, <1>1 DEF Struct
    <3> QED
      BY <2>3, <3>1, <3>2, <1>4
  <2> QED
    BY <2>1, <2>2, <2>3
<1> QED
  BY <1>1, <1>5, <1>6, <1>7 DEF Struct

\* Merging a free block with the free block right behind it.
LEMMA MergeStruct ==
  ASSUME NEW B, NEW F, NEW sz, NEW nx, NEW h, Struct(B, F, sz, nx, h),
         NEW b \in F, NEW c \in F, c = b + HDR_SIZE + sz[b], nx[b] = c
  PROVE  Struct(B \ {c}, F \ {c}, [sz EXCEPT ![b] = sz[b] + HDR_SIZE + sz[c]],
                [nx EXCEPT ![b] = nx[c]], h)
<1> DEFINE sz2 == [sz EXCEPT ![b] = sz[b] + HDR_SIZE + sz[c]]
           nx2 == [nx EXCEPT ![b] = nx[c]]
<1>1. /\ B \subseteq Offs /\ B \subseteq Nat /\ F \in SUBSET Nat /\ b \in B /\ c \in B
      /\ b \in Offs /\ c \in Offs /\ b \in Nat /\ c \in Nat /\ c # END_OF_LIST
      /\ sz[b] \in Nat /\ sz[c] \in Nat
      /\ \A d \in B : sz[d] \in Nat
      /\ \A d \in F : nx[d] \in F \cup {END_OF_LIST}
  BY RegionFacts DEF Struct, Follows
<1>2. b < c
  BY <1>1 DEF HDR_SIZE
<1>3. c + HDR_SIZE + sz[c] \in B \cup {hsize} /\ c + HDR_SIZE + sz[c] <= hsize
  BY <1>1, RegionFacts DEF Struct, HDR_SIZE
<1>4. sz2[b] = sz[b] + HDR_SIZE + sz[c] /\ \A d \in Offs \ {b} : sz2[d] = sz[d]
  BY <1>1 DEF Struct
<1>5. b + HDR_SIZE + sz2[b] = c + HDR_SIZE + sz[c]
  BY <1>1, <1>4 DEF HDR_SIZE
<1>6. sz2 \in [Offs -> 0 .. WORD - 1]
  BY <1>1, <1>3, <1>4, <1>5, RegionFacts DEF Struct, HDR_SIZE
<1>7. nx2 \in [Offs -> Offs \cup {END_OF_LIST}]
  BY <1>1 DEF Struct
<1>8. ASSUME NEW d \in B \ {c}
      PROVE  /\ sz2[d] % ALIGN = 0
             /\ d + HDR_SIZE + sz2[d] \in (B \ {c}) \cup {hsize}
             /\ \A e \in B \ {c} : d < e => d + HDR_SIZE + sz2[d] <= e
  <2>1. CASE d = b
    <3>1. sz2[b] % ALIGN = 0
      <4>1. sz[b] % ALIGN = 0 /\ sz[c] % ALIGN = 0
        BY <1>1 DEF Struct
      <4> QED
        BY <4>1, <1>1, <1>4 DEF HDR_SIZE, ALIGN
    <3>2. c + HDR_SIZE + sz[c] # c
      BY <1>1 DEF HDR_SIZE
    <3>3. ASSUME NEW e \in B \ {c}, b < e PROVE c + HDR_SIZE + sz[c] <= e
      <4>1. c <= e
        BY <3>3, <1>1 DEF Struct
      <4> QED
        BY <4>1, <3>3, <1>1 DEF Struct
    <3> QED
      BY <2>1, <3>1, <3>2, <3>3, <1>3, <1>5
  <2>2. CASE d # b
    <3>1. /\ sz2[d] = sz[d] /\ sz[d] % ALIGN = 0
          /\ d + HDR_SIZE + sz[d] \in B \cup {hsize}
          /\ \A e \in B : d < e => d + HDR_SIZE + sz[d] <= e
      BY <2>2, <1>1, <1>4 DEF Struct
    <3>2. d + HDR_SIZE + sz[d] # c
      BY <2>2, <3>1, <1>1, <1>2 DEF Struct, HDR_SIZE
    <3> QED
      BY <3>1, <3>2
  <2> QED
    BY <2>1, <2>2
<1>9. Follows(F, b, c) /\ Follows(F, c, nx[c]) /\ nx[c] \in F \cup {END_OF_LIST}
  BY <1>1 DEF Struct
<1>10. Follows(F \ {c}, b, nx[c])
  <2>1. b \in Int
    BY <1>1
  <2> QED
    BY <2>1, <1>1, <1>9, FollowsRemove
<1>11. ASSUME NEW d \in F \ {c} PROVE Follows(F \ {c}, d, nx2[d])
  <2>1. CASE d = b
    BY <2>1, <1>1, <1>10 DEF Struct
  <2>2. CASE d # b
    <3>1. nx2[d] = nx[d] /\ Follows(F, d, nx[d])
      BY <2>2, <1>1 DEF Struct
    <3>2. nx[d] # c
      BY <2>2, <3>1, <1>1, <1>9, FollowsInjective
    <3> QED
      BY <3>1, <3>2, <1>1, FollowsKeep
  <2> QED
    BY <2>1, <2>2
<1>12. Follows(F \ {c}, -1, h)
  <2>1. Follows(F, -1, h)
    BY DEF Struct
  <2>2. h # c
    BY <2>1, <1>1, <1>9, FollowsInjective
  <2> QED
    BY <2>1, <2>2, <1>1, FollowsKeep
<1>13. 0 \in B \ {c}
  BY <1>1, <1>2 DEF Struct
<1> HIDE DEF sz2, nx2
<1>14. /\ B \ {c} \subseteq Offs /\ F \ {c} \subseteq B \ {c} /\ h \in Offs \cup {END_OF_LIST}
  BY DEF Struct
<1>15. Struct(B \ {c}, F \ {c}, sz2, nx2, h)
  BY <1>6, <1>7, <1>8, <1>11, <1>12, <1>13, <1>14 DEF Struct
<1> QED
  BY <1>15 DEF sz2, nx2

\* kfree links the block, merges it with its neighbours and returns.
LEMMA FreeInsertStep ==
  ASSUME IInv, FreeInsert PROVE IInv'
<1> DEFINE S == Listed
           p == IF prev_off = END_OF_LIST THEN -1 ELSE prev_off
           mp == prev_off # END_OF_LIST /\ prev_off + HDR_SIZE + size[prev_off] = off
           hd == IF mp THEN prev_off ELSE off
           len == IF mp THEN size[prev_off] + HDR_SIZE + size[off] ELSE size[off]
           mn == hd + HDR_SIZE + len = cur_off /\ cur_off # END_OF_LIST /\ magic[cur_off] = "FREE"
           h1 == IF p = -1 THEN off ELSE free_head
           nx1 == IF p = -1 THEN [next_off EXCEPT ![off] = cur_off]
                  ELSE [next_off EXCEPT ![off] = cur_off, ![p] = off]
           F1 == S \cup {off}
           sz2 == IF mp THEN [size EXCEPT ![prev_off] = len] ELSE size
           nx2 == IF mp THEN [nx1 EXCEPT ![prev_off] = nx1[off]] ELSE nx1
           B2 == IF mp THEN blocks \ {off} ELSE blocks
           F2 == IF mp THEN F1 \ {off} ELSE F1
           B3 == IF mn THEN B2 \ {cur_off} ELSE B2
           F3 == IF mn THEN F2 \ {cur_off} ELSE F2
           sz3 == IF mn THEN [sz2 EXCEPT ![hd] = sz2[hd] + HDR_SIZE + sz2[cur_off]] ELSE sz2
           nx3 == IF mn THEN [nx2 EXCEPT ![hd] = nx2[cur_off]] ELSE nx2
<1>1. /\ pc = "free" /\ off \in FreeBlocks /\ off \notin S /\ FreeBlocks = S \cup {off}
      /\ blocks \subseteq Offs /\ S \subseteq blocks /\ off \in Offs /\ off \in Nat
      /\ S \in SUBSET Nat /\ off \in blocks
      /\ off # END_OF_LIST
      /\ size \in [Offs -> 0 .. WORD - 1]
      /\ next_off \in [Offs -> Offs \cup {END_OF_LIST}]
      /\ free_head \in Offs \cup {END_OF_LIST}
  BY RegionFacts DEF FreeInsert, Before, IInv, CallState, TypeOK, Listed, FreeBlocks
<1>2. /\ p \in S \cup {-1} /\ p < off
      /\ prev_off # END_OF_LIST => prev_off \in S /\ prev_off < off /\ p = prev_off /\ p # -1
      /\ prev_off = END_OF_LIST => p = -1
  BY <1>1 DEF IInv, CallState, WalkOnList
<1>0. p \in Int /\ S \subseteq Nat
  <2>1. CASE p = -1
    BY <2>1, <1>1
  <2>2. CASE p # -1
    <3> HIDE DEF p, S
    <3> QED
      BY <2>2, <1>1, <1>2
  <2> QED
    BY <2>1, <2>2
<1>3. /\ cur_off \in S \cup {END_OF_LIST}
      /\ cur_off = IF p = -1 THEN free_head ELSE next_off[p]
      /\ cur_off # END_OF_LIST => off < cur_off
  <2>1. cur_off = IF p = -1 THEN free_head ELSE next_off[p]
    BY <1>1, <1>2, RegionFacts DEF IInv, WalkOnList, TypeOK
  <2>2. cur_off \in S \cup {END_OF_LIST}
    BY <1>1, WalkFacts
  <2> QED
    BY <2>1, <2>2, <1>1 DEF FreeInsert, Before, MergePrev, MergeNext, Linked
<1>4. Struct(blocks, S, size, next_off, free_head)
  BY <1>1 DEF IInv, Tiling, ListExact, Struct
<1>5. Struct(blocks, F1, size, nx1, h1)
  BY <1>1, <1>2, <1>3, <1>4, InsertStruct
<1>6. /\ nx1[off] = cur_off
      /\ p # -1 => nx1[p] = off
      /\ \A o \in Offs : o # off /\ o # p => nx1[o] = next_off[o]
  BY <1>1, <1>2
<1>7. Struct(B2, F2, sz2, nx2, h1)
  <2>1. CASE mp
    <3>1. prev_off \in F1 /\ off \in F1 /\ nx1[prev_off] = off
          /\ off = prev_off + HDR_SIZE + size[prev_off]
      BY <2>1, <1>2, <1>6
    <3> HIDE DEF nx1, h1, F1
    <3>2. Struct(blocks \ {off}, F1 \ {off},
                 [size EXCEPT ![prev_off] = size[prev_off] + HDR_SIZE + size[off]],
                 [nx1 EXCEPT ![prev_off] = nx1[off]], h1)
      BY <3>1, <1>5, MergeStruct
    <3> QED
      BY <3>2, <2>1
  <2>2. CASE ~mp
    BY <2>2, <1>5
  <2> QED
    BY <2>1, <2>2
<1>8. /\ hd \in F2 /\ hd \in Offs /\ hd \in Nat /\ sz2[hd] = len /\ nx2[hd] = cur_off
      /\ hd <= off /\ len \in Nat /\ hd + HDR_SIZE + len = off + HDR_SIZE + size[off]
      /\ \A o \in Offs : o # hd => sz2[o] = size[o]
  <2>1. CASE mp
    <3>1. prev_off \in S /\ prev_off < off /\ prev_off \in Offs /\ prev_off \in Nat
          /\ size[prev_off] \in Nat /\ size[off] \in Nat
      <4>1. prev_off \in S /\ prev_off < off
        BY <2>1, <1>2
      <4>2. prev_off \in Offs /\ prev_off \in Nat
        BY <4>1, <1>1
      <4> QED
        BY <4>1, <4>2, <1>1, RegionFacts
    <3>2. nx2[prev_off] = cur_off
      BY <2>1, <3>1, <1>1, <1>2, <1>6
    <3>3. sz2[prev_off] = len /\ \A o \in Offs : o # prev_off => sz2[o] = size[o]
      BY <2>1, <3>1, <1>1
    <3> HIDE DEF nx2, sz2
    <3> QED
      BY <2>1, <3>1, <3>2, <3>3 DEF HDR_SIZE
  <2>2. CASE ~mp
    BY <2>2, <1>1, <1>6 DEF HDR_SIZE
  <2> QED
    BY <2>1, <2>2
<1>9. cur_off # END_OF_LIST =>
        cur_off \in F2 /\ cur_off \in Offs /\ sz2[cur_off] = size[cur_off]
        /\ nx2[cur_off] = next_off[cur_off] /\ cur_off # hd
  <2> SUFFICES ASSUME cur_off # END_OF_LIST
               PROVE cur_off \in F2 /\ cur_off \in Offs /\ sz2[cur_off] = size[cur_off]
                     /\ nx2[cur_off] = next_off[cur_off] /\ cur_off # hd
    OBVIOUS
  <2>1. cur_off \in S /\ off < cur_off /\ cur_off \in Offs /\ cur_off \in Nat
    BY <1>1, <1>3
  <2>2. cur_off # off /\ cur_off # p /\ cur_off # hd
    BY <2>1, <1>1, <1>2, <1>8
  <2>3. nx1[cur_off] = next_off[cur_off]
    BY <2>1, <2>2, <1>6
  <2>4. nx2[cur_off] = next_off[cur_off]
    <3>1. mp => prev_off \in Offs /\ cur_off # prev_off
      BY <1>1, <1>2, <2>2
    <3>2. nx1 \in [Offs -> Offs \cup {END_OF_LIST}]
      BY <1>5 DEF Struct
    <3> HIDE DEF nx1
    <3> QED
      BY <3>1, <3>2, <2>1, <2>3
  <2>5. cur_off \in F2
    BY <2>1, <2>2
  <2> QED
    BY <2>1, <2>2, <2>4, <2>5, <1>8
<1>10. Struct(B3, F3, sz3, nx3, h1)
  <2>1. CASE mn
    <3>1. hd \in F2 /\ cur_off \in F2 /\ cur_off = hd + HDR_SIZE + sz2[hd] /\ nx2[hd] = cur_off
      BY <2>1, <1>8, <1>9
    <3> HIDE DEF hd, sz2, nx2, F2, B2, h1
    <3>2. Struct(B2 \ {cur_off}, F2 \ {cur_off},
                 [sz2 EXCEPT ![hd] = sz2[hd] + HDR_SIZE + sz2[cur_off]],
                 [nx2 EXCEPT ![hd] = nx2[cur_off]], h1)
      BY <3>1, <1>7, MergeStruct
    <3> QED
      BY <3>2, <2>1
  <2>2. CASE ~mn
    BY <2>2, <1>7
  <2> QED
    BY <2>1, <2>2
<1>11. free_head' = h1 /\ blocks' = B3 /\ magic' = magic
  BY <1>2 DEF FreeInsert, Before, MergePrev, MergeNext, Linked
<1>12. size' = sz3
  <2>1. size' = [size EXCEPT ![hd] = IF mn THEN len + HDR_SIZE + size[cur_off] ELSE len]
    BY DEF FreeInsert, Before, MergePrev, MergeNext, Linked
  <2>2. sz3 \in [Offs -> 0 .. WORD - 1] /\ sz2 \in [Offs -> 0 .. WORD - 1]
    BY <1>7, <1>10 DEF Struct
  <2>3. ASSUME NEW o \in Offs PROVE size'[o] = sz3[o]
    <3>1. CASE o = hd
      <4> HIDE DEF hd, sz2, len
      <4> QED
        BY <3>1, <2>1, <2>2, <1>1, <1>8, <1>9
    <3>2. CASE o # hd
      <4> HIDE DEF hd, sz2, len
      <4> QED
        BY <3>2, <2>1, <2>2, <1>1, <1>8
    <3> QED
      BY <3>1, <3>2
  <2> HIDE DEF sz3, hd, len, mn
  <2> QED
    BY <2>1, <2>2, <2>3, <1>1
<1>13. next_off' = nx3
  <2>1. CASE mp
    <3>1. prev_off # END_OF_LIST /\ prev_off \in Offs /\ p = prev_off /\ p # -1 /\ prev_off # off
      BY <2>1, <1>1, <1>2
    <3>2. nx2 = [next_off EXCEPT ![off] = cur_off, ![prev_off] = cur_off]
      BY <2>1, <3>1, <1>1
    <3> QED
      BY <2>1, <3>1, <3>2, <1>9 DEF FreeInsert, Before, MergePrev, MergeNext, Linked
  <2>2. CASE ~mp
    <3>1. CASE prev_off = END_OF_LIST
      BY <2>2, <3>1, <1>2, <1>9 DEF FreeInsert, Before, MergePrev, MergeNext, Linked
    <3>2. CASE prev_off # END_OF_LIST
      BY <2>2, <3>2, <1>2, <1>9 DEF FreeInsert, Before, MergePrev, MergeNext, Linked
    <3> QED
      BY <3>1, <3>2
  <2> QED
    BY <2>1, <2>2
<1>14. FreeBlocks' = F3
  <2>1. \A b \in blocks : magic[b] = "FREE" <=> b \in F1
    BY <1>1 DEF FreeBlocks
  <2>2. F1 \subseteq blocks
    BY <1>1
  <2> QED
    BY <2>1, <2>2, <1>11 DEF FreeBlocks
<1>15. \A b \in S : b + HDR_SIZE + size[b] \notin S
  BY DEF IInv, Coalesced
<1>16. ASSUME NEW b \in F3 PROVE b + HDR_SIZE + sz3[b] \notin F3
  <2>1. off + HDR_SIZE + size[off] # off /\ off + HDR_SIZE + size[off] \in Nat
    BY <1>1, RegionFacts DEF HDR_SIZE
  <2>2. cur_off # END_OF_LIST => /\ off + HDR_SIZE + size[off] <= cur_off
                                 /\ cur_off \in S /\ cur_off \in Nat /\ size[cur_off] \in Nat
    BY <1>1, <1>3, RegionFacts DEF IInv, Tiling
  <2>3. CASE b = hd /\ mn
    <3>1. hd + HDR_SIZE + sz3[hd] = cur_off + HDR_SIZE + size[cur_off]
      <4>1. sz3[hd] = len + HDR_SIZE + size[cur_off]
        <5> HIDE DEF hd, len
        <5> QED
          BY <2>3, <1>7, <1>8, <1>9 DEF Struct
      <4> HIDE DEF hd, len, sz3
      <4> QED
        BY <2>3, <4>1, <1>8, <2>2 DEF HDR_SIZE
    <3>2. cur_off + HDR_SIZE + size[cur_off] \notin S
      BY <2>3, <2>2, <1>15
    <3>3. cur_off + HDR_SIZE + size[cur_off] # off
      BY <2>3, <2>2, <1>1, <1>3 DEF HDR_SIZE
    <3> QED
      BY <2>3, <3>1, <3>2, <3>3
  <2>4. CASE b = hd /\ ~mn
    <3>1. hd + HDR_SIZE + sz3[hd] = off + HDR_SIZE + size[off]
      <4> HIDE DEF hd, len
      <4> QED
        BY <2>4, <1>8
    <3>2. ASSUME off + HDR_SIZE + size[off] \in S PROVE FALSE
      <4>1. off < off + HDR_SIZE + size[off]
        BY <1>1, RegionFacts DEF HDR_SIZE
      <4>2. cur_off # END_OF_LIST /\ cur_off <= off + HDR_SIZE + size[off]
        <5>1. Follows(S, p, cur_off)
          BY <1>2, <1>3, <1>4 DEF Struct
        <5>2. p \in Int /\ p < off + HDR_SIZE + size[off]
          <6> HIDE DEF p
          <6> QED
            BY <4>1, <2>1, <1>0, <1>1, <1>2
        <5> HIDE DEF p
        <5> QED
          BY <5>1, <5>2, <3>2, <2>1 DEF Follows
      <4>3. cur_off = off + HDR_SIZE + size[off]
        BY <4>2, <2>2, <2>1
      <4>4. magic[cur_off] = "FREE"
        BY <4>2, <2>2, <1>1 DEF FreeBlocks
      <4> QED
        BY <2>4, <4>2, <4>3, <4>4, <1>8
    <3> QED
      BY <2>4, <3>1, <3>2, <2>1
  <2>5. CASE b # hd
    <3>1. b \in S /\ b \in Offs /\ b \in Nat /\ size[b] \in Nat
      BY <2>5, <1>1, RegionFacts
    <3>2. sz3[b] = size[b]
      <4>1. sz2[b] = size[b]
        BY <2>5, <3>1, <1>8
      <4> HIDE DEF hd, sz2
      <4> QED
        BY <4>1, <2>5, <3>1, <1>7, <1>8 DEF Struct
    <3>3. ASSUME b + HDR_SIZE + size[b] = off, ~mp PROVE FALSE
      <4>1. b < off
        BY <3>1, <3>3, <1>1 DEF HDR_SIZE
      <4>2. b <= p
        <5>1. Follows(S, p, cur_off)
          BY <1>2, <1>3, <1>4 DEF Struct
        <5>2. b > p => cur_off # END_OF_LIST /\ cur_off <= b
          BY <5>1, <3>1 DEF Follows
        <5>3. p \in Int /\ (cur_off # END_OF_LIST => cur_off \in Nat /\ off < cur_off)
          <6> HIDE DEF p, S
          <6> QED
            BY <1>0, <1>1, <1>3
        <5> HIDE DEF p
        <5> QED
          BY <5>2, <5>3, <4>1, <3>1, <1>1
      <4>3. prev_off # END_OF_LIST /\ p = prev_off /\ prev_off \in blocks /\ prev_off \in Nat
        <5>1. p # -1
          BY <4>2, <3>1
        <5>2. prev_off # END_OF_LIST /\ prev_off \in S /\ p = prev_off
          BY <5>1, <1>2
        <5> QED
          BY <5>2, <1>1
      <4>4. b # prev_off
        BY <3>3, <4>3
      <4>5. b + HDR_SIZE + size[b] <= prev_off
        BY <4>2, <4>3, <4>4, <3>1, <1>1 DEF IInv, Tiling
      <4> QED
        BY <4>3, <4>5, <3>3, <1>2, <1>1
    <3>4. b + HDR_SIZE + size[b] \notin S
      BY <3>1, <1>15
    <3> QED
      BY <3>2, <3>3, <3>4
  <2> QED
    BY <2>3, <2>4, <2>5
<1>17. MagicExact'
  <2>1. \A b \in blocks \ B3 : magic[b] = "FREE"
    BY <1>1, <1>3 DEF FreeBlocks
  <2>2. B3 \subseteq blocks
    OBVIOUS
  <2> QED
    BY <2>1, <2>2, <1>11 DEF IInv, MagicExact
<1> HIDE DEF S, p, mp, hd, len, mn, h1, nx1, F1, sz2, nx2, B2, F2, B3, F3, sz3, nx3
<1>18. MemInv'
  <2>1. magic' \in [Offs -> Contents]
    BY <1>11 DEF IInv, TypeOK
  <2> QED
    BY <2>1, <1>10, <1>11, <1>12, <1>13, <1>14, <1>16, <1>17 DEF MemInv, Struct
<1>19. /\ (used_bytes \in 0 .. WORD - 1)' /\ (free_bytes \in 0 .. WORD - 1)'
       /\ (high_water \in 0 .. WORD - 1)'
  BY DEF FreeInsert, stats, IInv, TypeOK
<1> QED
  BY <1>18, <1>19, ReturnStep DEF FreeInsert, Before, MergePrev, MergeNext, Linked

\* A step that leaves the heap and the running call alone.
LEMMA QuietStep ==
  ASSUME IInv, outcome' \in {"none", "ok", "NULL", "error"},
         UNCHANGED <<mem, free_head, stats, pc, op, locals, blocks>>
  PROVE  IInv'
<1> USE DEF mem, stats, locals
<1>1. Listed' = Listed /\ Live' = Live /\ FreeBlocks' = FreeBlocks
  BY DEF Listed, Live, FreeBlocks
<1>2. TypeOK'
  BY DEF IInv, TypeOK
<1>3. Tiling' /\ MagicExact' /\ Coalesced' /\ WalkOnList' /\ CallState'
  BY <1>1 DEF IInv, Tiling, MagicExact, Coalesced, WalkOnList, CallState
<1>4. ListExact'
  BY <1>1 DEF IInv, ListExact, Follows
<1> QED
  BY <1>2, <1>3, <1>4 DEF IInv

\* Every step of the heap keeps the invariant.
LEMMA InvStep ==
  ASSUME IInv, Assumptions, [Next]_vars PROVE IInv'
<1>1. CASE heap_init
  BY <1>1, HeapInitStep
<1>2. ASSUME NEW s \in Sizes, kmalloc_refused(s) PROVE IInv'
  BY <1>2, QuietStep DEF kmalloc_refused
<1>3. ASSUME NEW s \in Sizes, kmalloc(s) \/ kzalloc(s) PROVE IInv'
  BY <1>3, StartAllocStep DEF kmalloc, kzalloc
<1>4. ASSUME NEW p \in FreeArgs, kfree(p) PROVE IInv'
  BY <1>4, EnterFreeStep DEF kfree
<1>5. ASSUME NEW p \in Offs, NEW s \in Sizes, krealloc(p, s) PROVE IInv'
  <2>1. p \in Live
    BY <1>5 DEF krealloc, Assumptions, Live
  <2> QED
    BY <1>5, <2>1, StartAllocStep DEF krealloc
<1>6. ASSUME NEW b \in Offs, UserWrite(b) PROVE IInv'
  BY <1>6, UserWriteStep
<1>7. CASE AllocWalk
  BY <1>7, AllocWalkStep
<1>8. CASE AllocTake
  BY <1>8, AllocTakeStep
<1>9. CASE AllocFail
  BY <1>9, AllocFailStep
<1>10. CASE ZeroFill
  BY <1>10, ZeroFillStep
<1>11. CASE FreeWalk
  BY <1>11, FreeWalkStep
<1>12. CASE FreeInsert
  BY <1>12, FreeInsertStep
<1>13. CASE ReallocCopy
  BY <1>13, ReallocCopyStep
<1>14. CASE ReallocFree
  <2>1. pc = "release" /\ fresh \in Live /\ rptr \in Live /\ rptr # fresh
    BY <1>14 DEF ReallocFree, IInv, CallState
  <2>2. rptr \in Offs
    BY <2>1, LiveBlocks
  <2> QED
    BY <1>14, <2>1, <2>2, EnterFreeStep DEF ReallocFree
<1>15. CASE UNCHANGED vars
  <2>1. outcome' \in {"none", "ok", "NULL", "error"}
    BY <1>15 DEF vars, IInv, TypeOK
  <2> QED
    BY <1>15, <2>1, QuietStep DEF vars
<1> QED
  BY <1>1, <1>2, <1>3, <1>4, <1>5, <1>6, <1>7, <1>8, <1>9, <1>10, <1>11, <1>12,
     <1>13, <1>14, <1>15 DEF Next, Kernel

\* The inductive invariant holds in every reachable state of mm/heap_c.c, for
\* every region and every set of requests that cannot wrap, when krealloc is
\* only given live blocks.
THEOREM HeapInvariant ==
  ASSUME Assumptions PROVE Spec => []IInv
<1>1. Init => IInv
  BY InitInv
<1>2. IInv /\ [Next]_vars => IInv'
  BY InvStep
<1> QED
  BY <1>1, <1>2, PTL DEF Spec

\* Type correctness of the allocator's state.
THEOREM TypeCorrect ==
  ASSUME Assumptions PROVE Spec => []TypeOK
<1>1. IInv => TypeOK
  BY DEF IInv
<1> QED
  BY <1>1, HeapInvariant, PTL

\* heap_c.c never loses or overlaps a byte of its region.
THEOREM RegionTiled ==
  ASSUME Assumptions PROVE Spec => []Tiling
<1>1. IInv => Tiling
  BY DEF IInv
<1> QED
  BY <1>1, HeapInvariant, PTL

\* The free list is exactly the free blocks, in address order.
THEOREM FreeListExact ==
  ASSUME Assumptions PROVE Spec => []ListExact
<1>1. IInv => ListExact
  BY DEF IInv
<1> QED
  BY <1>1, HeapInvariant, PTL

\* Adjacent frees have coalesced whenever no kfree is running.
THEOREM FreesCoalesce ==
  ASSUME Assumptions PROVE Spec => []Coalesced
<1>1. IInv => Coalesced
  BY DEF IInv
<1> QED
  BY <1>1, HeapInvariant, PTL

\* The magic of a header that says MAGIC_USED is never that of a stale or wild
\* pointer, so kfree refuses every double free.
THEOREM DoubleFreeDetected ==
  ASSUME Assumptions PROVE Spec => []MagicExact
<1>1. IInv => MagicExact
  BY DEF IInv
<1> QED
  BY <1>1, HeapInvariant, PTL

\* A walk of kmalloc or kfree never leaves the list it walks, and a call never
\* loses the block it has taken or will free.
THEOREM WalksSound ==
  ASSUME Assumptions PROVE Spec => []WalkSound
<1>1. IInv => WalkSound
  BY DEF IInv, WalkSound
<1> QED
  BY <1>1, HeapInvariant, PTL

(***************************************************************************)
(* What is in the payloads.                                                *)
(***************************************************************************)
\* The payloads of two blocks share no granule, and hold no header.
LEMMA PayloadsApart ==
  ASSUME IInv, pc # "boot", NEW b \in blocks, NEW c \in blocks, b # c,
         NEW o \in Payload(b, size[b])
  PROVE  o # c /\ o \notin Payload(c, size[c])
<1>1. /\ b \in Nat /\ size[b] \in Nat /\ (b < c => b + HDR_SIZE + size[b] <= c)
  BY BlockFacts
<1>2. /\ c \in Nat /\ size[c] \in Nat /\ (c < b => c + HDR_SIZE + size[c] <= b)
  BY BlockFacts
<1>3. o \in Nat /\ b + HDR_SIZE <= o /\ o < b + HDR_SIZE + size[b]
  BY RegionFacts DEF Payload
<1> QED
  BY <1>1, <1>2, <1>3 DEF Payload, HDR_SIZE

LEMMA PayloadWithin ==
  ASSUME NEW a \in Nat, NEW n \in Nat, NEW b \in Nat, NEW m \in Nat, b <= a, a + n <= b + m
  PROVE  Payload(a, n) \subseteq Payload(b, m)
<1> SUFFICES ASSUME NEW o \in Payload(a, n) PROVE o \in Payload(b, m)
  OBVIOUS
<1>1. o \in Offs /\ o \in Nat /\ a + 16 <= o /\ o < a + 16 + n
  BY RegionFacts DEF Payload, HDR_SIZE
<1>2. b + 16 <= o /\ o < b + 16 + m
  BY <1>1
<1> QED
  BY <1>1, <1>2 DEF Payload, HDR_SIZE

\* What handing out a block changes: its header, and at most one granule of its
\* payload, where the header of the remainder now stands.
LEMMA TakeEffect ==
  ASSUME IInv, Assumptions, AllocTake
  PROVE  /\ pc = "alloc" /\ cur_off \in blocks /\ magic[cur_off] = "FREE"
         /\ \A o \in Offs : o # cur_off /\ o \notin Payload(cur_off, size[cur_off]) => magic'[o] = magic[o]
         /\ \A o \in Offs : magic'[o] = magic[o] \/ magic'[o] \in {"USED", "FREE"}
         /\ \A b \in blocks : b # cur_off => size'[b] = size[b]
         /\ \A b \in FreeBlocks' : \/ b \in FreeBlocks /\ b # cur_off
                                  \/ Payload(b, size'[b]) \subseteq Payload(cur_off, size[cur_off])
<1>1. pc = "alloc" /\ cur_off # END_OF_LIST /\ Fits(cur_off)
  BY DEF AllocTake
<1>2. /\ cur_off \in blocks /\ magic[cur_off] = "FREE"
      /\ need \in Nat /\ need % ALIGN = 0 /\ need + HDR_SIZE <= size[cur_off]
      /\ Splits(cur_off) => need + HDR_SIZE + ALIGN <= size[cur_off]
  BY <1>1, FitFacts
<1>3. /\ cur_off \in Offs /\ cur_off \in Nat /\ size[cur_off] \in Nat
      /\ cur_off + HDR_SIZE + size[cur_off] <= hsize
  BY <1>1, <1>2, BlockFacts
<1>4. magic \in [Offs -> Contents] /\ size \in [Offs -> 0 .. WORD - 1] /\ blocks \subseteq Offs
  BY DEF IInv, TypeOK
<1>5. CASE Splits(cur_off)
  <2> DEFINE new == cur_off + HDR_SIZE + need
             rest == size[cur_off] - need - HDR_SIZE
  <2>1. /\ new \in Nat /\ new < hsize /\ rest \in Nat /\ rest < WORD /\ hsize < WORD
        /\ cur_off + HDR_SIZE <= new /\ new < cur_off + HDR_SIZE + size[cur_off]
    BY <1>2, <1>3, <1>5, RegionFacts DEF HDR_SIZE, ALIGN
  <2>2. new % ALIGN = 0
    BY <1>2, <1>3, RegionFacts DEF HDR_SIZE, ALIGN
  <2>3. new \in Offs /\ new \in Payload(cur_off, size[cur_off]) /\ new # cur_off
    BY <1>3, <2>1, <2>2, RegionFacts DEF Payload, HDR_SIZE
  <2>4. U32(new) = new /\ U32(rest) = rest
    <3> HIDE DEF new, rest
    <3>1. new < WORD
      BY <2>1, RegionFacts
    <3> QED
      BY <2>1, <3>1, U32Identity
  <2>5. SplitAs(new, rest)
    BY <1>5, <2>4 DEF AllocTake, Split
  <2> HIDE DEF new
  <2>6. \A o \in Offs : magic'[o] = IF o = cur_off THEN "USED" ELSE IF o = new THEN "FREE" ELSE magic[o]
    BY <1>3, <1>4, <2>3, <2>5 DEF SplitAs
  <2>7. \A b \in Offs : b # cur_off => size'[b] = IF b = new THEN rest ELSE size[b]
    BY <1>3, <1>4, <2>3, <2>5 DEF SplitAs
  <2>8. new \notin blocks
    <3>1. size[cur_off] <= size[cur_off]
      BY <1>3
    <3> QED
      BY <1>1, <1>2, <1>3, <2>3, <3>1, PayloadFacts
  <2>9. \A b \in FreeBlocks' : b = new \/ (b \in FreeBlocks /\ b # cur_off)
    BY <1>4, <2>5, <2>6 DEF FreeBlocks, SplitAs
  <2>10. Payload(new, size'[new]) \subseteq Payload(cur_off, size[cur_off])
    <3>1. size'[new] = rest
      BY <2>3, <2>7
    <3> QED
      BY <1>2, <1>3, <2>1, <3>1, PayloadWithin DEF new, HDR_SIZE
  <2> QED
    BY <1>1, <1>2, <1>4, <2>3, <2>6, <2>7, <2>8, <2>9, <2>10
<1>6. CASE ~Splits(cur_off)
  <2>1. TakeWhole
    BY <1>6 DEF AllocTake
  <2>2. /\ \A o \in Offs : magic'[o] = IF o = cur_off THEN "USED" ELSE magic[o]
        /\ size' = size /\ blocks' = blocks
    BY <1>3, <1>4, <2>1 DEF TakeWhole
  <2>3. \A b \in FreeBlocks' : b \in FreeBlocks /\ b # cur_off
    BY <1>4, <2>2 DEF FreeBlocks
  <2> QED
    BY <1>1, <1>2, <2>2, <2>3
<1> QED
  BY <1>5, <1>6

\* What the granules kzalloc, krealloc and callers write have in common: they
\* belong to the payload of one live block, w.
WritesIn(w) ==
  /\ w \in Live /\ size' = size /\ blocks' = blocks
  /\ \A o \in Offs : o \notin Payload(w, size[w]) => magic'[o] = magic[o]

LEMMA ZeroEffect == ASSUME IInv, ZeroFill PROVE WritesIn(fresh) /\ pc = "zero"
<1>1. fresh \in Live /\ want \in Nat /\ want <= size[fresh] /\ pc = "zero"
  BY SizesNat DEF ZeroFill, IInv, CallState
<1>2. fresh \in Nat /\ size[fresh] \in Nat
  BY <1>1, LiveBlocks, BlockFacts
<1>3. Payload(fresh, want) \subseteq Payload(fresh, size[fresh])
  BY <1>1, <1>2, PayloadWithin
<1> QED
  BY <1>1, <1>3 DEF ZeroFill, Fill, WritesIn

LEMMA CopyEffect == ASSUME IInv, ReallocCopy PROVE WritesIn(fresh) /\ pc = "copy"
<1>1. fresh \in Live /\ want \in Nat /\ want <= size[fresh] /\ pc = "copy" /\ rptr \in Live
  BY SizesNat DEF ReallocCopy, IInv, CallState
<1>2. fresh \in Nat /\ size[fresh] \in Nat /\ size[rptr] \in Nat
  BY <1>1, LiveBlocks, BlockFacts
<1>3. Copied \in Nat /\ Copied <= size[fresh]
  BY <1>1, <1>2 DEF Copied
<1>4. Payload(fresh, Copied) \subseteq Payload(fresh, size[fresh])
  BY <1>2, <1>3, PayloadWithin
<1> QED
  BY <1>1, <1>4 DEF ReallocCopy, WritesIn

LEMMA WriteEffect == ASSUME IInv, NEW b \in Offs, UserWrite(b) PROVE WritesIn(b) /\ pc = "idle"
  BY DEF UserWrite, Fill, WritesIn, Live

\* What kfree changes before its walk: the freed block and nothing else.
LEMMA FreeEffect ==
  ASSUME IInv, NEW entry, NEW p \in FreeArgs \cup Offs, EnterFree(entry, p), pc \in {"idle", "release"}
  PROVE  \/ magic' = magic /\ size' = size /\ blocks' = blocks /\ pc' = "idle" /\ Refused(p)
         \/ /\ p \in Live /\ size' = size /\ blocks' = blocks /\ pc' = "free" /\ off' = p
            /\ magic'[p] = "FREE"
            /\ \A o \in Payload(p, size[p]) : magic'[o] = "POISON"
            /\ \A o \in Offs : o # p /\ o \notin Payload(p, size[p]) => magic'[o] = magic[o]
<1>1. CASE Refused(p)
  BY <1>1 DEF EnterFree, Return, mem
<1>2. CASE ~Refused(p)
  <2>1. p \in Live /\ p \in Offs
    BY <1>2, RegionFacts DEF Refused, FreeArgs, HDR_SIZE, Live
  <2>2. \A o \in Payload(p, size[p]) : o \in Offs /\ o # p
    BY <2>1, RegionFacts DEF Payload, HDR_SIZE
  <2>3. \A o \in Offs : magic'[o] = IF o = p THEN "FREE"
                                    ELSE IF o \in Payload(p, size[p]) THEN "POISON" ELSE magic[o]
    BY <1>2, <2>1 DEF EnterFree, Poisoned, Fill
  <2> QED
    BY <1>2, <2>1, <2>2, <2>3 DEF EnterFree
<1> QED
  BY <1>1, <1>2

\* kfree's last step only moves the boundaries of free blocks.
LEMMA InsertEffect ==
  ASSUME IInv, FreeInsert
  PROVE  magic' = magic /\ \A b \in Live : size'[b] = size[b]
<1>1. magic[off] = "FREE" /\ (prev_off # END_OF_LIST => magic[prev_off] = "FREE")
  BY DEF FreeInsert, Before, IInv, CallState, WalkOnList, Listed, FreeBlocks
<1>2. ASSUME NEW b \in Live PROVE size'[b] = size[b]
  <2>1. magic[b] = "USED" /\ b \in Offs /\ size \in [Offs -> 0 .. WORD - 1]
    BY DEF Live, IInv, TypeOK
  <2> QED
    BY <1>1, <2>1 DEF FreeInsert, Before, MergePrev, MergeNext, Linked
<1> QED
  BY <1>2 DEF FreeInsert

\* Memory starts out as the loader left it.
RawAtBoot == pc = "boot" => \A o \in Offs : magic[o] = "RAW"

Clean(b, n) == \A o \in Payload(b, n) : magic[o] \notin {"USER", "ZERO"}

\* Two clean neighbours and the header between them make a clean block.
LEMMA CleanJoin ==
  ASSUME NEW b \in Offs, NEW n \in Nat, NEW c \in Offs, NEW m \in Nat, b + HDR_SIZE + n = c,
         Clean(b, n), Clean(c, m), magic[c] = "FREE"
  PROVE  Clean(b, n + HDR_SIZE + m)
<1> SUFFICES ASSUME NEW o \in Payload(b, n + HDR_SIZE + m) PROVE magic[o] \notin {"USER", "ZERO"}
  BY DEF Clean
<1>1. /\ o \in Offs /\ o \in Nat /\ b \in Nat /\ c \in Nat /\ o % 16 = 0 /\ c % 16 = 0
      /\ b + 16 <= o /\ o < b + 16 + (n + 16 + m)
  BY RegionFacts DEF Payload, HDR_SIZE, ALIGN
<1>2. o < b + 16 + n \/ o = c \/ c + 16 <= o
  BY <1>1 DEF HDR_SIZE
<1>3. b + 16 + n = c
  BY DEF HDR_SIZE
<1>4. o < c + 16 + m
  BY <1>1, <1>3
<1>5. o \in Payload(b, n) \/ o = c \/ o \in Payload(c, m)
  BY <1>1, <1>2, <1>4 DEF Payload, HDR_SIZE
<1> QED
  BY <1>5 DEF Clean

\* A write to a live block leaves every free block as it was.
LEMMA WritePoisoned ==
  ASSUME IInv, FreeIsPoisoned, pc # "boot", NEW w, WritesIn(w)
  PROVE  FreeIsPoisoned'
<1>1. w \in blocks /\ magic[w] = "USED" /\ w \in Offs /\ size[w] \in Nat /\ size[w] <= size[w]
  <2>1. w \in blocks /\ magic[w] = "USED" /\ w \in Offs
    BY LiveBlocks DEF WritesIn, Live
  <2> QED
    BY <2>1, BlockFacts
<1>2. \A o \in Payload(w, size[w]) : o \notin blocks
  BY <1>1, PayloadFacts
<1>3. FreeBlocks' = FreeBlocks
  BY <1>2 DEF FreeBlocks, WritesIn, IInv, TypeOK
<1>4. ASSUME NEW b \in FreeBlocks, NEW o \in Payload(b, size[b]) PROVE magic'[o] = magic[o]
  <2>1. b \in blocks /\ b # w
    BY <1>1 DEF FreeBlocks
  <2>2. o \notin Payload(w, size[w]) /\ o \in Offs
    BY <1>1, <2>1, PayloadsApart DEF Payload
  <2> QED
    BY <2>2 DEF WritesIn
<1> QED
  BY <1>3, <1>4 DEF FreeIsPoisoned, WritesIn, Payload

LEMMA FreePoisons ==
  ASSUME IInv, FreeIsPoisoned, NEW entry, NEW p \in FreeArgs \cup Offs, EnterFree(entry, p),
         pc \in {"idle", "release"}
  PROVE  FreeIsPoisoned' /\ pc' # "boot"
<1>1. CASE magic' = magic /\ size' = size /\ blocks' = blocks /\ pc' = "idle"
  BY <1>1 DEF FreeIsPoisoned, FreeBlocks, Payload
<1>2. CASE /\ p \in Live /\ size' = size /\ blocks' = blocks /\ pc' = "free" /\ off' = p
           /\ \A o \in Payload(p, size[p]) : magic'[o] = "POISON"
           /\ \A o \in Offs : o # p /\ o \notin Payload(p, size[p]) => magic'[o] = magic[o]
  <2>1. p \in blocks /\ p \in Offs /\ size[p] \in Nat /\ size[p] <= size[p]
    <3>1. p \in blocks /\ p \in Offs
      BY <1>2, LiveBlocks
    <3> QED
      BY <3>1, BlockFacts
  <2>2. \A o \in Payload(p, size[p]) : o \notin blocks
    BY <2>1, PayloadFacts
  <2>3. \A b \in FreeBlocks' : b = p \/ (b \in FreeBlocks /\ b # p)
    BY <1>2, <2>2 DEF FreeBlocks, IInv, TypeOK
  <2>4. ASSUME NEW b \in FreeBlocks, b # p, NEW o \in Payload(b, size[b]) PROVE magic'[o] = magic[o]
    <3>1. b \in blocks
      BY DEF FreeBlocks
    <3>2. o # p /\ o \notin Payload(p, size[p]) /\ o \in Offs
      BY <2>1, <2>4, <3>1, PayloadsApart DEF Payload
    <3> QED
      BY <1>2, <3>2
  <2> QED
    BY <1>2, <2>3, <2>4 DEF FreeIsPoisoned, Payload
<1> QED
  BY <1>1, <1>2, FreeEffect

LEMMA TakePoisoned ==
  ASSUME IInv, Assumptions, FreeIsPoisoned, AllocTake PROVE FreeIsPoisoned'
<1>1. /\ cur_off \in blocks /\ magic[cur_off] = "FREE"
      /\ \A o \in Offs : magic'[o] = magic[o] \/ magic'[o] \in {"USED", "FREE"}
      /\ \A b \in blocks : b # cur_off => size'[b] = size[b]
      /\ \A b \in FreeBlocks' : \/ b \in FreeBlocks /\ b # cur_off
                               \/ Payload(b, size'[b]) \subseteq Payload(cur_off, size[cur_off])
  BY TakeEffect
<1>2. cur_off \in FreeBlocks /\ \A b \in FreeBlocks : b \in blocks
  BY <1>1 DEF FreeBlocks
<1>3. ASSUME NEW b \in FreeBlocks', NEW o \in Payload(b, size'[b])
      PROVE  o \in Offs /\ \E c \in FreeBlocks : o \in Payload(c, size[c])
  BY <1>1, <1>2 DEF Payload
<1> QED
  BY <1>1, <1>3 DEF FreeIsPoisoned, Payload

LEMMA InsertPoisoned ==
  ASSUME IInv, FreeIsPoisoned, FreeInsert PROVE FreeIsPoisoned'
<1> DEFINE h == IF MergePrev THEN prev_off ELSE off
           n == IF MergePrev THEN size[prev_off] + HDR_SIZE + size[off] ELSE size[off]
           grow == MergeNext(h, n)
<1>1. /\ pc = "free" /\ off \in FreeBlocks /\ (prev_off # END_OF_LIST => prev_off \in FreeBlocks)
      /\ (cur_off # END_OF_LIST => cur_off \in FreeBlocks)
  BY WalkFacts DEF FreeInsert, IInv, CallState, WalkOnList, Listed, FreeBlocks
<1>2. \A b \in FreeBlocks : /\ b \in blocks /\ b \in Offs /\ size[b] \in Nat
                            /\ magic[b] = "FREE" /\ Clean(b, size[b])
  <2>1. ASSUME NEW b \in FreeBlocks PROVE b \in blocks /\ b \in Offs /\ size[b] \in Nat /\ magic[b] = "FREE"
    <3>1. b \in blocks /\ magic[b] = "FREE"
      BY DEF FreeBlocks
    <3> QED
      BY <1>1, <3>1, BlockFacts
  <2> QED
    BY <2>1 DEF FreeIsPoisoned, Clean
<1>3. h \in FreeBlocks /\ n \in Nat /\ Clean(h, n)
  <2>1. CASE MergePrev
    <3>1. prev_off \in FreeBlocks /\ prev_off + HDR_SIZE + size[prev_off] = off
      BY <1>1, <2>1 DEF MergePrev
    <3>2. Clean(prev_off, size[prev_off] + HDR_SIZE + size[off])
      BY <1>1, <1>2, <3>1, CleanJoin
    <3> QED
      BY <1>1, <1>2, <2>1, <3>1, <3>2 DEF HDR_SIZE
  <2>2. CASE ~MergePrev
    BY <1>1, <1>2, <2>2
  <2> QED
    BY <2>1, <2>2
<1>4. /\ magic' = magic /\ blocks' \subseteq blocks
      /\ size' = [size EXCEPT ![h] = IF grow THEN n + HDR_SIZE + size[cur_off] ELSE n]
  BY DEF FreeInsert
<1> HIDE DEF h, n
<1>5. Clean(h, size'[h])
  <2>1. h \in Offs /\ size \in [Offs -> 0 .. WORD - 1]
    BY <1>2, <1>3 DEF IInv, TypeOK
  <2>2. size'[h] = IF grow THEN n + HDR_SIZE + size[cur_off] ELSE n
    BY <1>4, <2>1
  <2>3. CASE grow
    <3>1. h + HDR_SIZE + n = cur_off /\ cur_off \in FreeBlocks
      BY <1>1, <2>3 DEF MergeNext
    <3>2. Clean(h, n + HDR_SIZE + size[cur_off])
      BY <1>2, <1>3, <3>1, CleanJoin
    <3> QED
      BY <2>2, <2>3, <3>2
  <2>4. CASE ~grow
    BY <1>3, <2>2, <2>4
  <2> QED
    BY <2>3, <2>4
<1>6. \A b \in FreeBlocks' : b \in FreeBlocks /\ (b # h => size'[b] = size[b])
  BY <1>2, <1>4 DEF FreeBlocks, IInv, TypeOK
<1>7. ASSUME NEW b \in FreeBlocks' PROVE Clean(b, size'[b])
  BY <1>2, <1>5, <1>6
<1> QED
  BY <1>4, <1>7 DEF FreeIsPoisoned, Clean, Payload

LEMMA PoisonStep ==
  ASSUME IInv, Assumptions, FreeIsPoisoned, RawAtBoot, [Next]_vars
  PROVE  FreeIsPoisoned' /\ RawAtBoot'
<1>1. ASSUME magic' = magic, size' = size, blocks' = blocks PROVE FreeIsPoisoned'
  BY <1>1 DEF FreeIsPoisoned, FreeBlocks, Payload
<1>2. CASE heap_init
  <2>1. \A o \in Offs : magic'[o] \in {"RAW", "FREE"}
    BY <1>2, RegionFacts DEF heap_init, RawAtBoot, IInv, TypeOK
  <2> QED
    BY <1>2, <2>1 DEF heap_init, FreeIsPoisoned, RawAtBoot, Payload
<1>3. ASSUME NEW s \in Sizes, kmalloc_refused(s) PROVE FreeIsPoisoned' /\ RawAtBoot'
  BY <1>1, <1>3 DEF kmalloc_refused, mem, RawAtBoot
<1>4. ASSUME NEW entry, NEW s \in Sizes, NEW p, StartAlloc(entry, s, p) PROVE FreeIsPoisoned' /\ RawAtBoot'
  BY <1>1, <1>4 DEF StartAlloc, mem, RawAtBoot
<1>5. ASSUME NEW p \in FreeArgs, kfree(p) PROVE FreeIsPoisoned' /\ RawAtBoot'
  BY <1>5, FreePoisons DEF kfree, RawAtBoot
<1>6. CASE ReallocFree
  <2>1. rptr \in Offs /\ pc = "release"
    BY <1>6, LiveBlocks DEF ReallocFree, IInv, CallState
  <2> QED
    BY <1>6, <2>1, FreePoisons DEF ReallocFree, RawAtBoot
<1>7. CASE AllocTake
  BY <1>7, TakePoisoned DEF AllocTake, Return, RawAtBoot
<1>8. CASE FreeInsert
  BY <1>8, InsertPoisoned DEF FreeInsert, Return, RawAtBoot
<1>9. CASE AllocWalk \/ FreeWalk
  BY <1>1, <1>9 DEF AllocWalk, FreeWalk, mem, RawAtBoot
<1>10. CASE AllocFail
  BY <1>1, <1>10 DEF AllocFail, Return, mem, RawAtBoot
<1>11. CASE ZeroFill
  BY <1>11, ZeroEffect, WritePoisoned DEF ZeroFill, Return, RawAtBoot
<1>12. CASE ReallocCopy
  BY <1>12, CopyEffect, WritePoisoned DEF ReallocCopy, RawAtBoot
<1>13. ASSUME NEW b \in Offs, UserWrite(b) PROVE FreeIsPoisoned' /\ RawAtBoot'
  BY <1>13, WriteEffect, WritePoisoned DEF UserWrite, RawAtBoot
<1>14. CASE UNCHANGED vars
  BY <1>1, <1>14 DEF vars, mem, RawAtBoot
<1> QED
  BY <1>2, <1>3, <1>4, <1>5, <1>6, <1>7, <1>8, <1>9, <1>10, <1>11, <1>12, <1>13, <1>14
     DEF Next, Kernel, kmalloc, kzalloc, krealloc

\* Whatever a caller has written into a block is gone from memory once kfree has
\* taken the block back, and stays gone while blocks are split and merged.
THEOREM FreedDataGone ==
  ASSUME Assumptions PROVE Spec => []FreeIsPoisoned
<1>1. Init => FreeIsPoisoned /\ RawAtBoot
  BY DEF Init, FreeIsPoisoned, FreeBlocks, RawAtBoot
<1>2. IInv /\ FreeIsPoisoned /\ RawAtBoot /\ [Next]_vars => (FreeIsPoisoned /\ RawAtBoot)'
  BY PoisonStep
<1> QED
  BY <1>1, <1>2, HeapInvariant, PTL DEF Spec

\* A block whose header and payload a step leaves alone.
Kept(b) ==
  /\ magic'[b] = "USED" /\ size'[b] = size[b]
  /\ \A o \in Payload(b, size[b]) : magic'[o] = magic[o]

LEMMA KeptByWrite ==
  ASSUME IInv, pc # "boot", NEW w, WritesIn(w), NEW b \in Live, b # w
  PROVE  Kept(b)
<1>1. b \in blocks /\ w \in blocks /\ w \in Offs /\ b \in Offs /\ magic[b] = "USED"
  BY LiveBlocks DEF WritesIn, Live
<1>2. \A o \in Payload(b, size[b]) : o \in Offs /\ o \notin Payload(w, size[w])
  BY <1>1, PayloadsApart DEF Payload
<1>3. b \notin Payload(w, size[w])
  BY <1>1, PayloadsApart
<1> QED
  BY <1>1, <1>2, <1>3 DEF WritesIn, Kept

LEMMA KeptByFree ==
  ASSUME IInv, NEW entry, NEW p \in FreeArgs \cup Offs, EnterFree(entry, p), pc \in {"idle", "release"},
         NEW b \in Live
  PROVE  Kept(b) \/ (pc' = "free" /\ off' = b)
<1>1. CASE magic' = magic /\ size' = size
  BY <1>1 DEF Kept, Live
<1>2. CASE /\ p \in Live /\ size' = size /\ pc' = "free" /\ off' = p
           /\ \A o \in Offs : o # p /\ o \notin Payload(p, size[p]) => magic'[o] = magic[o]
  <2>1. b \in blocks /\ b \in Offs /\ magic[b] = "USED" /\ p \in blocks
    BY <1>2, LiveBlocks DEF Live
  <2>2. CASE b # p
    <3>1. b \notin Payload(p, size[p])
      BY <2>1, <2>2, PayloadsApart
    <3>2. \A o \in Payload(b, size[b]) : o \in Offs /\ o # p /\ o \notin Payload(p, size[p])
      BY <2>1, <2>2, PayloadsApart DEF Payload
    <3> QED
      BY <1>2, <2>1, <2>2, <3>1, <3>2 DEF Kept
  <2> QED
    BY <1>2, <2>2
<1> QED
  BY <1>1, <1>2, FreeEffect

LEMMA KeptByTake ==
  ASSUME IInv, Assumptions, AllocTake, NEW b \in Live PROVE Kept(b)
<1>1. /\ pc = "alloc" /\ cur_off \in blocks /\ magic[cur_off] = "FREE"
      /\ \A o \in Offs : o # cur_off /\ o \notin Payload(cur_off, size[cur_off]) => magic'[o] = magic[o]
      /\ \A c \in blocks : c # cur_off => size'[c] = size[c]
  BY TakeEffect
<1>2. b \in blocks /\ b \in Offs /\ magic[b] = "USED" /\ b # cur_off
  BY <1>1, LiveBlocks DEF Live
<1>3. b \notin Payload(cur_off, size[cur_off])
  BY <1>1, <1>2, PayloadsApart
<1>4. \A o \in Payload(b, size[b]) : o \in Offs /\ o # cur_off /\ o \notin Payload(cur_off, size[cur_off])
  BY <1>1, <1>2, PayloadsApart DEF Payload
<1> QED
  BY <1>1, <1>2, <1>3, <1>4 DEF Kept

LEMMA LiveStep ==
  ASSUME IInv, Assumptions, [Next]_vars, NEW b \in Live
  PROVE  \/ pc' = "free" /\ off' = b
         \/ b = fresh
         \/ UserWrite(b)
         \/ Kept(b)
<1>1. ASSUME magic' = magic, size' = size PROVE Kept(b)
  BY <1>1 DEF Kept, Live
<1>2. CASE heap_init
  BY <1>2, LiveBlocks DEF heap_init, IInv, CallState
<1>3. ASSUME NEW s \in Sizes, kmalloc_refused(s) PROVE Kept(b)
  BY <1>1, <1>3 DEF kmalloc_refused, mem
<1>4. ASSUME NEW entry, NEW s \in Sizes, NEW p, StartAlloc(entry, s, p) PROVE Kept(b)
  BY <1>1, <1>4 DEF StartAlloc, mem
<1>5. ASSUME NEW p \in FreeArgs, kfree(p) PROVE Kept(b) \/ (pc' = "free" /\ off' = b)
  BY <1>5, KeptByFree DEF kfree
<1>6. CASE ReallocFree
  <2>1. rptr \in Offs /\ pc = "release"
    BY <1>6, LiveBlocks DEF ReallocFree, IInv, CallState
  <2> QED
    BY <1>6, <2>1, KeptByFree DEF ReallocFree
<1>7. CASE AllocTake
  BY <1>7, KeptByTake
<1>8. CASE FreeInsert
  <2>1. magic' = magic /\ size'[b] = size[b]
    BY <1>8, InsertEffect
  <2> QED
    BY <2>1 DEF Kept, Live
<1>9. CASE AllocWalk \/ FreeWalk
  BY <1>1, <1>9 DEF AllocWalk, FreeWalk, mem
<1>10. CASE AllocFail
  BY <1>1, <1>10 DEF AllocFail, mem
<1>11. CASE ZeroFill
  BY <1>11, ZeroEffect, KeptByWrite
<1>12. CASE ReallocCopy
  BY <1>12, CopyEffect, KeptByWrite
<1>13. ASSUME NEW w \in Offs, UserWrite(w) PROVE UserWrite(b) \/ Kept(b)
  BY <1>13, WriteEffect, KeptByWrite
<1>14. CASE UNCHANGED vars
  BY <1>1, <1>14 DEF vars, mem
<1> QED
  BY <1>2, <1>3, <1>4, <1>5, <1>6, <1>7, <1>8, <1>9, <1>10, <1>11, <1>12, <1>13, <1>14
     DEF Next, Kernel, kmalloc, kzalloc, krealloc

\* No call of the heap changes the header or the payload of a live block, except
\* kfree of that block and the kzalloc or krealloc that is about to return it.
THEOREM OthersBlocksKept ==
  ASSUME Assumptions PROVE Spec => LiveUntouched
<1>1. IInv /\ [Next]_vars =>
        [\A b \in Live : \/ pc' = "free" /\ off' = b
                         \/ b = fresh
                         \/ UserWrite(b)
                         \/ /\ magic'[b] = "USED" /\ size'[b] = size[b]
                            /\ \A o \in Payload(b, size[b]) : magic'[o] = magic[o]]_vars
  BY LiveStep DEF Kept
<1> QED
  BY <1>1, HeapInvariant, PTL DEF Spec, LiveUntouched

\* Between calls no entry point is running, and no block is waiting to be
\* returned before kmalloc has found one.
NothingPending ==
  /\ pc \in {"boot", "idle"} => op = "none"
  /\ pc \in {"boot", "idle", "alloc"} => fresh = END_OF_LIST

LEMMA PendingStep == NothingPending /\ [Next]_vars => NothingPending'
<1> SUFFICES ASSUME NothingPending, [Next]_vars PROVE NothingPending'
  OBVIOUS
<1> USE DEF NothingPending
<1>1. ASSUME NEW how, Return(how) PROVE NothingPending'
  BY <1>1 DEF Return
<1>2. CASE heap_init
  BY <1>2 DEF heap_init, locals
<1>3. ASSUME NEW s \in Sizes, kmalloc_refused(s) PROVE NothingPending'
  BY <1>3 DEF kmalloc_refused, locals
<1>4. ASSUME NEW entry, NEW s \in Sizes, NEW p, StartAlloc(entry, s, p) PROVE NothingPending'
  BY <1>4 DEF StartAlloc
<1>5. ASSUME NEW entry, NEW p, EnterFree(entry, p) PROVE NothingPending'
  BY <1>1, <1>5 DEF EnterFree
<1>6. CASE AllocTake
  BY <1>1, <1>6 DEF AllocTake
<1>7. CASE AllocFail \/ ZeroFill \/ FreeInsert
  BY <1>1, <1>7 DEF AllocFail, ZeroFill, FreeInsert
<1>8. CASE AllocWalk \/ FreeWalk \/ ReallocCopy
  BY <1>8 DEF AllocWalk, FreeWalk, ReallocCopy, locals
<1>9. ASSUME NEW b \in Offs, UserWrite(b) PROVE NothingPending'
  BY <1>9 DEF UserWrite, locals
<1>10. CASE UNCHANGED vars
  BY <1>10 DEF vars, locals
<1> QED
  BY <1>2, <1>3, <1>4, <1>5, <1>6, <1>7, <1>8, <1>9, <1>10
     DEF Next, Kernel, kmalloc, kzalloc, krealloc, kfree, ReallocFree

\* krealloc returns either no block or one that is live when it returns: the
\* kfree of the old block, its merges included, does not take the new one.
LEMMA ReallocStep ==
  ASSUME IInv, NothingPending, [Next]_vars, op = "krealloc", fresh # END_OF_LIST, pc' = "idle",
         vars' # vars
  PROVE  fresh \in Live'
<1>1. pc \notin {"boot", "idle", "alloc"}
  BY DEF NothingPending
<1>2. CASE ZeroFill
  <2>1. WritesIn(fresh) /\ pc = "zero" /\ fresh \in Live
    BY <1>2, ZeroEffect DEF WritesIn
  <2>2. fresh \in Offs /\ fresh \in Nat /\ fresh \notin Payload(fresh, size[fresh]) /\ magic[fresh] = "USED"
    BY <2>1, LiveBlocks, RegionFacts DEF Payload, HDR_SIZE, Live
  <2> QED
    BY <2>1, <2>2 DEF WritesIn, Live
<1>3. CASE FreeInsert
  <2>1. magic' = magic /\ fresh \in Live
    BY <1>3, InsertEffect DEF FreeInsert, IInv, CallState
  <2> QED
    BY <2>1 DEF Live
<1>4. CASE ReallocFree
  <2>1. pc = "release" /\ rptr \in Live /\ rptr \in Offs
    BY <1>4, LiveBlocks DEF ReallocFree, IInv, CallState
  <2>2. magic[rptr] = "USED" /\ rptr \in Nat /\ 2 * rptr < WORD /\ rptr < hsize
    BY <2>1, RegionFacts DEF Live
  <2>3. ~Refused(rptr)
    BY <2>2, RegionFacts DEF Refused
  <2> QED
    BY <1>4, <2>3 DEF ReallocFree, EnterFree
<1> QED
  BY <1>1, <1>2, <1>3, <1>4 DEF Next, Kernel, heap_init, kmalloc_refused, kmalloc, kzalloc, krealloc,
     StartAlloc, kfree, AllocWalk, AllocTake, AllocFail, FreeWalk, ReallocCopy, UserWrite

\* What krealloc returns is a live block, whatever its kfree has merged.
THEOREM ReallocResultLive ==
  ASSUME Assumptions PROVE Spec => ReallocReturnsLive
<1>1. Init => NothingPending
  BY DEF Init, NothingPending
<1>2. IInv /\ NothingPending /\ [Next]_vars =>
        [(op = "krealloc" /\ fresh # END_OF_LIST /\ pc' = "idle") => fresh \in Live']_vars
  BY ReallocStep
<1> QED
  BY <1>1, <1>2, PendingStep, HeapInvariant, PTL DEF Spec, ReallocReturnsLive

(***************************************************************************)
(* The statistics.  Sums over finite sets come first.  MapThenSumSet is a    *)
(* recursive function on the subsets of a set; that it exists and what it    *)
(* computes is shown by looking at a smallest set for which it fails.        *)
(***************************************************************************)

\* The sum of a function over a set, as StatsExact takes it.
SumOf(f, S) == MapThenSumSet(LAMBDA b : f[b], S)

First(s) == CHOOSE x \in s : TRUE
Rest(s) == s \ {First(s)}

\* g is the table of the sums of f over the subsets of T.
Sums(f, T, g) == g = [s \in SUBSET T |-> IF s = {} THEN 0 ELSE f[First(s)] + g[Rest(s)]]

\* What MapThenSumSet says, with its table of sums named.
LEMMA SumDef == ASSUME NEW f, NEW S PROVE SumOf(f, S) = (CHOOSE g : Sums(f, S, g))[S]
  BY Zenon DEF SumOf, MapThenSumSet, MapThenFoldSet, Sums, First, Rest

\* Taking an element away makes a set smaller.
LEMMA RestSmaller ==
  ASSUME NEW s, s # {}
  PROVE  First(s) \in s /\ Rest(s) \subseteq s /\ Rest(s) # s
  BY DEF First, Rest

\* A non-empty collection of subsets of a finite set has a smallest member.
LEMMA Smallest ==
  ASSUME NEW S, IsFiniteSet(S), NEW Bad, Bad \subseteq SUBSET S, Bad # {}
  PROVE  \E T \in Bad : \A U \in Bad : U \subseteq T => U = T
<1>1. IsWellFoundedOn(StrictSubsetOrdering(S), SUBSET S)
  BY FS_StrictSubsetOrderingWellFounded, FS_FiniteSubsetsOfFinite
<1>2. \E T \in Bad : \A U \in Bad : <<U, T>> \notin StrictSubsetOrdering(S)
  BY <1>1, WFMin, Zenon
<1> QED BY <1>2 DEF StrictSubsetOrdering

\* One entry of a table of sums.
LEMMA SumsValue ==
  ASSUME NEW f, NEW T, NEW g, Sums(f, T, g), NEW s \in SUBSET T
  PROVE  g[s] = IF s = {} THEN 0 ELSE f[First(s)] + g[Rest(s)]
  BY DEF Sums

\* A table of sums, restricted to the subsets of a smaller set.
LEMMA SumsRestrict ==
  ASSUME NEW f, NEW T, NEW g, Sums(f, T, g), NEW U \in SUBSET T
  PROVE  Sums(f, U, [s \in SUBSET U |-> g[s]])
<1> DEFINE h == [s \in SUBSET U |-> g[s]]
<1>1. ASSUME NEW s \in SUBSET U
      PROVE  h[s] = IF s = {} THEN 0 ELSE f[First(s)] + h[Rest(s)]
  <2>1. s \in SUBSET T OBVIOUS
  <2>2. g[s] = IF s = {} THEN 0 ELSE f[First(s)] + g[Rest(s)] BY <2>1, SumsValue
  <2>3. h[s] = g[s] OBVIOUS
  <2>4. s # {} => h[Rest(s)] = g[Rest(s)] BY RestSmaller
  <2> HIDE DEF h
  <2> QED BY <2>2, <2>3, <2>4
<1>2. h = [s \in SUBSET U |-> h[s]] OBVIOUS
<1> HIDE DEF h
<1>3. h = [s \in SUBSET U |-> IF s = {} THEN 0 ELSE f[First(s)] + h[Rest(s)]]
  BY <1>1, <1>2
<1>4. Sums(f, U, h) BY <1>3, Zenon DEF Sums
<1> QED BY <1>4 DEF h

\* A finite set has at most one table of sums.
LEMMA SumsUnique ==
  ASSUME NEW f, NEW T, IsFiniteSet(T), NEW g, NEW h, Sums(f, T, g), Sums(f, T, h)
  PROVE  g = h
<1> DEFINE Bad == {s \in SUBSET T : g[s] # h[s]}
<1>1. Bad = {}
  <2> SUFFICES ASSUME Bad # {} PROVE FALSE OBVIOUS
  <2>1. Bad \subseteq SUBSET T OBVIOUS
  <2>2. PICK s \in Bad : \A U \in Bad : U \subseteq s => U = s
    <3> HIDE DEF Bad
    <3> QED BY <2>1, Smallest
  <2>3. s # {} => Rest(s) \in SUBSET T /\ Rest(s) \notin Bad BY <2>2, RestSmaller
  <2>4. s # {} => g[Rest(s)] = h[Rest(s)] BY <2>3
  <2>5. g[s] = h[s] BY <2>4, SumsValue
  <2> QED BY <2>5
<1>2. \A s \in SUBSET T : g[s] = h[s] BY <1>1
<1>3. g = [s \in SUBSET T |-> g[s]] /\ h = [s \in SUBSET T |-> h[s]] BY DEF Sums
<1> HIDE DEF Bad
<1> QED BY <1>2, <1>3

\* The tables of two sets agree on the sums of the sets they share.
LEMMA SumsAgree ==
  ASSUME NEW f, NEW T, NEW U, IsFiniteSet(T), NEW g, NEW h, Sums(f, T, g), Sums(f, U, h),
         NEW s \in SUBSET T, s \in SUBSET U
  PROVE  g[s] = h[s]
<1> DEFINE a == [t \in SUBSET s |-> g[t]]
<1> DEFINE b == [t \in SUBSET s |-> h[t]]
<1>1. Sums(f, s, a) BY SumsRestrict
<1>2. Sums(f, s, b) BY SumsRestrict
<1>3. IsFiniteSet(s) BY FS_Subset
<1>4. a[s] = g[s] /\ b[s] = h[s] OBVIOUS
<1> HIDE DEF a, b
<1>5. a = b BY <1>1, <1>2, <1>3, SumsUnique
<1> QED BY <1>4, <1>5

\* A finite set has a table of sums: put together from those of its subsets.
LEMMA SumsExist ==
  ASSUME NEW f, NEW S, IsFiniteSet(S)
  PROVE  \E g : Sums(f, S, g)
<1> DEFINE Bad == {T \in SUBSET S : ~ \E g : Sums(f, T, g)}
<1> SUFFICES ASSUME Bad # {} PROVE FALSE OBVIOUS
<1>1. Bad \subseteq SUBSET S OBVIOUS
<1>2. PICK T \in Bad : \A U \in Bad : U \subseteq T => U = T
  <2> HIDE DEF Bad
  <2> QED BY <1>1, Smallest
<1> DEFINE G(u) == CHOOSE g : Sums(f, u, g)
<1>3. ASSUME NEW u \in SUBSET T, u # T PROVE Sums(f, u, G(u)) /\ IsFiniteSet(u)
  <2>1. u \notin Bad /\ u \in SUBSET S BY <1>2, <1>3
  <2>2. \E g : Sums(f, u, g) BY <2>1
  <2>3. IsFiniteSet(u) BY <2>1, FS_Subset
  <2> HIDE DEF Bad
  <2> QED BY <2>2, <2>3
<1> DEFINE h == [s \in SUBSET T |-> IF s = {} THEN 0 ELSE f[First(s)] + G(Rest(s))[Rest(s)]]
<1>4. ASSUME NEW s \in SUBSET T, s # {} PROVE h[Rest(s)] = G(Rest(s))[Rest(s)]
  <2> DEFINE u == Rest(s)
  <2>1. u \in SUBSET T /\ u # T BY <1>4, RestSmaller
  <2>2. Sums(f, u, G(u)) /\ IsFiniteSet(u) BY <2>1, <1>3
  <2>3. h[u] = IF u = {} THEN 0 ELSE f[First(u)] + G(Rest(u))[Rest(u)] BY <2>1
  <2> HIDE DEF G, h, u
  <2>4. G(u)[u] = IF u = {} THEN 0 ELSE f[First(u)] + G(u)[Rest(u)] BY <2>2, SumsValue
  <2>5. ASSUME u # {} PROVE G(u)[Rest(u)] = G(Rest(u))[Rest(u)]
    <3>1. Rest(u) \in SUBSET u /\ Rest(u) \in SUBSET T /\ Rest(u) # T /\ Rest(u) \in SUBSET Rest(u)
      BY <2>1, <2>5, RestSmaller
    <3>2. Sums(f, Rest(u), G(Rest(u))) BY <3>1, <1>3
    <3> QED BY <2>2, <3>1, <3>2, SumsAgree
  <2>6. h[u] = G(u)[u] BY <2>3, <2>4, <2>5
  <2> QED BY <2>6 DEF u
<1>5. h = [s \in SUBSET T |-> IF s = {} THEN 0 ELSE f[First(s)] + h[Rest(s)]]
  <2> DEFINE k == [s \in SUBSET T |-> IF s = {} THEN 0 ELSE f[First(s)] + h[Rest(s)]]
  <2>1. ASSUME NEW s \in SUBSET T PROVE h[s] = k[s]
    <3>1. h[s] = IF s = {} THEN 0 ELSE f[First(s)] + G(Rest(s))[Rest(s)] OBVIOUS
    <3>2. k[s] = IF s = {} THEN 0 ELSE f[First(s)] + h[Rest(s)] OBVIOUS
    <3> HIDE DEF h, k, G
    <3> QED BY <3>1, <3>2, <1>4
  <2>2. h = [s \in SUBSET T |-> h[s]] OBVIOUS
  <2>3. k = [s \in SUBSET T |-> k[s]] OBVIOUS
  <2> HIDE DEF h
  <2>4. h = k
    <3> HIDE DEF k
    <3> QED BY <2>1, <2>2, <2>3
  <2> QED BY <2>4
<1> HIDE DEF h
<1>6. Sums(f, T, h) BY <1>5, Zenon DEF Sums
<1> QED BY <1>2, <1>6

\* The recursion of MapThenSumSet, now as a fact about finite sets.
LEMMA SumSplitsFirst ==
  ASSUME NEW f, NEW S, IsFiniteSet(S)
  PROVE  SumOf(f, S) = IF S = {} THEN 0 ELSE f[First(S)] + SumOf(f, Rest(S))
<1> DEFINE G(u) == CHOOSE g : Sums(f, u, g)
<1>1. Sums(f, S, G(S)) BY SumsExist
<1>2. SumOf(f, S) = G(S)[S] BY SumDef
<1>3. SumOf(f, Rest(S)) = G(Rest(S))[Rest(S)] BY SumDef
<1>4. S # {} => IsFiniteSet(Rest(S)) BY RestSmaller, FS_Subset
<1>5. S # {} => Sums(f, Rest(S), G(Rest(S))) BY <1>4, SumsExist
<1> HIDE DEF G
<1>6. S # {} => G(S)[Rest(S)] = G(Rest(S))[Rest(S)]
  BY <1>1, <1>5, SumsAgree, RestSmaller
<1>7. S \in SUBSET S OBVIOUS
<1>8. G(S)[S] = IF S = {} THEN 0 ELSE f[First(S)] + G(S)[Rest(S)] BY <1>1, <1>7, SumsValue
<1> QED BY <1>2, <1>3, <1>6, <1>8

\* The sum of nothing.
LEMMA SumEmpty == ASSUME NEW f PROVE SumOf(f, {}) = 0
  BY SumSplitsFirst, FS_EmptySet

\* A sum of natural numbers is one.
LEMMA SumType ==
  ASSUME NEW S, IsFiniteSet(S), NEW f, \A x \in S : f[x] \in Nat
  PROVE  SumOf(f, S) \in Nat
<1> DEFINE Bad == {T \in SUBSET S : SumOf(f, T) \notin Nat}
<1> SUFFICES ASSUME Bad # {} PROVE FALSE OBVIOUS
<1>1. Bad \subseteq SUBSET S OBVIOUS
<1>2. PICK T \in Bad : \A U \in Bad : U \subseteq T => U = T
  <2> HIDE DEF Bad
  <2> QED BY <1>1, Smallest
<1>3. IsFiniteSet(T) BY FS_Subset
<1>4. SumOf(f, T) = IF T = {} THEN 0 ELSE f[First(T)] + SumOf(f, Rest(T)) BY <1>3, SumSplitsFirst
<1>5. T # {} => SumOf(f, Rest(T)) \in Nat /\ f[First(T)] \in Nat
  <2>1. T # {} => Rest(T) \in SUBSET S /\ Rest(T) \notin Bad /\ First(T) \in S BY <1>2, RestSmaller
  <2> QED BY <2>1
<1>6. SumOf(f, T) \in Nat BY <1>4, <1>5
<1> QED BY <1>6

\* The sum depends on the values over the set only.
LEMMA SumSame ==
  ASSUME NEW S, IsFiniteSet(S), NEW f, NEW e, \A x \in S : f[x] = e[x]
  PROVE  SumOf(f, S) = SumOf(e, S)
<1> DEFINE Bad == {T \in SUBSET S : SumOf(f, T) # SumOf(e, T)}
<1> SUFFICES ASSUME Bad # {} PROVE FALSE OBVIOUS
<1>1. Bad \subseteq SUBSET S OBVIOUS
<1>2. PICK T \in Bad : \A U \in Bad : U \subseteq T => U = T
  <2> HIDE DEF Bad
  <2> QED BY <1>1, Smallest
<1>3. IsFiniteSet(T) BY FS_Subset
<1>4. SumOf(f, T) = IF T = {} THEN 0 ELSE f[First(T)] + SumOf(f, Rest(T)) BY <1>3, SumSplitsFirst
<1>5. SumOf(e, T) = IF T = {} THEN 0 ELSE e[First(T)] + SumOf(e, Rest(T)) BY <1>3, SumSplitsFirst
<1>6. T # {} => SumOf(f, Rest(T)) = SumOf(e, Rest(T)) /\ f[First(T)] = e[First(T)]
  <2>1. T # {} => Rest(T) \in SUBSET S /\ Rest(T) \notin Bad /\ First(T) \in S BY <1>2, RestSmaller
  <2> QED BY <2>1
<1>7. SumOf(f, T) = SumOf(e, T) BY <1>4, <1>5, <1>6
<1> QED BY <1>7

\* Whichever element is taken out, its value is what the sum loses.
LEMMA SumRemove ==
  ASSUME NEW S, IsFiniteSet(S), NEW f, \A x \in S : f[x] \in Nat, NEW x \in S
  PROVE  SumOf(f, S) = f[x] + SumOf(f, S \ {x})
<1> DEFINE Bad == {T \in SUBSET S : \E y \in T : SumOf(f, T) # f[y] + SumOf(f, T \ {y})}
<1>0. Bad = {}
  <2> SUFFICES ASSUME Bad # {} PROVE FALSE OBVIOUS
  <2>1. Bad \subseteq SUBSET S OBVIOUS
  <2>2. PICK T \in Bad : \A U \in Bad : U \subseteq T => U = T
    <3> HIDE DEF Bad
    <3> QED BY <2>1, Smallest
  <2>3. PICK y \in T : SumOf(f, T) # f[y] + SumOf(f, T \ {y}) BY <2>2
  <2>4. T # {} /\ T \in SUBSET S BY <2>2
  <2> DEFINE z == First(T)
  <2>5. z \in T BY <2>4, RestSmaller
  <2>6. IsFiniteSet(T) BY <2>4, FS_Subset
  <2>7. SumOf(f, T) = f[z] + SumOf(f, T \ {z}) BY <2>4, <2>6, SumSplitsFirst DEF Rest
  <2> HIDE DEF z
  <2>8. y # z BY <2>3, <2>7
  <2>9. T \ {z} \notin Bad /\ T \ {y} \notin Bad BY <2>2, <2>3, <2>5
  <2>10. SumOf(f, T \ {z}) = f[y] + SumOf(f, (T \ {z}) \ {y}) BY <2>9, <2>8, <2>4
  <2>11. SumOf(f, T \ {y}) = f[z] + SumOf(f, (T \ {y}) \ {z}) BY <2>9, <2>8, <2>4, <2>5
  <2>12. (T \ {y}) \ {z} = (T \ {z}) \ {y} OBVIOUS
  <2>13. f[y] \in Nat /\ f[z] \in Nat BY <2>4, <2>5
  <2>14. SumOf(f, (T \ {z}) \ {y}) \in Nat
    <3>1. (T \ {z}) \ {y} \subseteq S BY <2>4
    <3>2. IsFiniteSet((T \ {z}) \ {y}) BY <3>1, FS_Subset
    <3> QED BY <3>1, <3>2, SumType
  <2> HIDE DEF Bad
  <2> QED BY <2>3, <2>7, <2>10, <2>11, <2>12, <2>13, <2>14
<1>1. S \notin Bad BY <1>0
<1> QED BY <1>1

\* An element more.
LEMMA SumAdd ==
  ASSUME NEW S, IsFiniteSet(S), NEW f, NEW x, x \notin S, \A y \in S \cup {x} : f[y] \in Nat
  PROVE  SumOf(f, S \cup {x}) = f[x] + SumOf(f, S)
<1>1. IsFiniteSet(S \cup {x}) BY FS_AddElement
<1>2. (S \cup {x}) \ {x} = S OBVIOUS
<1>3. x \in S \cup {x} OBVIOUS
<1> QED BY <1>1, <1>2, <1>3, SumRemove

\* Merging c into b: the header of c becomes payload.
LEMMA SumMerge ==
  ASSUME NEW F, IsFiniteSet(F), NEW f, NEW e, \A x \in F : f[x] \in Nat,
         NEW b \in F, NEW c \in F, b # c,
         e[b] = f[b] + HDR_SIZE + f[c], \A x \in F : x # b => e[x] = f[x]
  PROVE  SumOf(e, F \ {c}) = SumOf(f, F) + HDR_SIZE
<1> DEFINE G == F \ {c}
           H == G \ {b}
<1>1. IsFiniteSet(G) /\ IsFiniteSet(H) BY FS_Subset
<1>2. SumOf(f, F) = f[c] + SumOf(f, G) BY SumRemove
<1>3. b \in G /\ \A x \in G : f[x] \in Nat OBVIOUS
<1>4. SumOf(f, G) = f[b] + SumOf(f, H) BY <1>1, <1>3, SumRemove
<1>5. f[b] \in Nat /\ f[c] \in Nat OBVIOUS
<1>6. \A x \in G : e[x] \in Nat
  <2>1. e[b] \in Nat BY <1>5 DEF HDR_SIZE
  <2> QED BY <2>1
<1>7. SumOf(e, G) = e[b] + SumOf(e, H) BY <1>1, <1>3, <1>6, SumRemove
<1>8. SumOf(e, H) = SumOf(f, H)
  <2>1. \A x \in H : e[x] = f[x] OBVIOUS
  <2> HIDE DEF H
  <2> QED BY <1>1, <2>1, SumSame
<1>9. SumOf(f, H) \in Nat
  <2>1. \A x \in H : f[x] \in Nat OBVIOUS
  <2> HIDE DEF H
  <2> QED BY <1>1, <2>1, SumType
<1> HIDE DEF G, H
<1>10. SumOf(e, G) = SumOf(f, F) + HDR_SIZE
  BY <1>2, <1>4, <1>5, <1>7, <1>8, <1>9 DEF HDR_SIZE
<1> QED BY <1>10 DEF G

\* What the statistics are, and that together they count the region.
Counted ==
  /\ used_bytes = SumOf(size, Live)
  /\ free_bytes = SumOf(size, FreeBlocks) + HDR_SIZE * (Cardinality(blocks) - 1)
  /\ used_bytes <= high_water
  /\ used_bytes + free_bytes = hsize - HDR_SIZE

StatsInv ==
  /\ pc = "boot" => used_bytes = 0 /\ high_water = 0
  /\ pc # "boot" => Counted

\* The region is finite.
LEMMA FiniteRegion == ASSUME NEW S, S \subseteq Offs PROVE IsFiniteSet(S)
<1>1. hsize - 1 \in Int /\ IsFiniteSet(0 .. hsize - 1) BY RegionFacts, FS_Interval
<1>2. S \subseteq 0 .. hsize - 1 BY DEF Offs
<1> QED BY <1>1, <1>2, FS_Subset

\* The sets the statistics speak of are finite, and their sums natural numbers.
CountsOK ==
  /\ Live \subseteq Offs /\ FreeBlocks \subseteq Offs /\ blocks \subseteq Offs
  /\ IsFiniteSet(Live) /\ IsFiniteSet(FreeBlocks) /\ IsFiniteSet(blocks)
  /\ \A o \in Offs : size[o] \in Nat
  /\ SumOf(size, Live) \in Nat /\ SumOf(size, FreeBlocks) \in Nat
  /\ Cardinality(blocks) \in Nat
  /\ pc # "boot" => Cardinality(blocks) >= 1

\* It follows from the invariant.
LEMMA CountFacts == IInv => CountsOK
<1> SUFFICES ASSUME IInv PROVE CountsOK
  OBVIOUS
<1>1. /\ Live \subseteq Offs /\ FreeBlocks \subseteq Offs /\ blocks \subseteq Offs
      /\ size \in [Offs -> 0 .. WORD - 1]
  BY DEF Live, FreeBlocks, IInv, TypeOK
<1>2. IsFiniteSet(Live) /\ IsFiniteSet(FreeBlocks) /\ IsFiniteSet(blocks)
  BY <1>1, FiniteRegion
<1>3. \A o \in Offs : size[o] \in Nat
  BY <1>1, WidthAssumption
<1>4. SumOf(size, Live) \in Nat /\ SumOf(size, FreeBlocks) \in Nat
  BY <1>1, <1>2, <1>3, SumType
<1>5. Cardinality(blocks) \in Nat
  BY <1>2, FS_CardinalityType
<1>6. pc # "boot" => Cardinality(blocks) >= 1
  <2>1. pc # "boot" => blocks # {}
    BY DEF IInv, Tiling
  <2>2. blocks # {} => Cardinality(blocks) # 0
    BY <1>2, FS_EmptySet
  <2> QED
    BY <1>5, <2>1, <2>2
<1> QED
  BY <1>1, <1>2, <1>3, <1>4, <1>5, <1>6 DEF CountsOK

\* The same after a step.
LEMMA CountFactsAfter == IInv' => CountsOK'
  BY CountFacts, PTL

\* The statistics are a matter of the live blocks, the free ones and their sizes.
LEMMA SameCounts ==
  ASSUME StatsInv, pc # "boot", pc' # "boot", Live' = Live, FreeBlocks' = FreeBlocks,
         UNCHANGED <<size, blocks, stats>>
  PROVE  StatsInv'
  BY DEF StatsInv, Counted, stats

\* Memory right after kmalloc took n bytes out of the free blocks.
LEMMA TakeCounts ==
  ASSUME IInv, StatsInv, pc # "boot", pc' # "boot", NEW n \in Nat, Account(n),
         n <= SumOf(size, FreeBlocks),
         SumOf(size', Live') = SumOf(size, Live) + n,
         SumOf(size', FreeBlocks') + HDR_SIZE * Cardinality(blocks')
           = SumOf(size, FreeBlocks) + HDR_SIZE * Cardinality(blocks) - n,
         SumOf(size', FreeBlocks') \in Nat, Cardinality(blocks') \in Nat
  PROVE  StatsInv'
<1> DEFINE f == SumOf(size, FreeBlocks)
           c == Cardinality(blocks)
           g == SumOf(size', FreeBlocks')
           d == Cardinality(blocks')
<1>1. /\ used_bytes = SumOf(size, Live) /\ free_bytes = f + 16 * (c - 1)
      /\ used_bytes <= high_water /\ used_bytes + free_bytes = hsize - 16
  BY DEF StatsInv, Counted, HDR_SIZE
<1>2. /\ used_bytes \in Nat /\ free_bytes \in Nat /\ high_water \in Nat
      /\ f \in Nat /\ c \in Nat /\ c >= 1 /\ g \in Nat /\ d \in Nat
  BY CountFacts, WidthAssumption DEF CountsOK, IInv, TypeOK
<1>3. n <= f /\ g + 16 * d = f + 16 * c - n
  BY DEF HDR_SIZE
<1> HIDE DEF f, c, g, d
<1>4. used_bytes + n \in Nat /\ used_bytes + n < WORD /\ free_bytes - n \in Nat /\ free_bytes - n < WORD
  BY <1>1, <1>2, <1>3, RegionFacts
<1>5. /\ used_bytes' = used_bytes + n /\ free_bytes' = free_bytes - n
      /\ high_water' = IF used_bytes' > high_water THEN used_bytes' ELSE high_water
  BY <1>4, U32Identity DEF Account
<1>6. /\ free_bytes' = g + 16 * (d - 1) /\ used_bytes' <= high_water'
      /\ used_bytes' + free_bytes' = hsize - 16
  BY <1>1, <1>2, <1>3, <1>5, RegionFacts
<1>7. used_bytes' = SumOf(size', Live')
  BY <1>1, <1>5
<1> QED
  BY <1>6, <1>7 DEF StatsInv, Counted, HDR_SIZE, g, d

\* kmalloc accounts for what it hands out.
LEMMA TakeStats ==
  ASSUME IInv, IInv', Assumptions, StatsInv, AllocTake PROVE StatsInv'
<1>1. pc = "alloc" /\ cur_off # END_OF_LIST /\ Fits(cur_off) /\ pc' # "boot" /\ Account(size'[cur_off])
  BY DEF AllocTake, Return
<1>2. /\ cur_off \in blocks /\ magic[cur_off] = "FREE"
      /\ need \in Nat /\ need + HDR_SIZE <= size[cur_off]
      /\ Splits(cur_off) => need + HDR_SIZE + ALIGN <= size[cur_off]
  BY <1>1, FitFacts
<1>3. /\ cur_off \in Offs /\ cur_off \in Nat /\ size[cur_off] \in Nat
      /\ cur_off + HDR_SIZE + size[cur_off] <= hsize
  BY <1>1, <1>2, BlockFacts
<1>4. magic \in [Offs -> Contents] /\ size \in [Offs -> 0 .. WORD - 1] /\ blocks \subseteq Offs
  BY DEF IInv, TypeOK
<1>5. /\ IsFiniteSet(Live) /\ IsFiniteSet(FreeBlocks) /\ IsFiniteSet(blocks)
      /\ Live \subseteq Offs /\ FreeBlocks \subseteq Offs
      /\ \A o \in Offs : size[o] \in Nat /\ size'[o] \in Nat
      /\ SumOf(size, Live) \in Nat /\ SumOf(size, FreeBlocks) \in Nat /\ Cardinality(blocks) \in Nat
      /\ SumOf(size', FreeBlocks') \in Nat /\ Cardinality(blocks') \in Nat
  BY CountFacts, CountFactsAfter DEF CountsOK
<1>6. cur_off \in FreeBlocks /\ cur_off \notin Live
  BY <1>2 DEF FreeBlocks, Live
<1> DEFINE F == FreeBlocks \ {cur_off}
<1>7. /\ IsFiniteSet(F) /\ SumOf(size, F) \in Nat
      /\ SumOf(size, FreeBlocks) = size[cur_off] + SumOf(size, F)
  <2>1. IsFiniteSet(F) BY <1>5, FS_Subset
  <2>2. \A x \in F : size[x] \in Nat BY <1>5
  <2>3. SumOf(size, F) \in Nat BY <2>1, <2>2, SumType
  <2>4. \A x \in FreeBlocks : size[x] \in Nat BY <1>5
  <2>5. SumOf(size, FreeBlocks) = size[cur_off] + SumOf(size, F) BY <1>5, <1>6, <2>4, SumRemove
  <2> QED BY <2>1, <2>3, <2>5
<1>8. ASSUME Live' = Live \cup {cur_off}, \A b \in Live : size'[b] = size[b]
      PROVE  SumOf(size', Live') = SumOf(size, Live) + size'[cur_off]
  <2>1. SumOf(size', Live) = SumOf(size, Live) BY <1>5, <1>8, SumSame
  <2>2. \A y \in Live \cup {cur_off} : size'[y] \in Nat BY <1>3, <1>5
  <2>3. SumOf(size', Live \cup {cur_off}) = size'[cur_off] + SumOf(size', Live)
    BY <1>5, <1>6, <2>2, SumAdd
  <2>4. size'[cur_off] \in Nat BY <1>3, <1>5
  <2> QED BY <1>5, <1>8, <2>1, <2>3, <2>4
<1>9. CASE Splits(cur_off)
  <2> DEFINE new == cur_off + HDR_SIZE + need
             rest == size[cur_off] - need - HDR_SIZE
  <2>1. /\ new \in Nat /\ new < hsize /\ rest \in Nat /\ rest < WORD /\ hsize < WORD
        /\ cur_off + HDR_SIZE <= new /\ new < cur_off + HDR_SIZE + size[cur_off]
    BY <1>2, <1>3, <1>9, RegionFacts DEF HDR_SIZE, ALIGN
  <2>2. new \notin blocks
    BY <1>1, <1>2, <1>3, <2>1, BlockFacts DEF HDR_SIZE
  <2>3. U32(new) = new /\ U32(rest) = rest
    <3> HIDE DEF new, rest
    <3>1. new < WORD
      BY <2>1, RegionFacts
    <3> QED
      BY <2>1, <3>1, U32Identity
  <2>4. SplitAs(new, rest)
    BY <1>9, <2>3 DEF AllocTake, Split
  <2>5. new # cur_off
    BY <1>2, <2>2
  <2>6. rest = size[cur_off] - need - 16
    BY DEF HDR_SIZE
  <2> HIDE DEF new, rest
  <2>7. blocks' = blocks \cup {new} /\ new \in Offs
    BY <2>4 DEF SplitAs, IInv, TypeOK
  <2>8. \A o \in Offs : magic'[o] = IF o = cur_off THEN "USED" ELSE IF o = new THEN "FREE" ELSE magic[o]
    BY <1>3, <1>4, <2>4, <2>5, <2>7 DEF SplitAs
  <2>9. \A b \in Offs : size'[b] = IF b = cur_off THEN need ELSE IF b = new THEN rest ELSE size[b]
    BY <1>3, <1>4, <2>4, <2>5, <2>7 DEF SplitAs
  <2>10. magic[new] # "USED"
    BY <2>2, <2>7 DEF IInv, MagicExact
  <2>11. Live' = Live \cup {cur_off}
    BY <1>3, <2>5, <2>8, <2>10 DEF Live
  <2>12. FreeBlocks' = F \cup {new} /\ new \notin F
    BY <1>2, <1>4, <2>2, <2>5, <2>7, <2>8 DEF FreeBlocks
  <2>13. \A b \in Live : size'[b] = size[b]
    BY <1>5, <1>6, <2>9, <2>10 DEF Live
  <2>14. \A b \in F : size'[b] = size[b]
    BY <1>5, <2>9, <2>12
  <2>15. SumOf(size', FreeBlocks') = rest + SumOf(size, F)
    <3>1. SumOf(size', F) = SumOf(size, F) BY <1>7, <2>14, SumSame
    <3>2. \A y \in F \cup {new} : size'[y] \in Nat BY <1>5, <2>7
    <3>3. SumOf(size', F \cup {new}) = size'[new] + SumOf(size', F) BY <1>7, <2>12, <3>2, SumAdd
    <3>4. size'[new] = rest BY <2>5, <2>7, <2>9
    <3> QED BY <2>12, <3>1, <3>3, <3>4
  <2>16. Cardinality(blocks') = Cardinality(blocks) + 1
    BY <1>5, <2>2, <2>7, FS_AddElement
  <2>17. SumOf(size', Live') = SumOf(size, Live) + need /\ size'[cur_off] = need
    BY <1>3, <1>8, <2>9, <2>11, <2>13
  <2>18. need <= SumOf(size, FreeBlocks)
    BY <1>2, <1>3, <1>7 DEF HDR_SIZE
  <2>19. SumOf(size', FreeBlocks') + HDR_SIZE * Cardinality(blocks')
           = SumOf(size, FreeBlocks) + HDR_SIZE * Cardinality(blocks) - need
    <3> DEFINE k == SumOf(size, F)
               m == Cardinality(blocks)
    <3>1. k \in Nat /\ m \in Nat BY <1>5, <1>7
    <3>2. SumOf(size, FreeBlocks) = size[cur_off] + k BY <1>7
    <3>3. SumOf(size', FreeBlocks') = rest + k BY <2>15
    <3>4. Cardinality(blocks') = m + 1 BY <2>16
    <3> HIDE DEF k, m, F
    <3>5. rest + k + 16 * (m + 1) = size[cur_off] + k + 16 * m - need
      BY <1>2, <1>3, <2>6, <3>1
    <3> QED BY <3>2, <3>3, <3>4, <3>5 DEF HDR_SIZE, m
  <2>20. Account(need)
    BY <1>1, <2>17
  <2> QED
    BY <1>1, <1>2, <1>5, <2>17, <2>18, <2>19, <2>20, TakeCounts
<1>10. CASE ~Splits(cur_off)
  <2>1. TakeWhole
    BY <1>10 DEF AllocTake
  <2>2. /\ \A o \in Offs : magic'[o] = IF o = cur_off THEN "USED" ELSE magic[o]
        /\ size' = size /\ blocks' = blocks
    BY <1>3, <1>4, <2>1 DEF TakeWhole
  <2>3. Live' = Live \cup {cur_off}
    BY <1>3, <2>2 DEF Live
  <2>4. FreeBlocks' = F
    BY <1>4, <2>2 DEF FreeBlocks
  <2>5. SumOf(size', Live') = SumOf(size, Live) + size[cur_off] /\ size'[cur_off] = size[cur_off]
    BY <1>8, <2>2, <2>3
  <2>6. SumOf(size', FreeBlocks') = SumOf(size, F) /\ Cardinality(blocks') = Cardinality(blocks)
    BY <2>2, <2>4
  <2>7. size[cur_off] <= SumOf(size, FreeBlocks)
    BY <1>3, <1>7
  <2>8. SumOf(size', FreeBlocks') + HDR_SIZE * Cardinality(blocks')
          = SumOf(size, FreeBlocks) + HDR_SIZE * Cardinality(blocks) - size[cur_off]
    BY <1>3, <1>5, <1>7, <2>6 DEF HDR_SIZE
  <2>9. Account(size[cur_off])
    BY <1>1, <2>5
  <2> QED
    BY <1>1, <1>3, <1>5, <2>5, <2>7, <2>8, <2>9, TakeCounts
<1> QED
  BY <1>9, <1>10

\* Every live block is counted, so kfree cannot take more out than is in.
LEMMA FreeStats ==
  ASSUME IInv, IInv', StatsInv, NEW entry, NEW p \in FreeArgs \cup Offs, EnterFree(entry, p),
         pc \in {"idle", "release"}
  PROVE  StatsInv'
<1>1. CASE Refused(p)
  <2>1. UNCHANGED <<mem, stats, blocks>> /\ pc' # "boot"
    BY <1>1 DEF EnterFree, Return
  <2>2. Live' = Live /\ FreeBlocks' = FreeBlocks
    BY <2>1 DEF Live, FreeBlocks, mem
  <2> QED
    BY <2>1, <2>2, SameCounts DEF mem
<1>2. CASE ~Refused(p)
  <2>1. p \in Live /\ p \in Offs /\ p \in blocks
    BY <1>2, RegionFacts, LiveBlocks DEF Refused, FreeArgs, HDR_SIZE, Live
  <2>2. \A o \in Payload(p, size[p]) : o \in Offs /\ o # p /\ o \notin blocks
    <3>1. size[p] \in Nat /\ size[p] <= size[p]
      BY <2>1, CountFacts DEF CountsOK
    <3> QED
      BY <2>1, <3>1, PayloadFacts
  <2>3. \A o \in Offs : magic'[o] = IF o = p THEN "FREE"
                                    ELSE IF o \in Payload(p, size[p]) THEN "POISON" ELSE magic[o]
    BY <1>2, <2>1 DEF EnterFree, Poisoned, Fill
  <2>4. /\ used_bytes' = U32(used_bytes - size[p]) /\ free_bytes' = U32(free_bytes + size[p])
        /\ high_water' = high_water /\ size' = size /\ blocks' = blocks /\ pc' # "boot"
    BY <1>2 DEF EnterFree
  <2>5. Live' = Live \ {p}
    <3>1. \A o \in Live : o \in blocks
      BY LiveBlocks
    <3> QED
      BY <2>1, <2>2, <2>3, <3>1 DEF Live
  <2>6. FreeBlocks' = FreeBlocks \cup {p} /\ p \notin FreeBlocks
    <3>1. blocks \subseteq Offs /\ magic[p] = "USED"
      BY <2>1 DEF IInv, TypeOK, Live
    <3> QED
      BY <2>1, <2>2, <2>3, <2>4, <3>1 DEF FreeBlocks
  <2>7. /\ IsFiniteSet(Live) /\ IsFiniteSet(FreeBlocks)
        /\ Live \subseteq Offs /\ FreeBlocks \subseteq Offs
        /\ \A o \in Offs : size[o] \in Nat
        /\ SumOf(size, Live) \in Nat /\ SumOf(size, FreeBlocks) \in Nat
        /\ SumOf(size', Live') \in Nat /\ Cardinality(blocks) \in Nat /\ Cardinality(blocks) >= 1
    BY CountFacts, CountFactsAfter DEF CountsOK
  <2>8. SumOf(size, Live) = size[p] + SumOf(size', Live')
    BY <2>1, <2>4, <2>5, <2>7, SumRemove
  <2>9. SumOf(size', FreeBlocks') = size[p] + SumOf(size, FreeBlocks)
    <3>1. \A y \in FreeBlocks \cup {p} : size[y] \in Nat
      BY <2>1, <2>7
    <3>2. SumOf(size, FreeBlocks \cup {p}) = size[p] + SumOf(size, FreeBlocks)
      BY <2>6, <2>7, <3>1, SumAdd
    <3> QED
      BY <2>4, <2>6, <3>2
  <2> DEFINE n == size[p]
             u == SumOf(size', Live')
             f == SumOf(size, FreeBlocks)
             c == Cardinality(blocks)
  <2>10. n \in Nat /\ u \in Nat /\ f \in Nat /\ c \in Nat /\ c >= 1 /\ high_water \in Nat
    BY <2>1, <2>7, WidthAssumption DEF IInv, TypeOK
  <2>11. /\ used_bytes = n + u /\ free_bytes = f + 16 * (c - 1)
         /\ used_bytes <= high_water /\ used_bytes + free_bytes = hsize - 16
    BY <2>8 DEF StatsInv, Counted, HDR_SIZE
  <2>12. SumOf(size', FreeBlocks') = n + f /\ Cardinality(blocks') = c
    BY <2>4, <2>9
  <2>13. used_bytes' = U32(used_bytes - n) /\ free_bytes' = U32(free_bytes + n) /\ high_water' = high_water
    BY <2>4
  <2> HIDE DEF n, u, f, c
  <2>14. used_bytes - n = u /\ u < WORD /\ free_bytes + n \in Nat /\ free_bytes + n < WORD
    BY <2>10, <2>11, RegionFacts
  <2>15. used_bytes' = u /\ free_bytes' = free_bytes + n
    BY <2>10, <2>13, <2>14, U32Identity
  <2>16. /\ free_bytes' = (n + f) + 16 * (c - 1) /\ used_bytes' <= high_water'
         /\ used_bytes' + free_bytes' = hsize - 16
    BY <2>10, <2>11, <2>13, <2>15, RegionFacts
  <2>17. used_bytes' = SumOf(size', Live')
    BY <2>15 DEF u
  <2> QED
    BY <2>4, <2>12, <2>16, <2>17 DEF StatsInv, Counted, HDR_SIZE
<1> QED
  BY <1>1, <1>2

\* A merge turns a header into free payload: the sum grows by what the number of
\* blocks loses.
LEMMA InsertStats ==
  ASSUME IInv, IInv', StatsInv, FreeInsert PROVE StatsInv'
<1> DEFINE mp == prev_off # END_OF_LIST /\ prev_off + HDR_SIZE + size[prev_off] = off
           hd == IF mp THEN prev_off ELSE off
           len == IF mp THEN size[prev_off] + HDR_SIZE + size[off] ELSE size[off]
           mn == hd + HDR_SIZE + len = cur_off /\ cur_off # END_OF_LIST /\ magic[cur_off] = "FREE"
           sz2 == [size EXCEPT ![hd] = len]
           F2 == IF mp THEN FreeBlocks \ {off} ELSE FreeBlocks
           B2 == IF mp THEN blocks \ {off} ELSE blocks
           weight == SumOf(size, FreeBlocks) + HDR_SIZE * Cardinality(blocks)
<1>1. /\ pc = "free" /\ magic' = magic /\ UNCHANGED stats /\ pc' # "boot"
      /\ size' = [size EXCEPT ![hd] = IF mn THEN len + HDR_SIZE + size[cur_off] ELSE len]
      /\ blocks' = blocks \ ((IF mp THEN {off} ELSE {}) \cup (IF mn THEN {cur_off} ELSE {}))
  BY DEF FreeInsert, MergePrev, MergeNext, Return
<1>2. /\ off \in FreeBlocks /\ off \in blocks
      /\ prev_off # END_OF_LIST => prev_off \in FreeBlocks /\ prev_off < off
      /\ cur_off # END_OF_LIST => cur_off \in FreeBlocks /\ off < cur_off
  <2>1. off \in FreeBlocks /\ (prev_off # END_OF_LIST => prev_off < off)
    BY <1>1 DEF IInv, CallState
  <2>2. prev_off # END_OF_LIST => prev_off \in FreeBlocks
    BY <1>1 DEF IInv, WalkOnList, Listed
  <2>3. cur_off # END_OF_LIST => cur_off \in Listed /\ cur_off \in FreeBlocks /\ cur_off # off
    BY <1>1, WalkFacts DEF Listed
  <2>4. cur_off # END_OF_LIST => ~(cur_off < off)
    BY DEF FreeInsert, Before
  <2>5. off \in Nat /\ (cur_off # END_OF_LIST => cur_off \in Nat)
    BY <2>1, <2>3, RegionFacts, CountFacts DEF CountsOK
  <2> QED
    BY <2>1, <2>2, <2>3, <2>4, <2>5 DEF FreeBlocks
<1>3. /\ IsFiniteSet(Live) /\ IsFiniteSet(FreeBlocks) /\ IsFiniteSet(blocks)
      /\ Live \subseteq Offs /\ FreeBlocks \subseteq Offs /\ blocks \subseteq Offs
      /\ \A o \in Offs : size[o] \in Nat /\ o \in Nat
      /\ SumOf(size, Live) \in Nat /\ SumOf(size, FreeBlocks) \in Nat /\ Cardinality(blocks) \in Nat
      /\ SumOf(size', FreeBlocks') \in Nat /\ Cardinality(blocks') \in Nat
      /\ size \in [Offs -> 0 .. WORD - 1]
  BY CountFacts, CountFactsAfter, RegionFacts DEF CountsOK, IInv, TypeOK
<1>4. hd \in FreeBlocks /\ hd \in Offs /\ len \in Nat /\ (mp => hd = prev_off /\ hd # off)
  BY <1>2, <1>3 DEF HDR_SIZE
<1>5. mn => cur_off \in FreeBlocks /\ cur_off # off /\ cur_off # hd
  BY <1>2, <1>3
<1>6. /\ sz2[hd] = len /\ \A o \in Offs : o # hd => sz2[o] = size[o]
      /\ \A o \in Offs : sz2[o] \in Nat
  BY <1>3, <1>4
<1>7. /\ IsFiniteSet(F2) /\ IsFiniteSet(B2) /\ F2 \subseteq Offs /\ hd \in F2 /\ (mn => cur_off \in F2)
      /\ F2 \subseteq B2
  <2>1. IsFiniteSet(FreeBlocks \ {off}) /\ IsFiniteSet(blocks \ {off})
    BY <1>3, FS_Subset
  <2>2. FreeBlocks \subseteq blocks
    BY DEF FreeBlocks
  <2> HIDE DEF mp, mn, hd
  <2> QED
    BY <1>3, <1>4, <1>5, <2>1, <2>2 DEF hd
<1>8. SumOf(sz2, F2) \in Nat /\ Cardinality(B2) \in Nat
  BY <1>6, <1>7, SumType, FS_CardinalityType
<1>9. SumOf(sz2, F2) + HDR_SIZE * Cardinality(B2) = weight
  <2>1. CASE mp
    <3>1. /\ hd = prev_off /\ hd # off /\ len = size[hd] + HDR_SIZE + size[off]
          /\ F2 = FreeBlocks \ {off} /\ B2 = blocks \ {off}
      BY <2>1, <1>4
    <3> HIDE DEF mp, hd, len, sz2, F2, B2
    <3>2. \A x \in FreeBlocks : size[x] \in Nat /\ (x # hd => sz2[x] = size[x])
      BY <1>3, <1>6
    <3>3. sz2[hd] = size[hd] + HDR_SIZE + size[off]
      BY <1>6, <3>1
    <3>4. SumOf(sz2, FreeBlocks \ {off}) = SumOf(size, FreeBlocks) + HDR_SIZE
      BY <1>2, <1>3, <1>4, <3>1, <3>2, <3>3, SumMerge
    <3>5. Cardinality(B2) = Cardinality(blocks) - 1
      BY <1>2, <1>3, <3>1, FS_RemoveElement
    <3> QED
      BY <1>3, <3>1, <3>4, <3>5 DEF HDR_SIZE
  <2>2. CASE ~mp
    <3>1. hd = off /\ len = size[off] /\ F2 = FreeBlocks /\ B2 = blocks
      BY <2>2
    <3> HIDE DEF mp, hd, len, sz2, F2, B2
    <3>2. \A x \in FreeBlocks : sz2[x] = size[x]
      BY <1>3, <1>6, <3>1
    <3> QED
      BY <1>3, <3>1, <3>2, SumSame
  <2> QED
    BY <2>1, <2>2
<1>10. SumOf(size', FreeBlocks') + HDR_SIZE * Cardinality(blocks') = weight
  <2>1. CASE mn
    <3>1. /\ size' = [size EXCEPT ![hd] = len + HDR_SIZE + size[cur_off]]
          /\ blocks' = B2 \ {cur_off} /\ FreeBlocks' = F2 \ {cur_off}
      <4>1. size' = [size EXCEPT ![hd] = len + HDR_SIZE + size[cur_off]]
        BY <1>1, <2>1
      <4>2. blocks' = B2 \ {cur_off}
        BY <1>1, <2>1
      <4>3. FreeBlocks' = F2 \ {cur_off}
        <5> HIDE DEF mp, mn, hd, len, sz2
        <5> QED
          BY <1>1, <4>2 DEF FreeBlocks
      <4> QED
        BY <4>1, <4>2, <4>3
    <3>2. cur_off \in F2 /\ cur_off # hd /\ cur_off \in Offs /\ cur_off \in B2
      BY <2>1, <1>5, <1>7
    <3> HIDE DEF mp, mn, hd, len, sz2, F2, B2
    <3>3. \A x \in F2 : sz2[x] \in Nat /\ (x # hd => size'[x] = sz2[x])
      BY <1>3, <1>4, <1>6, <1>7, <3>1
    <3>4. size'[hd] = sz2[hd] + HDR_SIZE + sz2[cur_off]
      BY <1>3, <1>4, <1>6, <3>1, <3>2
    <3>5. SumOf(size', F2 \ {cur_off}) = SumOf(sz2, F2) + HDR_SIZE
      BY <1>7, <3>2, <3>3, <3>4, SumMerge
    <3>6. Cardinality(blocks') = Cardinality(B2) - 1
      BY <1>7, <3>1, <3>2, FS_RemoveElement
    <3> QED
      BY <1>8, <1>9, <3>1, <3>5, <3>6 DEF HDR_SIZE
  <2>2. CASE ~mn
    <3>1. size' = sz2 /\ blocks' = B2
      BY <1>1, <2>2
    <3>2. FreeBlocks' = F2
      <4> HIDE DEF mp, mn, hd, len, sz2
      <4> QED
        BY <1>1, <3>1 DEF FreeBlocks
    <3> HIDE DEF sz2, F2, B2
    <3> QED
      BY <1>9, <3>1, <3>2
  <2> QED
    BY <2>1, <2>2
<1>11. Live' = Live /\ SumOf(size', Live') = SumOf(size, Live)
  <2>1. Live' = Live /\ \A b \in Live : size'[b] = size[b]
    BY <1>1, InsertEffect DEF Live
  <2>2. SumOf(size', Live) = SumOf(size, Live)
    BY <1>3, <2>1, SumSame
  <2> QED
    BY <2>1, <2>2
<1> DEFINE f == SumOf(size, FreeBlocks)
           c == Cardinality(blocks)
           g == SumOf(size', FreeBlocks')
           d == Cardinality(blocks')
<1>12. /\ f \in Nat /\ c \in Nat /\ g \in Nat /\ d \in Nat /\ g + 16 * d = f + 16 * c
       /\ free_bytes = f + 16 * (c - 1) /\ free_bytes' = free_bytes
  BY <1>1, <1>3, <1>10 DEF StatsInv, Counted, HDR_SIZE, stats
<1> HIDE DEF f, c, g, d
<1>13. free_bytes' = g + 16 * (d - 1)
  BY <1>12
<1> QED
  BY <1>1, <1>11, <1>13 DEF StatsInv, Counted, HDR_SIZE, stats, g, d

\* heap_init: one free block that fills the region.
LEMMA InitStats == ASSUME IInv, StatsInv, heap_init PROVE StatsInv'
<1>1. 0 \in Offs /\ hsize \in Nat /\ size \in [Offs -> 0 .. WORD - 1] /\ magic \in [Offs -> Contents]
  BY RegionFacts DEF IInv, TypeOK
<1>2. /\ pc = "boot" /\ pc' = "idle" /\ used_bytes' = used_bytes /\ high_water' = high_water
      /\ free_bytes' = hsize - HDR_SIZE /\ blocks' = {0} /\ size'[0] = hsize - HDR_SIZE
      /\ magic'[0] = "FREE" /\ \A o \in Offs : o # 0 => magic'[o] = magic[o]
  BY <1>1 DEF heap_init
<1>3. used_bytes = 0 /\ high_water = 0
  BY <1>2 DEF StatsInv
<1>4. Live' = {}
  BY <1>2 DEF IInv, CallState, MagicExact, Live
<1>5. FreeBlocks' = {0}
  BY <1>2 DEF FreeBlocks
<1>6. size'[0] \in Nat
  BY <1>1, <1>2, RegionFacts DEF HDR_SIZE
<1>7. SumOf(size', {0}) = hsize - HDR_SIZE
  <2>1. SumOf(size', {} \cup {0}) = size'[0] + SumOf(size', {})
    BY <1>6, SumAdd, FS_EmptySet
  <2>2. {} \cup {0} = {0}
    OBVIOUS
  <2> QED
    BY <1>2, <1>6, <2>1, <2>2, SumEmpty
<1>8. Cardinality({0}) = 1
  BY FS_Singleton
<1>9. SumOf(size', Live') = 0 /\ SumOf(size', FreeBlocks') = hsize - HDR_SIZE /\ Cardinality(blocks') = 1
  BY <1>2, <1>4, <1>5, <1>7, <1>8, SumEmpty
<1> QED
  BY <1>1, <1>2, <1>3, <1>9 DEF StatsInv, Counted, HDR_SIZE

\* Writing payload changes no header.
LEMMA WriteStats ==
  ASSUME IInv, StatsInv, NEW w, WritesIn(w), IInv', pc # "boot", pc' # "boot", UNCHANGED stats
  PROVE  StatsInv'
<1>1. w \in blocks /\ size[w] \in Nat /\ size[w] <= size[w]
  BY LiveBlocks, CountFacts DEF CountsOK, WritesIn
<1>2. Payload(w, size[w]) \in SUBSET Offs /\ Payload(w, size[w]) \cap blocks = {}
  BY <1>1, PayloadFacts
<1>3. \A b \in blocks : magic'[b] = magic[b] /\ b \in Offs
  BY <1>2 DEF WritesIn, IInv, TypeOK
<1>4. FreeBlocks' = FreeBlocks
  BY <1>3 DEF FreeBlocks, WritesIn
<1>5. Live' = Live
  <2>1. Live \subseteq blocks
    BY LiveBlocks
  <2>2. Live' \subseteq blocks
    BY DEF Live, IInv, MagicExact, WritesIn
  <2> QED
    BY <1>3, <2>1, <2>2 DEF Live
<1> QED
  BY <1>4, <1>5, SameCounts DEF WritesIn

\* Every step of the heap keeps the statistics exact.
LEMMA StatsStep ==
  ASSUME IInv, IInv', Assumptions, StatsInv, [Next]_vars PROVE StatsInv'
<1>1. ASSUME UNCHANGED <<mem, stats, blocks>>, pc # "boot", pc' # "boot" PROVE StatsInv'
  <2>1. Live' = Live /\ FreeBlocks' = FreeBlocks
    BY <1>1 DEF Live, FreeBlocks, mem
  <2> QED
    BY <1>1, <2>1, SameCounts DEF mem
<1>2. CASE heap_init
  BY <1>2, InitStats
<1>3. ASSUME NEW s \in Sizes, kmalloc_refused(s) PROVE StatsInv'
  BY <1>1, <1>3 DEF kmalloc_refused, StatsInv, stats
<1>4. ASSUME NEW entry, NEW s \in Sizes, NEW p, StartAlloc(entry, s, p) PROVE StatsInv'
  BY <1>1, <1>4 DEF StartAlloc
<1>5. ASSUME NEW p \in FreeArgs, kfree(p) PROVE StatsInv'
  BY <1>5, FreeStats DEF kfree
<1>6. CASE ReallocFree
  <2>1. pc = "release" /\ rptr \in Offs
    BY <1>6, LiveBlocks DEF ReallocFree, IInv, CallState
  <2> QED
    BY <1>6, <2>1, FreeStats DEF ReallocFree
<1>7. CASE AllocTake
  BY <1>7, TakeStats
<1>8. CASE AllocWalk \/ AllocFail \/ FreeWalk
  BY <1>1, <1>8 DEF AllocWalk, AllocFail, FreeWalk, Return
<1>9. CASE FreeInsert
  BY <1>9, InsertStats
<1>10. CASE ZeroFill
  <2>1. WritesIn(fresh) /\ pc # "boot" /\ pc' # "boot" /\ UNCHANGED stats
    BY <1>10, ZeroEffect DEF ZeroFill, Return
  <2> QED
    BY <2>1, WriteStats
<1>11. CASE ReallocCopy
  <2>1. WritesIn(fresh) /\ pc # "boot" /\ pc' # "boot" /\ UNCHANGED stats
    BY <1>11, CopyEffect DEF ReallocCopy
  <2> QED
    BY <2>1, WriteStats
<1>12. ASSUME NEW b \in Offs, UserWrite(b) PROVE StatsInv'
  <2>1. WritesIn(b) /\ pc # "boot" /\ pc' # "boot" /\ UNCHANGED stats
    BY <1>12, WriteEffect DEF UserWrite
  <2> QED
    BY <2>1, WriteStats
<1>13. CASE UNCHANGED vars
  <2>1. UNCHANGED <<mem, stats, blocks, pc>>
    BY <1>13 DEF vars
  <2> QED
    BY <1>1, <2>1 DEF StatsInv, stats
<1> QED
  BY <1>2, <1>3, <1>4, <1>5, <1>6, <1>7, <1>8, <1>9, <1>10, <1>11, <1>12, <1>13
     DEF Next, Kernel, kmalloc, kzalloc, krealloc

\* used_bytes is the payload of the live blocks and free_bytes the rest of the
\* region, however often blocks were split and merged; the counters never wrap,
\* because together they always count the region less one header.
THEOREM StatisticsExact ==
  ASSUME Assumptions PROVE Spec => []StatsExact
<1>1. Init => StatsInv
  BY DEF Init, StatsInv
<1>2. IInv /\ IInv' /\ StatsInv /\ [Next]_vars => StatsInv'
  BY StatsStep
<1>3. StatsInv => StatsExact
  BY Zenon DEF StatsInv, Counted, StatsExact, SumOf
<1> QED
  BY <1>1, <1>2, <1>3, HeapInvariant, PTL DEF Spec

(***************************************************************************)
(* Refinement.                                                             *)
(***************************************************************************)
\* What a caller holds: payload offset and size.
Extent(o) == <<o + HDR_SIZE, size[o]>>
\* The allocations of the abstract allocator.
LiveExtents == { Extent(o) : o \in Live }
\* The request of the abstract allocator.
Pending == IF pc = "alloc" THEN want ELSE 0

\* A step that leaves live headers and their sizes alone changes no
\* allocation.
LEMMA StutterStep ==
  ASSUME Live' = Live, \A o \in Live : size'[o] = size[o]
  PROVE  LiveExtents' = LiveExtents
  BY DEF LiveExtents, Extent

\* kmalloc's taking of a block is the abstract Grant.
LEMMA GrantStep ==
  ASSUME IInv, Assumptions, AllocTake PROVE Abstract!Grant
<1>1. pc = "alloc" /\ cur_off # END_OF_LIST /\ Fits(cur_off)
  BY DEF AllocTake
<1>2. /\ cur_off \in Listed /\ cur_off \in blocks /\ magic[cur_off] = "FREE"
      /\ want \in Nat /\ need \in Nat /\ want <= need
      /\ need + HDR_SIZE <= size[cur_off]
      /\ Splits(cur_off) => need + HDR_SIZE + ALIGN <= size[cur_off]
  BY <1>1, FitFacts
<1>3. /\ cur_off \in Nat /\ cur_off \in Offs /\ size[cur_off] \in Nat
      /\ cur_off + HDR_SIZE + size[cur_off] <= hsize
      /\ \A c \in blocks : cur_off < c => cur_off + HDR_SIZE + size[cur_off] <= c
  BY <1>1, <1>2, BlockFacts
<1>4. Live' = Live \cup {cur_off} /\ (\A o \in Live : size'[o] = size[o])
      /\ cur_off \notin Live /\ size'[cur_off] >= want
  <2>1. magic \in [Offs -> Contents] /\ size \in [Offs -> 0 .. WORD - 1]
    BY DEF IInv, TypeOK
  <2>2. CASE Splits(cur_off)
    <3>1. Split
      BY <2>2 DEF AllocTake
    <3>2. /\ U32(cur_off + HDR_SIZE + need) = cur_off + HDR_SIZE + need
          /\ cur_off + HDR_SIZE + need \notin blocks /\ cur_off + HDR_SIZE + need # cur_off
      BY <2>2, <1>2, <1>3, RegionFacts, U32Identity DEF HDR_SIZE, ALIGN
    <3>3. cur_off + HDR_SIZE + need \notin Live
      BY <3>2, LiveBlocks
    <3>4. magic' = [magic EXCEPT ![cur_off + HDR_SIZE + need] = "FREE", ![cur_off] = "USED"]
      BY <3>1, <3>2 DEF Split, SplitAs
    <3>5. /\ size'[cur_off] = need
          /\ \A o \in Offs : o # cur_off /\ o # cur_off + HDR_SIZE + need => size'[o] = size[o]
      BY <2>1, <3>1, <3>2, <1>3 DEF Split, SplitAs
    <3>6. Live' = Live \cup {cur_off} /\ cur_off \notin Live
      BY <2>1, <3>3, <3>4, <1>2, <1>3 DEF Live
    <3> QED
      BY <3>3, <3>5, <3>6, <1>2, LiveBlocks
  <2>3. CASE ~Splits(cur_off)
    <3>1. TakeWhole
      BY <2>3 DEF AllocTake
    <3>2. Live' = Live \cup {cur_off} /\ cur_off \notin Live /\ size' = size
      BY <2>1, <3>1, <1>2, <1>3 DEF TakeWhole, Live
    <3> QED
      BY <3>2, <1>2, <1>3 DEF HDR_SIZE
  <2> QED
    BY <2>2, <2>3
<1>5. /\ (\A b \in blocks : b \in Nat /\ size[b] \in Nat /\ size[b] % ALIGN = 0
              /\ b + HDR_SIZE + size[b] <= hsize
              /\ \A c \in blocks : b < c => b + HDR_SIZE + size[b] <= c)'
      /\ Live' \subseteq blocks'
  <2>1. IInv'
    BY AllocTakeStep
  <2>2. (pc # "boot")'
    BY <1>1 DEF AllocTake, Return
  <2>3. Live' \subseteq blocks'
    BY <2>1 DEF IInv, MagicExact, Live
  <2>4. (\A b \in blocks : /\ size[b] % ALIGN = 0
                           /\ b + HDR_SIZE + size[b] \in blocks \cup {hsize}
                           /\ \A c \in blocks : b < c => b + HDR_SIZE + size[b] <= c)'
    BY <2>1, <2>2 DEF IInv, Tiling
  <2>5. (\A b \in blocks : b \in Offs /\ b \in Nat /\ size[b] \in Nat)'
    BY <2>1, RegionFacts DEF IInv, TypeOK
  <2> QED
    BY <2>3, <2>4, <2>5, RegionFacts DEF HDR_SIZE
<1> DEFINE e == <<cur_off + HDR_SIZE, size'[cur_off]>>
<1>6. /\ cur_off \in blocks' /\ size'[cur_off] \in Offs
  <2>1. cur_off \in blocks'
    BY <1>4, <1>5
  <2> QED
    BY <2>1, <1>3, <1>5, RegionFacts DEF HDR_SIZE
<1>7. e \in { o + HDR_SIZE : o \in Offs } \X Offs
  BY <1>3, <1>6
<1>8. LiveExtents' = LiveExtents \cup {e}
  BY <1>4 DEF LiveExtents, Extent
<1>9. ASSUME NEW f \in LiveExtents PROVE Abstract!Disjoint(e, f)
  <2>1. PICK o \in Live : f = <<o + HDR_SIZE, size[o]>>
    BY DEF LiveExtents, Extent
  <2>2. /\ o \in blocks' /\ o # cur_off /\ size'[o] = size[o]
        /\ o \in Nat /\ size[o] \in Nat /\ size'[cur_off] \in Nat
    BY <1>4, <1>5, <1>6
  <2>3. /\ o < cur_off => o + HDR_SIZE + size[o] <= cur_off
        /\ cur_off < o => cur_off + HDR_SIZE + size'[cur_off] <= o
    BY <2>2, <1>5, <1>6
  <2>4. cur_off + HDR_SIZE + size'[cur_off] <= o + HDR_SIZE
        \/ o + HDR_SIZE + size[o] <= cur_off + HDR_SIZE
    BY <2>2, <2>3, <1>3 DEF HDR_SIZE
  <2> QED
    BY <2>1, <2>4 DEF Abstract!Disjoint
<1>10. Pending = want /\ want # 0 /\ Pending' = 0
  BY <1>1 DEF Pending, IInv, CallState, AllocTake, Return
<1> QED
  BY <1>4, <1>7, <1>8, <1>9, <1>10 DEF Abstract!Grant, LiveExtents, Extent, Pending

\* What each step of heap_c.c is to a caller of heap.h.
LEMMA RefineStep ==
  ASSUME IInv, Assumptions, [Next]_vars
  PROVE  [Abstract!Next]_<<LiveExtents, Pending>>
<1>1. ASSUME Live' = Live, \A o \in Live : size'[o] = size[o], Pending' = Pending
      PROVE  [Abstract!Next]_<<LiveExtents, Pending>>
  BY <1>1, StutterStep
<1>2. CASE heap_init
  <2>1. \A o \in Offs : magic[o] # "USED"
    BY <1>2 DEF heap_init, IInv, CallState, MagicExact
  <2>2. Live = {} /\ Live' = {}
    BY <2>1, <1>2, RegionFacts DEF heap_init, Live, IInv, TypeOK
  <2> QED
    BY <2>2, <1>1, <1>2 DEF heap_init, Pending
<1>3. ASSUME NEW s \in Sizes, kmalloc_refused(s)
      PROVE  [Abstract!Next]_<<LiveExtents, Pending>>
  BY <1>3, <1>1 DEF kmalloc_refused, mem, locals, Live, Pending
<1>4. ASSUME NEW entry, NEW s \in Sizes, NEW p, StartAlloc(entry, s, p)
      PROVE  [Abstract!Next]_<<LiveExtents, Pending>>
  <2>1. LiveExtents' = LiveExtents
    BY <1>4, StutterStep DEF StartAlloc, mem, Live
  <2>2. Pending = 0 /\ Pending' = s /\ s # 0
    BY <1>4 DEF StartAlloc, Pending
  <2>3. Abstract!Request
    BY <2>1, <2>2 DEF Abstract!Request, LiveExtents, Extent, Pending
  <2> QED
    BY <2>3 DEF Abstract!Next
<1>5. ASSUME NEW entry \in {"kfree", "krealloc"}, NEW p \in FreeArgs \cup Offs,
             EnterFree(entry, p), pc \in {"idle", "release"}
      PROVE  [Abstract!Next]_<<LiveExtents, Pending>>
  <2>1. CASE Refused(p)
    BY <2>1, <1>1, <1>5 DEF EnterFree, Return, mem, Live, Pending
  <2>2. CASE ~Refused(p)
    <3>1. p \in Offs /\ magic[p] = "USED" /\ p \in blocks /\ p \in Live
      BY <2>2, RegionFacts DEF Refused, FreeArgs, IInv, MagicExact, HDR_SIZE, Live
    <3>2. /\ magic' = [Fill(Payload(p, size[p]), "POISON") EXCEPT ![p] = "FREE"]
          /\ size' = size /\ pc' = "free"
      BY <2>2, <1>5 DEF EnterFree, Poisoned
    <3>3. size[p] \in Nat /\ size[p] <= size[p]
      BY <3>1, <1>5, BlockFacts
    <3>4. \A o \in Payload(p, size[p]) : o \notin Live
      BY <3>1, <3>3, <1>5, PayloadFacts, LiveBlocks
    <3>5. Live' = Live \ {p}
      BY <3>1, <3>2, <3>4 DEF Fill, Live
    <3>6. \A o \in Live : o \in Nat /\ (Extent(o) = Extent(p) => o = p)
      BY <3>1, LiveBlocks, RegionFacts DEF Extent, HDR_SIZE
    <3>7. LiveExtents' = LiveExtents \ {Extent(p)} /\ Extent(p) \in LiveExtents
      BY <3>1, <3>2, <3>5, <3>6 DEF LiveExtents, Extent
    <3>8. Pending' = Pending
      BY <3>2, <1>5 DEF Pending
    <3>9. Abstract!Release
      BY <3>7, <3>8 DEF Abstract!Release, LiveExtents, Extent, Pending
    <3> QED
      BY <3>9 DEF Abstract!Next
  <2> QED
    BY <2>1, <2>2
<1>6. CASE AllocTake
  BY <1>6, GrantStep DEF Abstract!Next
<1>7. CASE AllocFail
  <2>1. LiveExtents' = LiveExtents
    BY <1>7, StutterStep DEF AllocFail, mem, Live
  <2>2. Pending # 0 /\ Pending' = 0
    BY <1>7 DEF AllocFail, Return, Pending, IInv, CallState
  <2>3. Abstract!Deny
    BY <2>1, <2>2 DEF Abstract!Deny, LiveExtents, Extent, Pending
  <2> QED
    BY <2>3 DEF Abstract!Next
<1>8. CASE AllocWalk \/ FreeWalk
  BY <1>8, <1>1 DEF AllocWalk, FreeWalk, Before, mem, Live, Pending
<1>9. CASE FreeInsert
  <2>1. Live' = Live /\ Pending' = Pending
    BY <1>9 DEF FreeInsert, Return, Live, Pending
  <2>2. ASSUME NEW o \in Live PROVE size'[o] = size[o]
    <3>1. magic[o] = "USED" /\ o \in Offs /\ size \in [Offs -> 0 .. WORD - 1]
      BY DEF Live, IInv, TypeOK
    <3>2. magic[off] = "FREE" /\ (prev_off # END_OF_LIST => magic[prev_off] = "FREE")
      BY <1>9 DEF FreeInsert, Before, IInv, CallState, WalkOnList, Listed, FreeBlocks
    <3> QED
      BY <1>9, <3>1, <3>2 DEF FreeInsert, Before, MergePrev, MergeNext, Linked
  <2> QED
    BY <2>1, <2>2, <1>1
<1>10. CASE ZeroFill
  <2>1. /\ fresh \in blocks /\ want \in Nat /\ want <= size[fresh] /\ pc = "zero"
    BY <1>10, LiveBlocks, SizesNat DEF ZeroFill, IInv, CallState
  <2>2. \A o \in Payload(fresh, want) : o \in Offs /\ o \notin Live
    BY <2>1, PayloadFacts, LiveBlocks
  <2>3. Live' = Live
    BY <1>10, <2>2 DEF ZeroFill, Fill, Live
  <2> QED
    BY <1>1, <1>10, <2>3 DEF ZeroFill, Return, Pending
<1>11. ASSUME NEW b \in Offs, UserWrite(b)
       PROVE  [Abstract!Next]_<<LiveExtents, Pending>>
  <2>1. b \in blocks /\ size[b] \in Nat /\ pc = "idle" /\ size[b] <= size[b]
    BY <1>11, RegionFacts DEF UserWrite, IInv, MagicExact, TypeOK
  <2>2. \A o \in Payload(b, size[b]) : o \in Offs /\ o \notin Live
    BY <2>1, PayloadFacts, LiveBlocks
  <2>3. Live' = Live
    BY <1>11, <2>2 DEF UserWrite, Fill, Live
  <2> QED
    BY <1>1, <1>11, <2>3 DEF UserWrite, locals, Pending
<1>12. CASE ReallocCopy
  <2>1. Live' = Live
    BY <1>12, CopyKeepsLive
  <2> QED
    BY <1>1, <1>12, <2>1 DEF ReallocCopy, locals, Pending
<1>13. CASE ReallocFree
  <2>1. pc = "release" /\ rptr \in Live
    BY <1>13 DEF ReallocFree, IInv, CallState
  <2>2. rptr \in Offs
    BY <2>1, LiveBlocks
  <2> QED
    BY <1>13, <2>1, <2>2, <1>5 DEF ReallocFree
<1>14. CASE UNCHANGED vars
  BY <1>14, <1>1 DEF vars, mem, locals, Live, Pending
<1>15. ASSUME NEW s \in Sizes, kmalloc(s) \/ kzalloc(s)
       PROVE  [Abstract!Next]_<<LiveExtents, Pending>>
  BY <1>15, <1>4 DEF kmalloc, kzalloc
<1>16. ASSUME NEW p \in Offs, NEW s \in Sizes, krealloc(p, s)
       PROVE  [Abstract!Next]_<<LiveExtents, Pending>>
  BY <1>16, <1>4 DEF krealloc
<1>17. ASSUME NEW p \in FreeArgs, kfree(p)
       PROVE  [Abstract!Next]_<<LiveExtents, Pending>>
  BY <1>17, <1>5 DEF kfree
<1> HIDE DEF Abstract!Next
<1> QED
  BY <1>2, <1>3, <1>6, <1>7, <1>8, <1>9, <1>10, <1>11, <1>12, <1>13, <1>14, <1>15,
     <1>16, <1>17 DEF Next, Kernel

\* mm/heap_c.c implements the allocator mm/heap.h promises: what kmalloc returns
\* holds the request and overlaps nothing that is live, and only kfree or
\* krealloc of a live block ends an allocation.
THEOREM HeapRefinesAllocator ==
  ASSUME Assumptions PROVE Spec => ImplementsAllocator
<1>1. Init => Abstract!Init
  BY DEF Init, Abstract!Init, Live
<1>2. IInv /\ [Next]_vars => [Abstract!Next]_<<LiveExtents, Pending>>
  BY RefineStep
<1> QED
  BY <1>1, <1>2, HeapInvariant, PTL DEF Spec, ImplementsAllocator, Abstract!Spec,
     LiveExtents, Extent, Pending
=============================================================================
