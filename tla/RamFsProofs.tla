---------------------------- MODULE RamFsProofs -----------------------------
(***************************************************************************)
(* Proofs about the RAM file system (module RamFs), for tables, heaps, names *)
(* and contents of any size: no block is leaked or shared, and ramfs.c       *)
(* implements the store of named contents of module FileStore.               *)
(*                                                                         *)
(* What BlocksOwned says is not inductive by itself.  A write spoils no      *)
(* other file because blocks do not overlap (HeapOK) and because no two      *)
(* files hold the same address (OwnersOK); it finds its own file because no  *)
(* two entries have the same name (TableOK).                                 *)
(***************************************************************************)
EXTENDS RamFs, FiniteSetTheorems, TLAPS

----------------------------------------------------------------------------
(* The inductive invariant *)

Entries == [used : BOOLEAN, name : Names \cup {""}, data : Bytes \cup {NULL}, size : Nat]

NamesDiffer(f) == \A i, j \in Slots : f[i].used /\ f[j].used /\ f[i].name = f[j].name => i = j

TableOK ==
  /\ ready \in BOOLEAN /\ files \in [Slots -> Entries]
  /\ \A i \in Slots : files[i].used => ready /\ files[i].name \in Names
  /\ NamesDiffer(files)

HeapOK ==
  /\ \A e \in live : e \in Bytes \X (1 .. MemSize) /\ e[1] + e[2] <= MemSize
  /\ \A e, f \in live : e # f => A!Disjoint(e, f)
  /\ mem \in [Bytes -> Chars \cup {POISON}]

OwnersOK ==
  /\ \A i \in Slots : files[i].used /\ files[i].data = NULL => files[i].size = 0
  /\ \A i \in Slots : files[i].used /\ files[i].data # NULL =>
       \E e \in live : e[1] = files[i].data /\ files[i].size <= e[2]
  /\ \A i, j \in Slots :
       files[i].used /\ files[j].used /\ files[i].data = files[j].data /\ files[i].data # NULL => i = j
  /\ \A e \in live : \E i \in Slots : files[i].used /\ files[i].data = e[1]

IInv == TableOK /\ HeapOK /\ OwnersOK

----------------------------------------------------------------------------
(* lookup, as an operator on a table *)

LookupIn(f, n) ==
  LET hits == {i \in Slots : f[i].used /\ f[i].name = n}
  IN  IF hits # {} THEN Min(hits) ELSE NULL

\* Nothing is in use before ramfs_init, so that the table alone decides.
LEMMA LookupIs == /\ TableOK => \A n : lookup(n) = LookupIn(files, n)
                  /\ TableOK' => \A n : lookup(n)' = LookupIn(files', n)
  BY DEF lookup, LookupIn, TableOK

LEMMA MinOfOne == ASSUME NEW i \in Int PROVE Min({i}) = i
<1>1. \E x \in {i} : \A y \in {i} : x <= y
  OBVIOUS
<1> QED
  BY <1>1 DEF Min

\* With no two entries of one name, lookup finds the entry that has the name.
LEMMA LookupFinds ==
  ASSUME NEW f, NamesDiffer(f), NEW n
  PROVE  /\ LookupIn(f, n) # NULL =>
              LookupIn(f, n) \in Slots /\ f[LookupIn(f, n)].used /\ f[LookupIn(f, n)].name = n
         /\ \A i \in Slots : f[i].used /\ f[i].name = n => LookupIn(f, n) = i
<1> DEFINE hits == {i \in Slots : f[i].used /\ f[i].name = n}
<1>1. LookupIn(f, n) = IF hits # {} THEN Min(hits) ELSE NULL
  BY DEF LookupIn
<1>2. ASSUME NEW i \in Slots, f[i].used, f[i].name = n PROVE LookupIn(f, n) = i
  <2>1. hits = {i}
    BY <1>2 DEF NamesDiffer
  <2>2. i \in Int
    BY RamFsAssumption DEF Slots
  <2> QED
    BY <1>1, <2>1, <2>2, MinOfOne
<1>3. ASSUME LookupIn(f, n) # NULL
      PROVE  LookupIn(f, n) \in Slots /\ f[LookupIn(f, n)].used /\ f[LookupIn(f, n)].name = n
  <2>1. PICK i \in Slots : f[i].used /\ f[i].name = n
    BY <1>1, <1>3
  <2> QED
    BY <1>2, <2>1
<1> QED
  BY <1>2, <1>3

\* A call that is given a file's name, and one that is not.
LEMMA Found ==
  ASSUME IInv, NEW n
  PROVE  /\ lookup(n) # NULL => /\ ready /\ lookup(n) \in Slots
                                /\ files[lookup(n)].used /\ files[lookup(n)].name = n
         /\ \A i \in Slots : files[i].used /\ files[i].name = n => lookup(n) = i
<1>1. NamesDiffer(files) /\ \A i \in Slots : files[i].used => ready
  BY DEF IInv, TableOK
<1>2. lookup(n) = LookupIn(files, n)
  BY LookupIs DEF IInv
<1> QED
  BY <1>1, <1>2, LookupFinds

LEMMA NullApart == NULL \notin Slots /\ NULL \notin Bytes /\ NULL \in Int
  BY RamFsAssumption DEF Slots, Bytes, NULL

----------------------------------------------------------------------------
(* Every step keeps the invariant *)

LEMMA InitInv == Init => IInv
<1> SUFFICES ASSUME Init PROVE IInv
  OBVIOUS
<1>1. \A i \in Slots : ~files[i].used
  BY Zenon DEF Init, EmptySlot
<1>2. EmptySlot \in Entries
  BY DEF EmptySlot, Entries
<1>3. files \in [Slots -> Entries]
  BY <1>2 DEF Init
<1>4. TableOK
  BY <1>1, <1>3 DEF Init, TableOK, NamesDiffer
<1>5. HeapOK
  BY DEF Init, HeapOK
<1>6. OwnersOK
  BY <1>1 DEF Init, OwnersOK
<1> QED
  BY <1>4, <1>5, <1>6 DEF IInv

LEMMA InitCall == IInv /\ ramfs_init => IInv'
<1> SUFFICES ASSUME IInv, ramfs_init PROVE IInv'
  OBVIOUS
<1>1. \A i \in Slots : ~files[i].used
  BY DEF IInv, TableOK, ramfs_init
<1>2. live = {}
  BY <1>1 DEF IInv, OwnersOK
<1>3. \A i \in Slots : ~files'[i].used
  BY Zenon DEF ramfs_init, EmptySlot
<1>4. EmptySlot \in Entries
  BY DEF EmptySlot, Entries
<1>5. files' \in [Slots -> Entries] /\ ready' \in BOOLEAN /\ live' = {} /\ mem' = mem
  BY <1>2, <1>4 DEF ramfs_init
<1>6. TableOK'
  BY <1>3, <1>5 DEF TableOK, NamesDiffer
<1>7. HeapOK'
  BY <1>5 DEF HeapOK, IInv
<1>8. OwnersOK'
  BY <1>3, <1>5 DEF OwnersOK
<1> QED
  BY <1>6, <1>7, <1>8 DEF IInv

\* The least of a set of entries is one of them.
LEMMA LeastSlot == ASSUME NEW S \in SUBSET Slots, S # {} PROVE Min(S) \in S
<1>1. S \subseteq Nat
  BY RamFsAssumption DEF Slots
<1> DEFINE less == {ss \in Nat \X Nat : ss[1] < ss[2]}
<1>0. IsWellFoundedOn(less, Nat)
  BY NatLessThanWellFounded DEF OpToRel
<1> HIDE DEF less
<1>2. PICK x \in S : \A y \in S : ~(<<y, x>> \in less)
  BY <1>0, <1>1, WFMin
<1>3. ASSUME NEW y \in S PROVE x <= y
  <2>1. x \in Nat /\ y \in Nat /\ <<y, x>> \notin less
    BY <1>1, <1>2
  <2>2. y < x => <<y, x>> \in less
    BY <2>1 DEF less
  <2> QED
    BY <2>1, <2>2
<1> QED
  BY <1>3 DEF Min

\* What ramfs_create puts into the table.
LEMMA NewEntry ==
  ASSUME NEW n \in Names
  PROVE  LET e == [used |-> TRUE, name |-> n, data |-> NULL, size |-> 0]
         IN  e \in Entries /\ e.used /\ e.name = n /\ e.data = NULL /\ e.size = 0
<1> DEFINE e == [used |-> TRUE, name |-> n, data |-> NULL, size |-> 0]
<1>1. e \in Entries
  BY DEF Entries
<1>2. e.used
  BY Zenon
<1>3. e.name = n /\ e.data = NULL /\ e.size = 0
  OBVIOUS
<1> QED
  BY <1>1, <1>2, <1>3

\* The table after a create that succeeds.
LEMMA Created ==
  ASSUME IInv, NEW n \in Names, ramfs_create(n), MayCreate(n)
  PROVE  \E v \in Slots :
           /\ ~files[v].used /\ reply' = Answer("create", v, <<>>)
           /\ files' \in [Slots -> Entries]
           /\ files'[v].used /\ files'[v].name = n /\ files'[v].data = NULL /\ files'[v].size = 0
           /\ \A i \in Slots : i # v => files'[i] = files[i]
<1> DEFINE v == Min(Vacant)
           e == [used |-> TRUE, name |-> n, data |-> NULL, size |-> 0]
<1>1. v \in Vacant
  <2>1. Vacant # {} /\ Vacant \in SUBSET Slots
    BY DEF MayCreate, Vacant
  <2> QED
    BY <2>1, LeastSlot
<1>2. e \in Entries /\ e.used /\ e.name = n /\ e.data = NULL /\ e.size = 0
  BY NewEntry
<1>3. files' = [files EXCEPT ![v] = e] /\ reply' = Answer("create", v, <<>>)
  BY DEF ramfs_create
<1>4. files \in [Slots -> Entries] /\ v \in Slots /\ ~files[v].used
  BY <1>1 DEF IInv, TableOK, Vacant
<1> HIDE DEF v, e
<1>5. files'[v] = e /\ files' \in [Slots -> Entries] /\ \A i \in Slots : i # v => files'[i] = files[i]
  BY <1>2, <1>3, <1>4
<1> QED
  BY <1>2, <1>3, <1>4, <1>5

LEMMA CreateStep ==
  ASSUME IInv, NEW n \in Names, ramfs_create(n)
  PROVE  IInv'
<1>1. CASE ~MayCreate(n)
  <2>1. files' = files /\ ready' = ready /\ live' = live /\ mem' = mem
    BY <1>1 DEF ramfs_create
  <2> QED
    BY <2>1 DEF IInv, TableOK, HeapOK, OwnersOK
<1>2. CASE MayCreate(n)
  <2>1. PICK v \in Slots :
           /\ ~files[v].used
           /\ files' \in [Slots -> Entries]
           /\ files'[v].used /\ files'[v].name = n /\ files'[v].data = NULL /\ files'[v].size = 0
           /\ \A i \in Slots : i # v => files'[i] = files[i]
    BY <1>2, Created
  <2>2. ready /\ lookup(n) = NULL /\ ready' = ready /\ live' = live /\ mem' = mem
    BY <1>2 DEF MayCreate, ramfs_create
  <2>3. \A i \in Slots : files[i].used => files[i].name # n
    BY <2>2, Found, NullApart
  <2>4. NamesDiffer(files')
    BY <2>1, <2>3 DEF IInv, TableOK, NamesDiffer
  <2>5. TableOK'
    BY <2>1, <2>2, <2>4 DEF IInv, TableOK
  <2>6. HeapOK'
    BY <2>2 DEF IInv, HeapOK
  <2>7. ASSUME NEW e \in live PROVE e[1] # NULL
    BY <2>7, NullApart DEF IInv, HeapOK
  <2>8. OwnersOK'
    <3>1. \A i \in Slots : files'[i].used /\ files'[i].data = NULL => files'[i].size = 0
      BY <2>1 DEF IInv, OwnersOK
    <3>2. \A i \in Slots : files'[i].used /\ files'[i].data # NULL =>
            \E e \in live : e[1] = files'[i].data /\ files'[i].size <= e[2]
      BY <2>1 DEF IInv, OwnersOK
    <3>3. \A i, j \in Slots :
            files'[i].used /\ files'[j].used /\ files'[i].data = files'[j].data /\ files'[i].data # NULL => i = j
      BY <2>1 DEF IInv, OwnersOK
    <3>4. ASSUME NEW e \in live PROVE \E i \in Slots : files'[i].used /\ files'[i].data = e[1]
      <4>1. PICK i \in Slots : files[i].used /\ files[i].data = e[1]
        BY DEF IInv, OwnersOK
      <4>2. i # v
        BY <2>1, <4>1
      <4> QED
        BY <2>1, <4>1, <4>2
    <3> QED
      BY <2>2, <3>1, <3>2, <3>3, <3>4 DEF OwnersOK
  <2> QED
    BY <2>5, <2>6, <2>8 DEF IInv
<1> QED
  BY <1>1, <1>2

LEMMA ContentFacts ==
  ASSUME NEW c \in Contents
  PROVE  /\ c \in Seq(Chars) /\ Len(c) \in Nat /\ Len(c) <= Wanted(c) /\ Wanted(c) \in Nat /\ Wanted(c) >= 1
         /\ c = [b \in 1 .. Len(c) |-> c[b]] /\ \A b \in 1 .. Len(c) : c[b] \in Chars
<1>1. c \in Seq(Chars)
  BY RamFsAssumption
<1> QED
  BY <1>1 DEF Wanted

\* What a write that succeeds has done: e is the block of its kmalloc.
Replaced(n, c, e) ==
  LET i == lookup(n) IN
  /\ i # NULL
  /\ e \in Bytes \X (1 .. MemSize) /\ e[1] + e[2] <= MemSize /\ Len(c) <= e[2]
  /\ \A f \in live : A!Disjoint(e, f)
  /\ files' \in [Slots -> Entries]
  /\ files'[i].used /\ files'[i].name = n /\ files'[i].data = e[1] /\ files'[i].size = Len(c)
  /\ \A j \in Slots : j # i => files'[j] = files[j]
  /\ live' = (live \cup {e}) \ BlockAt(files[i].data)
  /\ mem' = Copied(e, c, BlockAt(files[i].data))

LEMMA Written ==
  ASSUME IInv, NEW n \in Names, NEW c \in Contents, ramfs_write(n, c)
  PROVE  \/ /\ files' = files /\ live' = live /\ mem' = mem
            /\ reply' = Answer("write", -1, <<>>)
         \/ /\ reply' = Answer("write", 0, <<>>)
            /\ \E e : Replaced(n, c, e)
<1> DEFINE i == lookup(n)
<1>1. CASE \E e \in Grants(Wanted(c)) :
              /\ i # NULL
              /\ live' = (live \cup {e}) \ Released(i)
              /\ mem' = Copied(e, c, Released(i))
              /\ files' = [files EXCEPT ![i].data = e[1], ![i].size = Len(c)]
              /\ reply' = Answer("write", 0, <<>>)
  <2>1. PICK e \in Grants(Wanted(c)) :
              /\ i # NULL
              /\ live' = (live \cup {e}) \ Released(i)
              /\ mem' = Copied(e, c, Released(i))
              /\ files' = [files EXCEPT ![i].data = e[1], ![i].size = Len(c)]
              /\ reply' = Answer("write", 0, <<>>)
    BY <1>1
  <2>2. PICK a \in Bytes : e = <<a, Wanted(c)>> /\ a + Wanted(c) <= MemSize /\ \A f \in live : A!Disjoint(e, f)
    BY <2>1 DEF Grants
  <2>3. a \in Nat /\ MemSize \in Nat
    BY RamFsAssumption DEF Bytes
  <2>4. e \in Bytes \X (1 .. MemSize) /\ e[1] = a /\ e[1] + e[2] <= MemSize /\ Len(c) <= e[2]
    BY <2>2, <2>3, ContentFacts
  <2>5. i \in Slots /\ files[i].used /\ files[i].name = n /\ files \in [Slots -> Entries]
    BY <2>1, Found DEF IInv, TableOK
  <2> HIDE DEF i
  <2> DEFINE x == [files[i] EXCEPT !.data = a, !.size = Len(c)]
  <2>6. files[i] \in Entries
    BY <2>5
  <2>7. Len(c) \in Nat /\ a \in Bytes \cup {NULL}
    BY ContentFacts
  <2>8. x \in Entries
    BY <2>6, <2>7 DEF Entries
  <2>9. x.used /\ x.name = n /\ x.data = a /\ x.size = Len(c)
    <3>1. x.used
      BY <2>5, <2>6 DEF Entries
    <3>2. x.name = n /\ x.data = a /\ x.size = Len(c)
      BY <2>5, <2>6 DEF Entries
    <3> QED
      BY <3>1, <3>2
  <2>10. files' = [files EXCEPT ![i] = x]
    BY <2>1, <2>4, <2>5
  <2> HIDE DEF x
  <2>11. files'[i] = x /\ files' \in [Slots -> Entries] /\ \A j \in Slots : j # i => files'[j] = files[j]
    BY <2>5, <2>8, <2>10
  <2>12. Replaced(n, c, e)
    BY <2>1, <2>2, <2>4, <2>9, <2>11 DEF Replaced, Released, i
  <2> QED
    BY <2>1, <2>12
<1>2. CASE /\ reply' = Answer("write", -1, <<>>)
           /\ UNCHANGED <<files, live, mem>>
  BY <1>2
<1> QED
  BY <1>1, <1>2 DEF ramfs_write

\* Two blocks that start at one address are one block.
LEMMA BlocksApart ==
  ASSUME HeapOK, NEW e \in Bytes \X (1 .. MemSize), NEW f \in live, A!Disjoint(e, f)
  PROVE  e[1] # f[1]
<1>1. e[1] \in Nat /\ e[2] \in Nat /\ e[2] >= 1 /\ f[1] \in Nat /\ f[2] \in Nat /\ f[2] >= 1
  BY RamFsAssumption DEF HeapOK, Bytes
<1> QED
  BY <1>1 DEF A!Disjoint

LEMMA WriteStep ==
  ASSUME IInv, NEW n \in Names, NEW c \in Contents, ramfs_write(n, c)
  PROVE  IInv'
<1>0. ready' = ready
  BY DEF ramfs_write
<1>1. CASE files' = files /\ live' = live /\ mem' = mem
  BY <1>0, <1>1 DEF IInv, TableOK, HeapOK, OwnersOK
<1>2. CASE \E e : Replaced(n, c, e)
  <2>1. PICK e : Replaced(n, c, e)
    BY <1>2
  <2> DEFINE i == lookup(n)
  <2>2. /\ i \in Slots /\ ready /\ files[i].used /\ files[i].name = n
    BY <2>1, Found DEF Replaced
  <2>3. /\ e \in Bytes \X (1 .. MemSize) /\ e[1] + e[2] <= MemSize /\ Len(c) <= e[2]
        /\ \A f \in live : A!Disjoint(e, f)
    BY <2>1 DEF Replaced
  <2>4. /\ files' \in [Slots -> Entries]
        /\ files'[i].used /\ files'[i].name = n /\ files'[i].data = e[1] /\ files'[i].size = Len(c)
        /\ \A j \in Slots : j # i => files'[j] = files[j]
    BY <2>1 DEF Replaced
  <2>5. /\ \A f : f \in live' <=> (f \in live \/ f = e) /\ ~(f \in live /\ f[1] = files[i].data)
        /\ mem' = Copied(e, c, BlockAt(files[i].data))
    BY <2>1 DEF Replaced, BlockAt
  <2> HIDE DEF i
  <2>6. \A f \in live : f[1] # e[1]
    BY <2>3, BlocksApart DEF IInv
  <2>7. e \in live' /\ e[1] # NULL
    BY <2>3, <2>5, <2>6, NullApart
  <2>8. TableOK'
    <3>1. NamesDiffer(files')
      BY <2>2, <2>4 DEF IInv, TableOK, NamesDiffer
    <3>2. \A j \in Slots : files'[j].used => ready' /\ files'[j].name \in Names
      BY <1>0, <2>2, <2>4 DEF IInv, TableOK
    <3> QED
      BY <1>0, <2>4, <3>1, <3>2 DEF TableOK, IInv
  <2>9. HeapOK'
    <3>1. \A f \in live' : f \in Bytes \X (1 .. MemSize) /\ f[1] + f[2] <= MemSize
      BY <2>3, <2>5 DEF IInv, HeapOK
    <3>2. \A f, g \in live' : f # g => A!Disjoint(f, g)
      BY <2>3, <2>5 DEF IInv, HeapOK, A!Disjoint
    <3>3. ASSUME NEW b \in Bytes, b >= e[1], b < e[1] + Len(c)
          PROVE  c[b - e[1] + 1] \in Chars
      <4>1. b \in Nat /\ e[1] \in Nat /\ Len(c) \in Nat
        BY <2>3, RamFsAssumption, ContentFacts DEF Bytes
      <4>2. b - e[1] + 1 \in 1 .. Len(c)
        BY <3>3, <4>1
      <4> QED
        BY <4>2, ContentFacts
    <3>4. mem' \in [Bytes -> Chars \cup {POISON}]
      BY <2>5, <3>3 DEF IInv, HeapOK, Copied
    <3> QED
      BY <3>1, <3>2, <3>4 DEF HeapOK
  <2>10. OwnersOK'
    <3>1. \A j \in Slots : files'[j].used /\ files'[j].data = NULL => files'[j].size = 0
      BY <2>4, <2>7 DEF IInv, OwnersOK
    <3>2. ASSUME NEW j \in Slots, files'[j].used, files'[j].data # NULL
          PROVE  \E f \in live' : f[1] = files'[j].data /\ files'[j].size <= f[2]
      <4>1. CASE j = i
        BY <2>3, <2>4, <2>7, <4>1
      <4>2. CASE j # i
        <5>1. files'[j] = files[j]
          BY <2>4, <4>2
        <5>2. PICK f \in live : f[1] = files[j].data /\ files[j].size <= f[2]
          BY <3>2, <5>1 DEF IInv, OwnersOK
        <5>3. files[j].data # files[i].data
          BY <2>2, <3>2, <4>2, <5>1 DEF IInv, OwnersOK
        <5> QED
          BY <2>5, <5>1, <5>2, <5>3
      <4> QED
        BY <4>1, <4>2
    <3>3. ASSUME NEW j \in Slots, files'[j].used, j # i PROVE files'[j].data # e[1]
      <4>1. files'[j] = files[j]
        BY <2>4, <3>3
      <4>2. files[j].data # NULL => \E f \in live : f[1] = files[j].data
        BY <3>3, <4>1 DEF IInv, OwnersOK
      <4> QED
        BY <2>6, <2>7, <4>1, <4>2
    <3>4. \A j, k \in Slots :
            files'[j].used /\ files'[k].used /\ files'[j].data = files'[k].data /\ files'[j].data # NULL => j = k
      BY <2>4, <3>3 DEF IInv, OwnersOK
    <3>5. ASSUME NEW f \in live' PROVE \E j \in Slots : files'[j].used /\ files'[j].data = f[1]
      <4>1. CASE f = e
        BY <2>2, <2>4, <4>1
      <4>2. CASE f # e
        <5>1. f \in live /\ f[1] # files[i].data
          BY <2>5, <4>2
        <5>2. PICK j \in Slots : files[j].used /\ files[j].data = f[1]
          BY <5>1 DEF IInv, OwnersOK
        <5>3. j # i
          BY <5>1, <5>2
        <5> QED
          BY <2>4, <5>2, <5>3
      <4> QED
        BY <4>1, <4>2
    <3> QED
      BY <3>1, <3>2, <3>4, <3>5 DEF OwnersOK
  <2> QED
    BY <2>8, <2>9, <2>10 DEF IInv
<1> QED
  BY <1>1, <1>2, Written

LEMMA InvStep == IInv /\ [Next]_vars => IInv'
<1> SUFFICES ASSUME IInv, [Next]_vars PROVE IInv'
  OBVIOUS
<1>1. CASE ready' = ready /\ files' = files /\ live' = live /\ mem' = mem
  BY <1>1 DEF IInv, TableOK, HeapOK, OwnersOK
<1>2. ASSUME NEW n, NEW max, ramfs_read(n, max) \/ ramfs_size(n) \/ ramfs_list(max)
      PROVE  ready' = ready /\ files' = files /\ live' = live /\ mem' = mem
  BY <1>2 DEF ramfs_read, ramfs_size, ramfs_list
<1>3. CASE UNCHANGED vars
  BY <1>1, <1>3 DEF vars
<1> QED
  BY <1>1, <1>2, <1>3, InitCall, CreateStep, WriteStep DEF Next

\* The invariant holds in every reachable state.
THEOREM TableInvariant == Spec => []IInv
  BY InitInv, InvStep, PTL DEF Spec

LEMMA OwnersExact == IInv => BlocksOwned
<1> SUFFICES ASSUME IInv PROVE BlocksOwned
  OBVIOUS
<1>1. ASSUME NEW e \in live
      PROVE  Cardinality({i \in Slots : files[i].used /\ files[i].data = e[1]}) = 1
  <2>1. PICK i \in Slots : files[i].used /\ files[i].data = e[1]
    BY DEF IInv, OwnersOK
  <2>2. e[1] # NULL
    BY NullApart DEF IInv, HeapOK
  <2>3. {j \in Slots : files[j].used /\ files[j].data = e[1]} = {i}
    BY <2>1, <2>2 DEF IInv, OwnersOK
  <2> QED
    BY <2>3, FS_Singleton
<1> QED
  BY <1>1 DEF BlocksOwned, IInv, OwnersOK

\* ramfs_write leaks no heap block and shares none: every block handed out has
\* one file that holds its address, and no file reaches past its block.
THEOREM NoBlockLost == Spec => []BlocksOwned
  BY TableInvariant, OwnersExact, PTL

----------------------------------------------------------------------------
(* The table as a store of named contents *)

PresentIn(f) == {n \in Names : LookupIn(f, n) # NULL}

Content(f, m, i) == [b \in 1 .. f[i].size |-> m[f[i].data + b - 1]]

StoreIn(f, m) == [n \in PresentIn(f) |-> Content(f, m, LookupIn(f, n))]

ReplyIs(a) == IF a.op = "create" /\ a.rc >= 0 THEN [a EXCEPT !.rc = 0] ELSE a

\* The files that are there are those of the entries in use, one for one.
LEMMA PresentCount ==
  ASSUME IInv
  PROVE  /\ IsFiniteSet(UsedSlots) /\ Cardinality(UsedSlots) \in Nat
         /\ Cardinality(PresentIn(files)) = Cardinality(UsedSlots)
         /\ Vacant # {} <=> Cardinality(UsedSlots) < RAMFS_MAX_FILES
<1>1. IsFiniteSet(Slots) /\ Cardinality(Slots) = RAMFS_MAX_FILES /\ RAMFS_MAX_FILES \in Nat
  BY RamFsAssumption, FS_Interval DEF Slots
<1>2. UsedSlots \in SUBSET Slots
  BY DEF UsedSlots
<1>3. /\ IsFiniteSet(UsedSlots) /\ Cardinality(UsedSlots) <= Cardinality(Slots)
      /\ Cardinality(UsedSlots) = Cardinality(Slots) => UsedSlots = Slots
  BY <1>1, <1>2, FS_Subset
<1>4. Cardinality(UsedSlots) \in Nat
  BY <1>3, FS_CardinalityType
<1>5. Vacant # {} <=> UsedSlots # Slots
  BY DEF Vacant, UsedSlots
<1>6. Cardinality(PresentIn(files)) = Cardinality(UsedSlots)
  <2> DEFINE g == [i \in UsedSlots |-> files[i].name]
             P == PresentIn(files)
  <2>1. \A i \in UsedSlots : i \in Slots /\ files[i].used /\ files[i].name \in Names
    BY DEF UsedSlots, IInv, TableOK
  <2>2. \A i \in UsedSlots : files[i].name \in P
    BY <2>1, LookupIs, Found, NullApart DEF PresentIn, IInv
  <2>3. \A i, j \in UsedSlots : files[i].name = files[j].name => i = j
    BY <2>1 DEF IInv, TableOK, NamesDiffer
  <2>4. \A n \in P : \E i \in UsedSlots : files[i].name = n
    BY Found, LookupIs DEF PresentIn, UsedSlots, IInv
  <2> HIDE DEF P
  <2>5. g \in Bijection(UsedSlots, P)
    BY <2>2, <2>3, <2>4 DEF Bijection, Injection, Surjection, IsInjective
  <2>6. ExistsBijection(UsedSlots, P)
    BY <2>5 DEF ExistsBijection
  <2> QED
    BY <1>3, <2>6, FS_Bijection DEF P
<1> QED
  BY <1>1, <1>3, <1>4, <1>5, <1>6

\* A file's content is a sequence, as long as the file's size.
LEMMA ContentIs ==
  ASSUME IInv, NEW i \in Slots, files[i].used
  PROVE  /\ files[i].size \in Nat
         /\ Content(files, mem, i) \in Seq(Chars \cup {POISON})
         /\ Len(Content(files, mem, i)) = files[i].size
<1>1. files[i] \in Entries
  BY DEF IInv, TableOK
<1>2. files[i].size \in Nat /\ files[i].data \in Bytes \cup {NULL}
  BY <1>1 DEF Entries
<1>3. ASSUME NEW b \in 1 .. files[i].size PROVE mem[files[i].data + b - 1] \in Chars \cup {POISON}
  <2>1. files[i].data # NULL
    BY <1>2, <1>3 DEF IInv, OwnersOK
  <2>2. PICK e \in live : e[1] = files[i].data /\ files[i].size <= e[2]
    BY <2>1 DEF IInv, OwnersOK
  <2>3. e[1] \in Nat /\ e[2] \in Nat /\ e[1] + e[2] <= MemSize /\ MemSize \in Nat
    BY RamFsAssumption DEF IInv, HeapOK, Bytes
  <2>4. files[i].data + b - 1 \in Bytes
    BY <1>2, <1>3, <2>2, <2>3 DEF Bytes
  <2> QED
    BY <2>4 DEF IInv, HeapOK
<1> QED
  BY <1>2, <1>3 DEF Content

\* A file is found in one entry of the table.
LEMMA PresentIs ==
  ASSUME IInv, NEW n \in PresentIn(files)
  PROVE  \E i \in Slots : /\ files[i].used /\ files[i].name = n /\ ready
                          /\ LookupIn(files, n) = i /\ lookup(n) = i
                          /\ StoreIn(files, mem)[n] = Content(files, mem, i)
<1>1. lookup(n) = LookupIn(files, n) /\ lookup(n) # NULL
  BY LookupIs DEF PresentIn, IInv
<1> QED
  BY <1>1, Found DEF StoreIn

\* A create that succeeds adds one empty file.
LEMMA CreateAdds ==
  ASSUME IInv, NEW n \in Names, ramfs_create(n), MayCreate(n)
  PROVE  /\ n \notin PresentIn(files)
         /\ StoreIn(files', mem') =
              [x \in PresentIn(files) \cup {n} |->
                 IF x = n THEN <<>> ELSE StoreIn(files, mem)[x]]
<1> DEFINE old(x) == LookupIn(files, x)
           new(x) == LookupIn(files', x)
           P == PresentIn(files)
<1>1. PICK v \in Slots :
        /\ ~files[v].used
        /\ files'[v].used /\ files'[v].name = n /\ files'[v].data = NULL /\ files'[v].size = 0
        /\ \A i \in Slots : i # v => files'[i] = files[i]
  BY Created
<1>2. mem' = mem /\ old(n) = NULL
  BY LookupIs DEF MayCreate, ramfs_create, IInv
<1>3. NamesDiffer(files) /\ NamesDiffer(files')
  BY CreateStep DEF IInv, TableOK
<1>4. new(n) = v
  <2>1. \A i \in Slots : files'[i].used /\ files'[i].name = n => new(n) = i
    BY <1>3, LookupFinds
  <2> QED
    BY <1>1, <2>1
<1>5. ASSUME NEW x, x # n PROVE new(x) = old(x) /\ old(x) # v
  <2>1. /\ old(x) # NULL => old(x) \in Slots /\ files[old(x)].used /\ files[old(x)].name = x
        /\ \A i \in Slots : files[i].used /\ files[i].name = x => old(x) = i
    BY <1>3, LookupFinds
  <2>2. /\ new(x) # NULL => new(x) \in Slots /\ files'[new(x)].used /\ files'[new(x)].name = x
        /\ \A i \in Slots : files'[i].used /\ files'[i].name = x => new(x) = i
    BY <1>3, LookupFinds
  <2> HIDE DEF old, new
  <2> QED
    BY <1>1, <1>5, <2>1, <2>2, NullApart
<1>6. P \subseteq Names /\ n \notin P
  BY <1>2 DEF PresentIn
<1>7. PresentIn(files') = P \cup {n}
  BY <1>4, <1>5, NullApart DEF PresentIn
<1>8. Content(files', mem', v) = <<>>
  BY <1>1 DEF Content
<1>9. ASSUME NEW x \in P PROVE Content(files', mem', new(x)) = StoreIn(files, mem)[x]
  <2>1. x # n
    BY <1>6
  <2>2. new(x) = old(x) /\ old(x) # v
    BY <1>5, <2>1
  <2>3. old(x) \in Slots /\ StoreIn(files, mem)[x] = Content(files, mem, old(x))
    BY PresentIs
  <2>4. files'[old(x)] = files[old(x)]
    BY <1>1, <2>2, <2>3
  <2> HIDE DEF old, new
  <2> QED
    BY <1>2, <2>2, <2>3, <2>4 DEF Content
<1>10. StoreIn(files', mem') = [x \in P \cup {n} |-> Content(files', mem', new(x))]
  BY <1>7 DEF StoreIn
<1> HIDE DEF P, new
<1>11. [x \in P \cup {n} |-> Content(files', mem', new(x))] =
         [x \in P \cup {n} |-> IF x = n THEN <<>> ELSE StoreIn(files, mem)[x]]
  BY <1>4, <1>6, <1>8, <1>9
<1> QED
  BY <1>6, <1>10, <1>11 DEF P

\* A write that succeeds replaces the content of one file and of no other.
LEMMA WriteReplaces ==
  ASSUME IInv, NEW n \in Names, NEW c \in Contents, ramfs_write(n, c), NEW e, Replaced(n, c, e)
  PROVE  /\ n \in PresentIn(files)
         /\ StoreIn(files', mem') = [StoreIn(files, mem) EXCEPT ![n] = c]
<1> DEFINE old(x) == LookupIn(files, x)
           new(x) == LookupIn(files', x)
           i == lookup(n)
           P == PresentIn(files)
<1>1. i = old(n) /\ i \in Slots /\ files[i].used /\ files[i].name = n
  BY Found, LookupIs DEF Replaced, IInv
<1>2. /\ files'[i].used /\ files'[i].name = n /\ files'[i].data = e[1] /\ files'[i].size = Len(c)
      /\ \A j \in Slots : j # i => files'[j] = files[j]
      /\ mem' = Copied(e, c, BlockAt(files[i].data))
  BY DEF Replaced
<1>3. /\ e \in Bytes \X (1 .. MemSize) /\ e[1] + e[2] <= MemSize /\ Len(c) <= e[2]
      /\ \A f \in live : A!Disjoint(e, f)
  BY DEF Replaced
<1>4. NamesDiffer(files) /\ NamesDiffer(files')
  BY WriteStep DEF IInv, TableOK
<1> HIDE DEF i
<1>5. ASSUME NEW x PROVE new(x) = old(x)
  <2>1. /\ old(x) # NULL => old(x) \in Slots /\ files[old(x)].used /\ files[old(x)].name = x
        /\ \A j \in Slots : files[j].used /\ files[j].name = x => old(x) = j
    BY <1>4, LookupFinds
  <2>2. /\ new(x) # NULL => new(x) \in Slots /\ files'[new(x)].used /\ files'[new(x)].name = x
        /\ \A j \in Slots : files'[j].used /\ files'[j].name = x => new(x) = j
    BY <1>4, LookupFinds
  <2> HIDE DEF old, new
  <2> QED
    BY <1>1, <1>2, <2>1, <2>2, NullApart
<1>6. PresentIn(files') = P
  BY <1>5 DEF PresentIn
<1>7. n \in P
  BY <1>1, NullApart DEF PresentIn
<1>8. Content(files', mem', i) = c
  <2>1. e[1] \in Nat /\ e[2] \in Nat /\ MemSize \in Nat /\ Len(c) \in Nat
    BY <1>3, RamFsAssumption, ContentFacts DEF Bytes
  <2>2. ASSUME NEW b \in 1 .. Len(c) PROVE mem'[e[1] + b - 1] = c[b]
    <3>1. e[1] + b - 1 \in Bytes /\ e[1] + b - 1 >= e[1] /\ e[1] + b - 1 < e[1] + Len(c)
      BY <1>3, <2>1 DEF Bytes
    <3>2. (e[1] + b - 1) - e[1] + 1 = b
      BY <2>1
    <3>3. mem'[e[1] + b - 1] = c[(e[1] + b - 1) - e[1] + 1]
      BY <1>2, <3>1 DEF Copied
    <3> QED
      BY <3>2, <3>3
  <2>3. Content(files', mem', i) = [b \in 1 .. Len(c) |-> mem'[e[1] + b - 1]]
    BY <1>2 DEF Content
  <2>4. [b \in 1 .. Len(c) |-> mem'[e[1] + b - 1]] = [b \in 1 .. Len(c) |-> c[b]]
    BY <2>2
  <2> QED
    BY <2>3, <2>4, ContentFacts
<1>9. ASSUME NEW j \in Slots, files[j].used, j # i
      PROVE  Content(files', mem', j) = Content(files, mem, j)
  <2>1. files'[j] = files[j]
    BY <1>2, <1>9
  <2>2. ASSUME NEW b \in 1 .. files[j].size
        PROVE  mem'[files[j].data + b - 1] = mem[files[j].data + b - 1]
    <3>1. files[j].data # NULL
      BY <1>9, <2>2 DEF IInv, OwnersOK
    <3>2. PICK f \in live : f[1] = files[j].data /\ files[j].size <= f[2]
      BY <1>9, <3>1 DEF IInv, OwnersOK
    <3>3. /\ f[1] \in Nat /\ f[2] \in Nat /\ f[1] + f[2] <= MemSize /\ MemSize \in Nat
          /\ e[1] \in Nat /\ e[2] \in Nat /\ Len(c) \in Nat
      BY <1>3, RamFsAssumption, ContentFacts DEF IInv, HeapOK, Bytes
    <3>4. files[j].size \in Nat
      BY <1>9, ContentIs
    <3> DEFINE a == f[1] + b - 1
    <3>5. a \in Bytes /\ a >= f[1] /\ a < f[1] + f[2]
      <4>1. b \in Nat /\ b >= 1 /\ b <= f[2]
        BY <2>2, <3>2, <3>3, <3>4
      <4> QED
        BY <3>3, <4>1 DEF Bytes
    <3>6. ~(a >= e[1] /\ a < e[1] + Len(c))
      BY <1>3, <3>3, <3>5 DEF A!Disjoint
    <3>7. ASSUME NEW g \in BlockAt(files[i].data) PROVE ~Inside(a, g)
      <4>1. g \in live /\ g[1] = files[i].data
        BY DEF BlockAt
      <4>2. g # f
        <5>1. files[i].data # files[j].data
          BY <1>1, <1>9, <3>1 DEF IInv, OwnersOK
        <5> QED
          BY <3>2, <4>1, <5>1
      <4>3. A!Disjoint(f, g) /\ g[1] \in Nat /\ g[2] \in Nat
        BY <4>1, <4>2, RamFsAssumption DEF IInv, HeapOK, Bytes
      <4> QED
        BY <3>3, <3>5, <4>3 DEF A!Disjoint, Inside
    <3>8. mem'[a] = mem[a]
      BY <1>2, <3>5, <3>6, <3>7 DEF Copied
    <3> QED
      BY <3>2, <3>8
  <2>3. [b \in 1 .. files[j].size |-> mem'[files[j].data + b - 1]] =
          [b \in 1 .. files[j].size |-> mem[files[j].data + b - 1]]
    BY <2>2
  <2> QED
    BY <2>1, <2>3 DEF Content
<1>10. ASSUME NEW x \in P
       PROVE  Content(files', mem', new(x)) = IF x = n THEN c ELSE StoreIn(files, mem)[x]
  <2>1. PICK j \in Slots : /\ files[j].used /\ files[j].name = x /\ old(x) = j
                           /\ StoreIn(files, mem)[x] = Content(files, mem, j)
    BY PresentIs
  <2>2. new(x) = j
    BY <1>5, <2>1
  <2>3. CASE x = n
    BY <1>1, <1>8, <2>1, <2>2, <2>3
  <2>4. CASE x # n
    <3>1. j # i
      BY <1>1, <2>1, <2>4
    <3> HIDE DEF new
    <3> QED
      BY <1>9, <2>1, <2>2, <2>4, <3>1
  <2> QED
    BY <2>3, <2>4
<1>11. StoreIn(files', mem') = [x \in P |-> Content(files', mem', new(x))]
  BY <1>6 DEF StoreIn
<1>12. DOMAIN StoreIn(files, mem) = P /\ StoreIn(files, mem) = [x \in P |-> StoreIn(files, mem)[x]]
  BY DEF StoreIn
<1> HIDE DEF P, new
<1>13. [x \in P |-> Content(files', mem', new(x))] = [x \in P |-> IF x = n THEN c ELSE StoreIn(files, mem)[x]]
  BY <1>10
<1>14. [StoreIn(files, mem) EXCEPT ![n] = c] = [x \in P |-> IF x = n THEN c ELSE StoreIn(files, mem)[x]]
  BY <1>12
<1> QED
  BY <1>7, <1>11, <1>13, <1>14 DEF P

----------------------------------------------------------------------------
(* Every call is a call of FileStore *)

\* The state of FileStore that ImplementsFileStore maps a state to.
Sto == [n \in {n \in Names : lookup(n) # NULL} |-> Stored(lookup(n))]

Rep == IF reply.op = "create" /\ reply.rc >= 0 THEN [reply EXCEPT !.rc = 0] ELSE reply

LEMMA StoIs == ASSUME TableOK PROVE Sto = StoreIn(files, mem)
<1>1. \A n : lookup(n) = LookupIn(files, n)
  BY LookupIs
<1> QED
  BY <1>1 DEF Sto, StoreIn, PresentIn, Stored, Content

LEMMA StoIsNext == ASSUME TableOK' PROVE Sto' = StoreIn(files', mem')
<1>1. \A n : lookup(n)' = LookupIn(files', n)
  BY LookupIs
<1> QED
  BY <1>1 DEF Sto, StoreIn, PresentIn, Stored, Content

LEMMA StoDomain == ASSUME IInv PROVE Sto = StoreIn(files, mem) /\ DOMAIN Sto = PresentIn(files)
<1>1. Sto = StoreIn(files, mem)
  BY StoIs DEF IInv
<1> QED
  BY <1>1 DEF StoreIn

LEMMA StoSame == ASSUME ready' = ready, files' = files, mem' = mem PROVE Sto' = Sto
<1>1. \A n : lookup(n)' = lookup(n) /\ \A i : Stored(i)' = Stored(i)
  BY DEF lookup, Stored
<1> QED
  BY <1>1 DEF Sto

\* What FileStore sees of an answer.
LEMMA RepIs ==
  ASSUME NEW op, NEW rc, NEW out, reply' = Answer(op, rc, out)
  PROVE  /\ op # "create" => Rep' = Answer(op, rc, out)
         /\ op = "create" /\ rc \in Nat => Rep' = Answer("create", 0, out)
         /\ op = "create" /\ rc = -1 => Rep' = Answer("create", -1, out)
<1>1. reply'.op = op /\ reply'.rc = rc
  BY DEF Answer
<1>2. [Answer(op, rc, out) EXCEPT !.rc = 0] = Answer(op, 0, out)
  BY DEF Answer
<1> QED
  BY <1>1, <1>2 DEF Rep

\* FileStore counts with the Cardinality of its own FiniteSets.
LEMMA SameCount == ASSUME NEW S PROVE F!Cardinality(S) = Cardinality(S)
  BY DEF F!Cardinality, Cardinality

LEMMA InitImplements == ASSUME Init PROVE F!Init
<1>1. TableOK /\ \A i \in Slots : ~files[i].used
  <2>1. IInv /\ ~ready
    BY InitInv DEF Init
  <2> QED
    BY <2>1 DEF IInv, TableOK
<1>2. PresentIn(files) = {}
  BY <1>1 DEF PresentIn, LookupIn
<1>3. Sto = <<>>
  BY <1>1, <1>2, StoIs DEF StoreIn
<1>4. ready = FALSE /\ Rep = Answer("none", 0, <<>>)
  BY DEF Init, Rep, Answer
<1> QED
  BY <1>3, <1>4 DEF F!Init, F!Answer, Answer, Sto, Rep

LEMMA SetUpImplements == ASSUME IInv, ramfs_init PROVE F!SetUp
<1>1. \A i \in Slots : ~files[i].used
  BY DEF IInv, TableOK, ramfs_init
<1>2. \A i \in Slots : ~files'[i].used
  BY Zenon DEF ramfs_init, EmptySlot
<1>3. PresentIn(files) = {} /\ PresentIn(files') = {}
  BY <1>1, <1>2 DEF PresentIn, LookupIn
<1>4. Sto = <<>> /\ Sto' = <<>>
  <2>1. Sto = StoreIn(files, mem) /\ Sto' = StoreIn(files', mem')
    BY StoIs, StoIsNext, InitCall DEF IInv
  <2> QED
    BY <1>3, <2>1 DEF StoreIn
<1>5. ~ready /\ ready' = TRUE /\ Rep' = Answer("init", 0, <<>>)
  <2>1. reply' = Answer("init", 0, <<>>)
    BY DEF ramfs_init
  <2> QED
    BY <2>1, RepIs DEF ramfs_init
<1>6. Sto' = Sto
  BY <1>4
<1> QED
  BY <1>5, <1>6 DEF F!SetUp, F!Answer, Answer, Sto, Rep

LEMMA CreateImplements == ASSUME IInv, NEW n \in Names, ramfs_create(n) PROVE F!Create(n)
<1> DEFINE can == ready /\ n \notin LongNames \cup DOMAIN Sto /\ F!Cardinality(DOMAIN Sto) < RAMFS_MAX_FILES
<1>1. DOMAIN Sto = PresentIn(files) /\ Sto = StoreIn(files, mem) /\ Sto' = StoreIn(files', mem')
  BY StoDomain, StoIsNext, CreateStep DEF IInv
<1>2. can <=> MayCreate(n)
  <2>1. n \in PresentIn(files) <=> lookup(n) # NULL
    BY LookupIs DEF PresentIn, IInv
  <2>2. F!Cardinality(DOMAIN Sto) < RAMFS_MAX_FILES <=> Vacant # {}
    BY <1>1, SameCount, PresentCount
  <2> QED
    BY <1>1, <2>1, <2>2 DEF MayCreate
<1>3. ready' = ready
  BY DEF ramfs_create
<1>4. CASE MayCreate(n)
  <2>1. PICK v \in Slots : reply' = Answer("create", v, <<>>)
    BY <1>4, Created
  <2>2. v \in Nat
    BY RamFsAssumption DEF Slots
  <2>3. Rep' = Answer("create", 0, <<>>)
    BY <2>1, <2>2, RepIs
  <2>4. Sto' = [m \in DOMAIN Sto \cup {n} |-> IF m = n THEN <<>> ELSE Sto[m]]
    BY <1>1, <1>4, CreateAdds
  <2>5. can
    BY <1>2, <1>4
  <2> QED
    BY <1>3, <2>3, <2>4, <2>5 DEF F!Create, F!Present, F!Answer, Answer, Sto, Rep
<1>5. CASE ~MayCreate(n)
  <2>1. reply' = Answer("create", -1, <<>>) /\ files' = files /\ mem' = mem
    BY <1>5 DEF ramfs_create
  <2>2. Rep' = Answer("create", -1, <<>>) /\ Sto' = Sto
    BY <1>3, <2>1, RepIs, StoSame
  <2>3. ~can
    BY <1>2, <1>5
  <2> QED
    BY <1>3, <2>2, <2>3 DEF F!Create, F!Present, F!Answer, Answer, Sto, Rep
<1> QED
  BY <1>4, <1>5

LEMMA SizeImplements == ASSUME IInv, NEW n \in Names, ramfs_size(n) PROVE F!Size(n)
<1>1. DOMAIN Sto = PresentIn(files) /\ Sto = StoreIn(files, mem)
  BY StoDomain
<1>2. ready' = ready /\ Sto' = Sto
  BY StoSame DEF ramfs_size
<1> DEFINE rc == IF n \in DOMAIN Sto THEN Len(Sto[n]) ELSE 0
<1>3. reply' = Answer("size", rc, <<>>)
  <2>1. CASE n \in DOMAIN Sto
    <3>1. PICK i \in Slots : files[i].used /\ lookup(n) = i /\ Sto[n] = Content(files, mem, i)
      BY <1>1, <2>1, PresentIs
    <3>2. Len(Sto[n]) = files[i].size /\ i # NULL
      BY <3>1, ContentIs, NullApart
    <3> QED
      BY <2>1, <3>1, <3>2 DEF ramfs_size
  <2>2. CASE n \notin DOMAIN Sto
    <3>1. lookup(n) = NULL
      BY <1>1, <2>2, LookupIs DEF PresentIn, IInv
    <3> QED
      BY <2>2, <3>1 DEF ramfs_size
  <2> QED
    BY <2>1, <2>2
<1> HIDE DEF rc
<1>4. Rep' = Answer("size", rc, <<>>)
  BY <1>3, RepIs
<1> QED
  BY <1>2, <1>4 DEF F!Size, F!Present, F!Answer, Answer, Sto, Rep, rc

LEMMA ReadImplements ==
  ASSUME IInv, NEW n \in Names, NEW max \in Rooms, ramfs_read(n, max)
  PROVE  F!Read(n, max)
<1>1. DOMAIN Sto = PresentIn(files) /\ Sto = StoreIn(files, mem)
  BY StoDomain
<1>2. ready' = ready /\ Sto' = Sto
  BY StoSame DEF ramfs_read
<1>3. CASE n \notin DOMAIN Sto
  <2>1. lookup(n) = NULL
    BY <1>1, <1>3, LookupIs DEF PresentIn, IInv
  <2>2. reply' = Answer("read", -1, <<>>)
    BY <2>1 DEF ramfs_read
  <2>3. Rep' = Answer("read", -1, <<>>)
    BY <2>2, RepIs
  <2> QED
    BY <1>2, <1>3, <2>3 DEF F!Read, F!Present, F!Answer, Answer, Sto, Rep
<1>4. CASE n \in DOMAIN Sto
  <2>1. PICK i \in Slots : files[i].used /\ lookup(n) = i /\ Sto[n] = Content(files, mem, i)
    BY <1>1, <1>4, PresentIs
  <2>2. i # NULL /\ files[i].size \in Nat /\ Len(Sto[n]) = files[i].size /\ max \in Nat
    BY <2>1, ContentIs, NullApart, RamFsAssumption
  <2> DEFINE k == IF Len(Sto[n]) < max THEN Len(Sto[n]) ELSE max
  <2>3. k \in Nat /\ k <= files[i].size
    BY <2>2
  <2>4. reply' = Answer("read", k, [b \in 1 .. k |-> mem[files[i].data + b - 1]])
    BY <2>1, <2>2 DEF ramfs_read
  <2>5. SubSeq(Sto[n], 1, k) = [b \in 1 .. k |-> mem[files[i].data + b - 1]]
    <3> HIDE DEF k
    <3>1. SubSeq(Sto[n], 1, k) = [b \in 1 .. k |-> Sto[n][b]]
      BY <2>3
    <3>2. \A b \in 1 .. k : Sto[n][b] = mem[files[i].data + b - 1]
      BY <2>1, <2>2, <2>3 DEF Content
    <3> QED
      BY <3>1, <3>2
  <2> HIDE DEF k
  <2>6. Rep' = Answer("read", k, SubSeq(Sto[n], 1, k))
    BY <2>4, <2>5, RepIs
  <2> QED
    BY <1>2, <1>4, <2>6 DEF F!Read, F!Present, F!Answer, Answer, Sto, Rep, k
<1> QED
  BY <1>3, <1>4

LEMMA ListImplements == ASSUME IInv, NEW max \in Rooms, ramfs_list(max) PROVE F!List(max)
<1>1. DOMAIN Sto = PresentIn(files) /\ Sto = StoreIn(files, mem)
  BY StoDomain
<1>2. ready' = ready /\ Sto' = Sto
  BY StoSame DEF ramfs_list
<1> DEFINE count == F!Cardinality(DOMAIN Sto)
           k == IF count < max THEN count ELSE max
<1>3. count = Cardinality(UsedSlots) /\ k \in Nat
  BY <1>1, SameCount, PresentCount, RamFsAssumption
<1>4. PICK q \in FirstUsed(k) : reply' = Answer("list", k, [s \in 1 .. k |-> files[q[s]].name])
  BY <1>3 DEF ramfs_list
<1> HIDE DEF count, k
<1> DEFINE names == [s \in 1 .. k |-> files[q[s]].name]
<1>5. /\ q \in [1 .. k -> UsedSlots]
      /\ \A s, t \in 1 .. k : s < t => q[s] < q[t]
  BY <1>4 DEF FirstUsed
<1>6. \A i \in UsedSlots : i \in Slots /\ i \in Nat /\ files[i].used /\ files[i].name \in Names
  BY RamFsAssumption DEF UsedSlots, Slots, IInv, TableOK
<1>7. \A i \in UsedSlots : files[i].name \in DOMAIN Sto
  BY <1>1, <1>6, Found, LookupIs, NullApart DEF PresentIn, IInv
<1>8. names \in [1 .. k -> DOMAIN Sto]
  BY <1>5, <1>7
<1>9. ASSUME NEW s \in 1 .. k, NEW t \in 1 .. k, names[s] = names[t] PROVE s = t
  <2>1. q[s] = q[t]
    BY <1>5, <1>6, <1>9 DEF IInv, TableOK, NamesDiffer
  <2>2. s \in Int /\ t \in Int /\ q[s] \in Int /\ q[t] \in Int
    BY <1>3, <1>5, <1>6
  <2> QED
    BY <1>5, <2>1, <2>2
<1>10. Rep' = Answer("list", k, names)
  BY <1>4, RepIs
<1> HIDE DEF names
<1>11. \E p \in [1 .. k -> DOMAIN Sto] :
         /\ \A s, t \in 1 .. k : p[s] = p[t] => s = t
         /\ Rep' = Answer("list", k, p)
  BY <1>8, <1>9, <1>10
<1> QED
  BY <1>2, <1>11 DEF F!List, F!Present, F!Answer, Answer, Sto, Rep, count, k

LEMMA WriteImplements ==
  ASSUME IInv, NEW n \in Names, NEW c \in Contents, ramfs_write(n, c)
  PROVE  F!Write(n, c)
<1>1. DOMAIN Sto = PresentIn(files) /\ Sto = StoreIn(files, mem) /\ Sto' = StoreIn(files', mem')
  BY StoDomain, StoIsNext, WriteStep DEF IInv
<1>2. ready' = ready
  BY DEF ramfs_write
<1>3. CASE files' = files /\ mem' = mem /\ reply' = Answer("write", -1, <<>>)
  <2>1. Sto' = Sto /\ Rep' = Answer("write", -1, <<>>)
    BY <1>2, <1>3, RepIs, StoSame
  <2> QED
    BY <1>2, <2>1 DEF F!Write, F!Answer, Answer, Sto, Rep
<1>4. CASE reply' = Answer("write", 0, <<>>) /\ \E e : Replaced(n, c, e)
  <2>1. n \in DOMAIN Sto /\ Sto' = [Sto EXCEPT ![n] = c]
    BY <1>1, <1>4, WriteReplaces
  <2>2. Rep' = Answer("write", 0, <<>>)
    BY <1>4, RepIs
  <2> QED
    BY <1>2, <2>1, <2>2 DEF F!Write, F!Present, F!Answer, Answer, Sto, Rep
<1> QED
  BY <1>3, <1>4, Written

LEMMA StepImplements == IInv /\ [Next]_vars => [F!Next]_F!vars
<1> SUFFICES ASSUME IInv, [Next]_vars PROVE [F!Next]_F!vars
  OBVIOUS
<1>1. CASE UNCHANGED vars
  <2>1. ready' = ready /\ Sto' = Sto /\ Rep' = Rep
    BY <1>1, StoSame DEF vars, Rep
  <2> QED
    BY <2>1 DEF F!vars, Sto, Rep
<1>2. CASE ramfs_init
  BY <1>2, SetUpImplements DEF F!Next
<1>3. ASSUME NEW n \in Names, ramfs_create(n) PROVE F!Next
  BY <1>3, CreateImplements DEF F!Next
<1>4. ASSUME NEW n \in Names, ramfs_size(n) PROVE F!Next
  BY <1>4, SizeImplements DEF F!Next
<1>5. ASSUME NEW n \in Names, NEW c \in Contents, ramfs_write(n, c) PROVE F!Next
  BY <1>5, WriteImplements DEF F!Next
<1>6. ASSUME NEW n \in Names, NEW max \in Rooms, ramfs_read(n, max) PROVE F!Next
  BY <1>6, ReadImplements DEF F!Next
<1>7. ASSUME NEW max \in Rooms, ramfs_list(max) PROVE F!Next
  BY <1>7, ListImplements DEF F!Next
<1> QED
  BY <1>1, <1>2, <1>3, <1>4, <1>5, <1>6, <1>7 DEF Next

\* ramfs.c implements FileStore whatever the sizes of its table and of the heap
\* and whatever is written: names are created once and while there is room, a
\* write replaces a content as a whole or not at all and touches no other file,
\* and reads, sizes and listings answer from what was written.
THEOREM RamFsImplements == Spec => ImplementsFileStore
<1>1. Init => F!Init
  BY InitImplements
<1> QED
  BY <1>1, TableInvariant, StepImplements, PTL DEF Spec, ImplementsFileStore, F!Spec

=============================================================================
