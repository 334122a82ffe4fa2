----------------------------- MODULE Ext4Proofs -----------------------------
(***************************************************************************)
(* Proofs about the journal of Ext4, the mount that applies it and the free   *)
(* counts, for any geometry, any volumes, any log the driver can follow and   *)
(* any number of calls, power cuts and faults.                               *)
(***************************************************************************)
EXTENDS Ext4, FiniteSetTheorems, WellFoundedInduction, TLAPS

(***************************************************************************)
(* The loops of the driver are folds.  FoldLeft is a recursive function on   *)
(* the subsets of a sequence's domain; that it exists, and takes one step    *)
(* for each element in turn, is shown once for all of them.                  *)
(***************************************************************************)

\* One step of the loop k.
Step(k, acc, x) ==
  CASE k = "tag" -> ApplyTag(acc, x)
    [] k = "record" -> ApplyRecord(acc, x)
    [] k = "free" -> FreeBlock(acc, x)
    [] k = "tree" -> FreeIndirectTree(acc, x, TRUE)
    [] k = "notree" -> FreeIndirectTree(acc, x, FALSE)
    [] k = "leaf" -> WriteLeaf(acc, x)
    [] k = "append" -> AppendBlock(acc, x)
    [] k = "run" -> AppendRun(acc, x)
    [] k = "concat" -> Concat(acc, x)
    [] k = "list" -> Listed(acc, x)
    [] k = "store" -> [acc EXCEPT ![x[1]] = x[2]]

\* What is left of a set of positions when its last is taken away.
Before(s) == s \ {Max(s)}

\* g is the table of the folds over the sets of positions within T.
FoldTable(k, base, seq, T, g) ==
  g = [s \in SUBSET T |-> IF s = {} THEN base ELSE Step(k, g[Before(s)], seq[Max(s)])]

Folded(k, base, seq) == (CHOOSE g : FoldTable(k, base, seq, DOMAIN seq, g))[DOMAIN seq]

\* A finite set, each part of which that is not empty has a last element.
Ordered(S) == IsFiniteSet(S) /\ \A s \in SUBSET S : s # {} => Max(s) \in s

LEMMA OrderedPart == ASSUME NEW S, Ordered(S), NEW T \in SUBSET S PROVE Ordered(T)
<1>1. IsFiniteSet(T) BY FS_Subset DEF Ordered
<1>2. \A s \in SUBSET T : s \in SUBSET S OBVIOUS
<1> QED BY <1>1, <1>2 DEF Ordered

LEMMA BeforeSmaller ==
  ASSUME NEW S, Ordered(S), NEW s \in SUBSET S, s # {}
  PROVE  Max(s) \in s /\ Before(s) \subseteq s /\ Before(s) # s
  BY DEF Ordered, Before

\* A set of positions has a last one.
LEMMA LastPosition ==
  ASSUME NEW n \in Nat, NEW s \in SUBSET (1 .. n), s # {}
  PROVE  Max(s) \in s /\ \A y \in s : Max(s) >= y
<1>2. \E x \in s : \A y \in s : x >= y
  <2> DEFINE above == {m \in Nat : \A y \in s : m >= y}
  <2>1. n \in above OBVIOUS
  <2>2. \E m \in above : \A k \in above : ~ k < m
    <3> DEFINE less == {ss \in Nat \X Nat : ss[1] < ss[2]}
    <3>1. IsWellFoundedOn(less, Nat) BY NatLessThanWellFounded DEF OpToRel
    <3>2. above \subseteq Nat /\ above # {} BY <2>1
    <3>4. \A k, m \in Nat : k < m => <<k, m>> \in less OBVIOUS
    <3> HIDE DEF above, less
    <3>3. \E m \in above : \A k \in above : <<k, m>> \notin less BY <3>1, <3>2, WFMin, Zenon
    <3> QED BY <3>2, <3>3, <3>4
  <2>3. PICK m \in above : \A k \in above : ~ k < m BY <2>2
  <2>4. m \in s
    <3> SUFFICES ASSUME m \notin s PROVE FALSE OBVIOUS
    <3>1. PICK y \in s : TRUE OBVIOUS
    <3>2. m - 1 \in above BY <3>1
    <3> QED BY <3>2, <2>3
  <2> QED BY <2>3, <2>4
<1> QED BY <1>2 DEF Max

LEMMA PositionsOrdered == ASSUME NEW n \in Nat PROVE Ordered(1 .. n)
<1>1. IsFiniteSet(1 .. n) BY FS_Interval
<1> QED BY <1>1, LastPosition DEF Ordered

\* A non-empty collection of sets of positions has a smallest member.
LEMMA Smallest ==
  ASSUME NEW S, IsFiniteSet(S), NEW Bad, Bad \subseteq SUBSET S, Bad # {}
  PROVE  \E T \in Bad : \A U \in Bad : U \subseteq T => U = T
<1>1. IsWellFoundedOn(StrictSubsetOrdering(S), SUBSET S)
  BY FS_StrictSubsetOrderingWellFounded, FS_FiniteSubsetsOfFinite
<1>2. \E T \in Bad : \A U \in Bad : <<U, T>> \notin StrictSubsetOrdering(S)
  BY <1>1, WFMin, Zenon
<1> QED BY <1>2 DEF StrictSubsetOrdering

\* One entry of a table.
LEMMA TableValue ==
  ASSUME NEW k, NEW base, NEW seq, NEW T, NEW g, FoldTable(k, base, seq, T, g), NEW s \in SUBSET T
  PROVE  g[s] = IF s = {} THEN base ELSE Step(k, g[Before(s)], seq[Max(s)])
  BY DEF FoldTable

\* A table, restricted to the positions of a smaller set.
LEMMA TableRestrict ==
  ASSUME NEW k, NEW base, NEW seq, NEW T, Ordered(T), NEW g,
         FoldTable(k, base, seq, T, g), NEW U \in SUBSET T, NEW h, h = [s \in SUBSET U |-> g[s]]
  PROVE  FoldTable(k, base, seq, U, h)
<1>1. ASSUME NEW s \in SUBSET U
      PROVE  h[s] = IF s = {} THEN base ELSE Step(k, h[Before(s)], seq[Max(s)])
  <2>1. s \in SUBSET T OBVIOUS
  <2>2. g[s] = IF s = {} THEN base ELSE Step(k, g[Before(s)], seq[Max(s)]) BY <2>1, TableValue
  <2>3. h[s] = g[s] OBVIOUS
  <2>4. s # {} => h[Before(s)] = g[Before(s)] BY <2>1, BeforeSmaller
  <2> QED BY <2>2, <2>3, <2>4
<1>2. h = [s \in SUBSET U |-> h[s]] OBVIOUS
<1>3. h = [s \in SUBSET U |-> IF s = {} THEN base ELSE Step(k, h[Before(s)], seq[Max(s)])]
  BY <1>1, <1>2
<1> QED BY <1>3, Zenon DEF FoldTable

\* There is at most one table.
LEMMA TableUnique ==
  ASSUME NEW k, NEW base, NEW seq, NEW T, Ordered(T), NEW g, NEW h,
         FoldTable(k, base, seq, T, g), FoldTable(k, base, seq, T, h)
  PROVE  g = h
<1> DEFINE Bad == {s \in SUBSET T : g[s] # h[s]}
<1>0. IsFiniteSet(T) BY DEF Ordered
<1>1. Bad = {}
  <2> SUFFICES ASSUME Bad # {} PROVE FALSE OBVIOUS
  <2>1. Bad \subseteq SUBSET T OBVIOUS
  <2>2. PICK s \in Bad : \A U \in Bad : U \subseteq s => U = s
    <3> HIDE DEF Bad
    <3> QED BY <2>1, <1>0, Smallest
  <2>3. s # {} => Before(s) \in SUBSET T /\ Before(s) \notin Bad
    <3>1. s # {} => Before(s) \subseteq s /\ Before(s) # s /\ s \subseteq T BY BeforeSmaller
    <3> QED BY <3>1, <2>2
  <2>4. s # {} => g[Before(s)] = h[Before(s)] BY <2>3
  <2>5. g[s] = h[s] BY <2>4, TableValue
  <2> QED BY <2>5
<1>2. \A s \in SUBSET T : g[s] = h[s] BY <1>1
<1>3. g = [s \in SUBSET T |-> g[s]] /\ h = [s \in SUBSET T |-> h[s]] BY DEF FoldTable
<1> HIDE DEF Bad
<1> QED BY <1>2, <1>3

\* The tables of two sets agree on the sets they share.
LEMMA TableAgree ==
  ASSUME NEW k, NEW base, NEW seq, NEW T, NEW U, Ordered(T), Ordered(U),
         NEW g, NEW h, FoldTable(k, base, seq, T, g), FoldTable(k, base, seq, U, h),
         NEW s \in SUBSET T, s \in SUBSET U
  PROVE  g[s] = h[s]
<1> DEFINE a == [t \in SUBSET s |-> g[t]]
<1> DEFINE b == [t \in SUBSET s |-> h[t]]
<1>0. Ordered(s) BY OrderedPart
<1>1. FoldTable(k, base, seq, s, a)
  <2>1. a = [t \in SUBSET s |-> g[t]] OBVIOUS
  <2> HIDE DEF a
  <2> QED BY <2>1, TableRestrict
<1>2. FoldTable(k, base, seq, s, b)
  <2>1. b = [t \in SUBSET s |-> h[t]] OBVIOUS
  <2> HIDE DEF b
  <2> QED BY <2>1, TableRestrict
<1>4. a[s] = g[s] /\ b[s] = h[s] OBVIOUS
<1> HIDE DEF a, b
<1>5. a = b BY <1>0, <1>1, <1>2, TableUnique
<1> QED BY <1>4, <1>5

\* There is a table: put together from those of the smaller sets.
LEMMA TableExists ==
  ASSUME NEW k, NEW base, NEW seq, NEW S, Ordered(S)
  PROVE  \E g : FoldTable(k, base, seq, S, g)
<1> DEFINE Bad == {T \in SUBSET S : ~ \E g : FoldTable(k, base, seq, T, g)}
<1> SUFFICES ASSUME Bad # {} PROVE FALSE OBVIOUS
<1>0. IsFiniteSet(S) BY DEF Ordered
<1>1. Bad \subseteq SUBSET S OBVIOUS
<1>2. PICK T \in Bad : \A U \in Bad : U \subseteq T => U = T
  <2> HIDE DEF Bad
  <2> QED BY <1>0, <1>1, Smallest
<1> DEFINE G(u) == CHOOSE g : FoldTable(k, base, seq, u, g)
<1>3. ASSUME NEW u \in SUBSET T, u # T
      PROVE  FoldTable(k, base, seq, u, G(u)) /\ Ordered(u)
  <2>1. u \notin Bad /\ u \in SUBSET S BY <1>2, <1>3
  <2>2. \E g : FoldTable(k, base, seq, u, g) BY <2>1
  <2>3. Ordered(u) BY <2>1, OrderedPart
  <2> HIDE DEF Bad
  <2> QED BY <2>2, <2>3
<1>9. ASSUME NEW s \in SUBSET T, s # {}
      PROVE  Before(s) \in SUBSET s /\ Before(s) \in SUBSET T /\ Before(s) # T
  <2>1. T \in SUBSET S BY <1>2
  <2>2. Ordered(T) BY <2>1, OrderedPart
  <2> HIDE DEF Bad
  <2> QED BY <2>2, <1>9, BeforeSmaller
<1> DEFINE h == [s \in SUBSET T |-> IF s = {} THEN base ELSE Step(k, G(Before(s))[Before(s)], seq[Max(s)])]
<1>4. ASSUME NEW s \in SUBSET T, s # {} PROVE h[Before(s)] = G(Before(s))[Before(s)]
  <2> DEFINE u == Before(s)
  <2>1. u \in SUBSET T /\ u # T BY <1>4, <1>9
  <2>2. FoldTable(k, base, seq, u, G(u)) /\ Ordered(u) BY <2>1, <1>3
  <2>3. h[u] = IF u = {} THEN base ELSE Step(k, G(Before(u))[Before(u)], seq[Max(u)]) BY <2>1
  <2> HIDE DEF G, h, u
  <2>4. G(u)[u] = IF u = {} THEN base ELSE Step(k, G(u)[Before(u)], seq[Max(u)]) BY <2>2, TableValue
  <2>5. ASSUME u # {} PROVE G(u)[Before(u)] = G(Before(u))[Before(u)]
    <3> HIDE DEF Bad
    <3>1. Before(u) \in SUBSET u /\ Before(u) \in SUBSET T /\ Before(u) # T /\ Before(u) \in SUBSET Before(u)
      BY <2>1, <2>5, <1>9
    <3>2. FoldTable(k, base, seq, Before(u), G(Before(u))) /\ Ordered(Before(u)) BY <3>1, <1>3
    <3> QED BY <2>2, <3>1, <3>2, TableAgree
  <2>6. h[u] = G(u)[u] BY <2>3, <2>4, <2>5
  <2> QED BY <2>6 DEF u
<1>5. h = [s \in SUBSET T |-> IF s = {} THEN base ELSE Step(k, h[Before(s)], seq[Max(s)])]
  <2> DEFINE same == [s \in SUBSET T |-> IF s = {} THEN base ELSE Step(k, h[Before(s)], seq[Max(s)])]
  <2>1. ASSUME NEW s \in SUBSET T PROVE h[s] = same[s]
    <3>1. h[s] = IF s = {} THEN base ELSE Step(k, G(Before(s))[Before(s)], seq[Max(s)]) OBVIOUS
    <3>2. same[s] = IF s = {} THEN base ELSE Step(k, h[Before(s)], seq[Max(s)]) OBVIOUS
    <3> HIDE DEF h, same, G
    <3> QED BY <3>1, <3>2, <1>4
  <2>2. h = [s \in SUBSET T |-> h[s]] OBVIOUS
  <2>3. same = [s \in SUBSET T |-> same[s]] OBVIOUS
  <2> HIDE DEF h
  <2>4. h = same
    <3> HIDE DEF same
    <3> QED BY <2>1, <2>2, <2>3
  <2> QED BY <2>4
<1> HIDE DEF h
<1>6. FoldTable(k, base, seq, T, h) BY <1>5, Zenon DEF FoldTable
<1> QED BY <1>2, <1>6

\* A fold takes one step for each element in turn: there are the states in
\* between, and it returns the last.
Stages(k, base, seq, n, f) ==
  f[0] = base /\ \A i \in 1 .. n : f[i] = Step(k, f[i - 1], seq[i])

LEMMA FoldSteps ==
  ASSUME NEW k, NEW base, NEW seq, NEW n \in Nat, DOMAIN seq = 1 .. n
  PROVE  \E f : Stages(k, base, seq, n, f) /\ Folded(k, base, seq) = f[n]
<1> DEFINE g == CHOOSE g : FoldTable(k, base, seq, 1 .. n, g)
<1>1. FoldTable(k, base, seq, 1 .. n, g) BY TableExists, PositionsOrdered
<1>2. Folded(k, base, seq) = g[1 .. n] BY DEF Folded
<1> HIDE DEF g
<1> DEFINE f == [i \in 0 .. n |-> g[1 .. i]]
<1>3. f[0] = base
  <2>1. 1 .. 0 = {} /\ {} \in SUBSET (1 .. n) OBVIOUS
  <2>2. g[{}] = base
    <3> DEFINE S == 1 .. n
    <3>1. FoldTable(k, base, seq, S, g) /\ {} \in SUBSET S BY <1>1
    <3> HIDE DEF S
    <3> QED BY <3>1, TableValue
  <2> QED BY <2>1, <2>2
<1>4. ASSUME NEW i \in 1 .. n PROVE f[i] = Step(k, f[i - 1], seq[i])
  <2>1. 1 .. i \in SUBSET (1 .. n) /\ 1 .. i # {} OBVIOUS
  <2>2. Max(1 .. i) \in 1 .. i /\ \A y \in 1 .. i : Max(1 .. i) >= y BY <2>1, LastPosition
  <2>3. Max(1 .. i) = i BY <2>2
  <2>4. Before(1 .. i) = 1 .. i - 1 BY <2>3 DEF Before
  <2>5. g[1 .. i] = Step(k, g[1 .. i - 1], seq[i])
    <3> DEFINE u == 1 .. i
    <3> DEFINE S == 1 .. n
    <3>1. u \in SUBSET S /\ u # {} /\ Max(u) = i /\ Before(u) = 1 .. i - 1
      BY <2>1, <2>3, <2>4
    <3>2. FoldTable(k, base, seq, S, g) BY <1>1
    <3> HIDE DEF u, S
    <3>3. g[u] = IF u = {} THEN base ELSE Step(k, g[Before(u)], seq[Max(u)]) BY <3>1, <3>2, TableValue
    <3>4. g[u] = Step(k, g[1 .. i - 1], seq[i]) BY <3>1, <3>3, Zenon
    <3> QED BY <3>4 DEF u
  <2>6. f[i] = g[1 .. i] /\ f[i - 1] = g[1 .. i - 1] OBVIOUS
  <2> HIDE DEF f
  <2> QED BY <2>5, <2>6
<1>5. Folded(k, base, seq) = f[n] BY <1>2
<1> HIDE DEF f
<1>6. Stages(k, base, seq, n, f) BY <1>3, <1>4 DEF Stages
<1> QED BY <1>5, <1>6

\* FoldLeft over each of the steps.
LEMMA FoldLeftTag ==
  ASSUME NEW s, NEW q PROVE FoldLeft(ApplyTag, s, q) = Folded("tag", s, q)
  BY Zenon DEF FoldLeft, MapThenFoldSet, Folded, FoldTable, Before, Step

LEMMA FoldLeftRecord ==
  ASSUME NEW s, NEW q PROVE FoldLeft(ApplyRecord, s, q) = Folded("record", s, q)
  BY Zenon DEF FoldLeft, MapThenFoldSet, Folded, FoldTable, Before, Step

LEMMA FoldLeftFree ==
  ASSUME NEW s, NEW q PROVE FoldLeft(FreeBlock, s, q) = Folded("free", s, q)
  BY Zenon DEF FoldLeft, MapThenFoldSet, Folded, FoldTable, Before, Step

LEMMA FoldLeftTree ==
  ASSUME NEW s, NEW q
  PROVE  /\ FoldLeft(LAMBDA t, b : FreeIndirectTree(t, b, TRUE), s, q) = Folded("tree", s, q)
         /\ FoldLeft(LAMBDA t, b : FreeIndirectTree(t, b, FALSE), s, q) = Folded("notree", s, q)
  BY Zenon DEF FoldLeft, MapThenFoldSet, Folded, FoldTable, Before, Step

LEMMA FoldLeftLeaf ==
  ASSUME NEW s, NEW q PROVE FoldLeft(WriteLeaf, s, q) = Folded("leaf", s, q)
  BY Zenon DEF FoldLeft, MapThenFoldSet, Folded, FoldTable, Before, Step

LEMMA FoldLeftAppend ==
  ASSUME NEW s, NEW q PROVE FoldLeft(AppendBlock, s, q) = Folded("append", s, q)
  BY Zenon DEF FoldLeft, MapThenFoldSet, Folded, FoldTable, Before, Step

LEMMA FoldLeftRun ==
  ASSUME NEW s, NEW q PROVE FoldLeft(AppendRun, s, q) = Folded("run", s, q)
  BY Zenon DEF FoldLeft, MapThenFoldSet, Folded, FoldTable, Before, Step

LEMMA FoldLeftConcat ==
  ASSUME NEW s, NEW q PROVE FoldLeft(Concat, s, q) = Folded("concat", s, q)
  BY Zenon DEF FoldLeft, MapThenFoldSet, Folded, FoldTable, Before, Step

LEMMA FoldLeftListed ==
  ASSUME NEW s, NEW q PROVE FoldLeft(Listed, s, q) = Folded("list", s, q)
  BY Zenon DEF FoldLeft, MapThenFoldSet, Folded, FoldTable, Before, Step

\* Induction up to n, over a set.
Climbs(S, n) == 0 \in S /\ \A i \in 1 .. n : i - 1 \in S => i \in S

LEMMA Climb == ASSUME NEW n \in Nat, NEW S, Climbs(S, n) PROVE n \in S
<1>0. 0 \in S /\ \A i \in 1 .. n : i - 1 \in S => i \in S BY DEF Climbs
<1> DEFINE Bad == {i \in Nat : i <= n /\ i \notin S}
<1> SUFFICES ASSUME Bad # {} PROVE FALSE OBVIOUS
<1>1. \E m \in Bad : \A i \in Bad : ~ i < m
  <2> DEFINE less == {ss \in Nat \X Nat : ss[1] < ss[2]}
  <2>1. IsWellFoundedOn(less, Nat) BY NatLessThanWellFounded DEF OpToRel
  <2>2. Bad \subseteq Nat OBVIOUS
  <2>3. \A i, m \in Nat : i < m => <<i, m>> \in less OBVIOUS
  <2> HIDE DEF Bad, less
  <2>4. \E m \in Bad : \A i \in Bad : <<i, m>> \notin less BY <2>1, <2>2, WFMin, Zenon
  <2> QED BY <2>2, <2>3, <2>4
<1>2. PICK m \in Bad : \A i \in Bad : ~ i < m BY <1>1
<1>3. m \in 1 .. n /\ m - 1 \notin Bad /\ m - 1 \in Nat BY <1>0, <1>2
<1> QED BY <1>0, <1>2, <1>3

(***************************************************************************)
(* The state a function of the driver works on, and what one write does.     *)
(***************************************************************************)

IsSeq(q) == \E S : q \in Seq(S)

IsState(s) ==
  /\ DOMAIN s = {"d", "m", "w", "in", "runs", "rc", "out"}
  /\ DOMAIN s.m = {"dev", "writable", "sb", "gd"}
  /\ DOMAIN s.m.sb = DOMAIN NoSuper
  /\ IsSeq(s.w)

\* What is known of a sequence.
LEMMA SeqFacts == ASSUME NEW q, IsSeq(q) PROVE Len(q) \in Nat /\ DOMAIN q = 1 .. Len(q)
<1>1. PICK S : q \in Seq(S) BY DEF IsSeq
<1> QED BY <1>1

LEMMA AppendFacts ==
  ASSUME NEW q, IsSeq(q), NEW e
  PROVE  /\ IsSeq(Append(q, e))
         /\ Len(Append(q, e)) = Len(q) + 1
         /\ Append(q, e)[Len(q) + 1] = e
         /\ \A n \in 1 .. Len(q) : Append(q, e)[n] = q[n]
<1>1. PICK S : q \in Seq(S) BY DEF IsSeq
<1>2. q \in Seq(S \cup {e}) BY <1>1
<1>3. Append(q, e) \in Seq(S \cup {e}) BY <1>2
<1> QED BY <1>2, <1>3 DEF IsSeq

LEMMA EmptySeqFacts == IsSeq(<<>>) /\ Len(<<>>) = 0
<1> DEFINE q == <<>>
<1>1. q \in Seq({}) OBVIOUS
<1>2. Len(q) = 0 OBVIOUS
<1> HIDE DEF q
<1>3. IsSeq(q) BY <1>1 DEF IsSeq
<1> QED BY <1>2, <1>3 DEF q

LEMMA TailFacts ==
  ASSUME NEW q, IsSeq(q), q # <<>>
  PROVE  /\ IsSeq(Tail(q)) /\ Len(Tail(q)) = Len(q) - 1 /\ Len(q) \in Nat \ {0}
         /\ \A n \in 1 .. Len(q) - 1 : Tail(q)[n] = q[n + 1]
<1>1. PICK S : q \in Seq(S) BY DEF IsSeq
<1>2. Tail(q) \in Seq(S) BY <1>1
<1> QED BY <1>1, <1>2 DEF IsSeq

\* Disk e is disk d with v at place a.
Stored(d, e, a, v) ==
  /\ DOMAIN e = DOMAIN d
  /\ \A x \in DOMAIN d : e[x] = IF x = a THEN v ELSE d[x]

CanWrite(s) == s.m.dev /\ s.m.writable
HasDevice(s) == s.m.dev

\* A write that gets through.
LEMMA WriteBlockFacts ==
  ASSUME NEW s, IsState(s), CanWrite(s), NEW a, NEW v
  PROVE  /\ IsState(WriteBlock(s, a, v))
         /\ WriteBlock(s, a, v).m = s.m
         /\ WriteBlock(s, a, v).w = Append(s.w, <<a, v>>)
         /\ Stored(s.d, WriteBlock(s, a, v).d, a, v)
         /\ WriteBlock(s, a, v).in = s.in /\ WriteBlock(s, a, v).runs = s.runs
<1>1. WriteBlock(s, a, v) = Done([s EXCEPT !.d[a] = v, !.w = Append(@, <<a, v>>)])
  BY DEF WriteBlock, CanWrite
<1> DEFINE t == [s EXCEPT !.d[a] = v, !.w = Append(@, <<a, v>>)]
<1>2. /\ DOMAIN t = DOMAIN s /\ t.m = s.m /\ t.w = Append(s.w, <<a, v>>)
      /\ t.d = [s.d EXCEPT ![a] = v] /\ t.in = s.in /\ t.runs = s.runs
  BY DEF IsState
<1> HIDE DEF t
<1>3. DOMAIN Done(t) = DOMAIN t BY DEF Done
<1>4. /\ Done(t).m = t.m /\ Done(t).w = t.w /\ Done(t).d = t.d
      /\ Done(t).in = t.in /\ Done(t).runs = t.runs
  BY <1>2 DEF Done, IsState
<1>5. IsSeq(Append(s.w, <<a, v>>)) BY AppendFacts DEF IsState
<1>6. Stored(s.d, t.d, a, v) BY <1>2 DEF Stored
<1> QED BY <1>1, <1>2, <1>3, <1>4, <1>5, <1>6 DEF IsState, t

LEMMA SyncSuperblockFacts ==
  ASSUME NEW s, IsState(s), HasDevice(s)
  PROVE  /\ IsState(SyncSuperblock(s))
         /\ SyncSuperblock(s).m = s.m
         /\ SyncSuperblock(s).w = Append(s.w, <<Super, s.m.sb>>)
         /\ Stored(s.d, SyncSuperblock(s).d, Super, s.m.sb)
         /\ SyncSuperblock(s).in = s.in /\ SyncSuperblock(s).runs = s.runs
<1>1. SyncSuperblock(s) = Done([s EXCEPT !.d[Super] = s.m.sb, !.w = Append(@, <<Super, s.m.sb>>)])
  BY DEF SyncSuperblock, HasDevice
<1> DEFINE t == [s EXCEPT !.d[Super] = s.m.sb, !.w = Append(@, <<Super, s.m.sb>>)]
<1>2. /\ DOMAIN t = DOMAIN s /\ t.m = s.m /\ t.w = Append(s.w, <<Super, s.m.sb>>)
      /\ t.d = [s.d EXCEPT ![Super] = s.m.sb] /\ t.in = s.in /\ t.runs = s.runs
  BY DEF IsState
<1> HIDE DEF t
<1>3. DOMAIN Done(t) = DOMAIN t BY DEF Done
<1>4. /\ Done(t).m = t.m /\ Done(t).w = t.w /\ Done(t).d = t.d
      /\ Done(t).in = t.in /\ Done(t).runs = t.runs
  BY <1>2 DEF Done, IsState
<1>5. IsSeq(Append(s.w, <<Super, s.m.sb>>)) BY AppendFacts DEF IsState
<1>6. Stored(s.d, t.d, Super, s.m.sb) BY <1>2 DEF Stored
<1> QED BY <1>1, <1>2, <1>3, <1>4, <1>5, <1>6 DEF IsState, t

LEMMA DoneFacts ==
  ASSUME NEW s, IsState(s)
  PROVE  /\ IsState(Done(s)) /\ Done(s).m = s.m /\ Done(s).w = s.w /\ Done(s).d = s.d
         /\ Done(s).in = s.in /\ Done(s).runs = s.runs
         /\ IsState(Fail(s)) /\ Fail(s).m = s.m /\ Fail(s).w = s.w /\ Fail(s).d = s.d
         /\ Fail(s).in = s.in /\ Fail(s).runs = s.runs
<1>1. DOMAIN Done(s) = DOMAIN s /\ DOMAIN Fail(s) = DOMAIN s BY DEF Done, Fail
<1>2. /\ Done(s).m = s.m /\ Done(s).w = s.w /\ Done(s).d = s.d /\ Done(s).in = s.in /\ Done(s).runs = s.runs
      /\ Fail(s).m = s.m /\ Fail(s).w = s.w /\ Fail(s).d = s.d /\ Fail(s).in = s.in /\ Fail(s).runs = s.runs
  BY DEF Done, Fail, IsState
<1> QED BY <1>1, <1>2 DEF IsState

(***************************************************************************)
(* What the log says.  The contents of a transaction are not records of the  *)
(* journal, so no two tags share a position and later transactions have      *)
(* later positions.                                                          *)
(***************************************************************************)

LEMMA LeastOne ==
  ASSUME NEW S \in SUBSET Nat, S # {}
  PROVE  Min(S) \in S /\ \A y \in S : Min(S) <= y
<1>1. \E m \in S : \A i \in S : ~ i < m
  <2> DEFINE less == {ss \in Nat \X Nat : ss[1] < ss[2]}
  <2>1. IsWellFoundedOn(less, Nat) BY NatLessThanWellFounded DEF OpToRel
  <2>2. \A i, m \in Nat : i < m => <<i, m>> \in less OBVIOUS
  <2> HIDE DEF less
  <2>3. S \subseteq Nat OBVIOUS
  <2>4. \E m \in S : \A i \in S : <<i, m>> \notin less BY <2>1, <2>3, WFMin, Zenon
  <2> QED BY <2>2, <2>4
<1>2. \E m \in S : \A y \in S : m <= y BY <1>1
<1> QED BY <1>2 DEF Min

\* e is the tag that ends a descriptor, or the place after its last one.
Ends(tags, e) ==
  /\ e \in 1 .. Len(tags) + 1
  /\ Live(tags) = 1 .. e - 1
  /\ \A n \in 1 .. e - 1 : ~tags[n].last /\ tags[n].to \in Addresses
  /\ e <= Len(tags) => tags[e].last \/ tags[e].to \notin Addresses

LEMMA EndExists ==
  ASSUME NEW tags, Len(tags) \in Nat, DOMAIN tags = 1 .. Len(tags)
  PROVE  \E e : Ends(tags, e)
<1> DEFINE stops == {n \in DOMAIN tags : tags[n].last \/ tags[n].to \notin Addresses} \cup {Len(tags) + 1}
<1>1. stops \in SUBSET Nat /\ stops # {} OBVIOUS
<1> DEFINE e == Min(stops)
<1>2. e \in stops /\ \A y \in stops : e <= y
  <2> HIDE DEF stops
  <2> QED BY <1>1, LeastOne
<1>3. Live(tags) = 1 .. e - 1 BY DEF Live
<1> HIDE DEF e
<1>4. e \in 1 .. Len(tags) + 1 BY <1>2
<1>5. \A n \in 1 .. e - 1 : ~(tags[n].last \/ tags[n].to \notin Addresses) BY <1>2, <1>4
<1>6. e <= Len(tags) => tags[e].last \/ tags[e].to \notin Addresses BY <1>2
<1> QED BY <1>3, <1>4, <1>5, <1>6 DEF Ends

\* What the log has for a tag the driver comes to.
LEMMA LiveFollowed ==
  ASSUME NEW j, WellFormed(j), NEW i \in Transactions(j), NEW n \in Live(j.log[i].tags)
  PROVE  /\ n \in Whole(j.log[i].tags) /\ i + n <= Len(j.log) /\ j.log[i + n].t = "raw"
         /\ j.log[i].tags[n].to # JournalSuper /\ j.log[i].tags[n].to \in Addresses
<1> DEFINE tags == j.log[i].tags
<1>1. Len(tags) \in Nat /\ DOMAIN tags = 1 .. Len(tags) BY DEF WellFormed
<1>2. n \in Live(tags) OBVIOUS
<1>3. n \in Whole(tags)
  <2> HIDE DEF tags
  <2>1. PICK e : Ends(tags, e) BY <1>1, EndExists
  <2>2. n \in 1 .. e - 1 /\ e \in 1 .. Len(tags) + 1 BY <1>2, <2>1 DEF Ends
  <2>3. n \in DOMAIN tags /\ \A m \in 1 .. n - 1 : m \in 1 .. e - 1 BY <1>1, <2>2
  <2>4. tags[n].to \in Addresses /\ \A m \in 1 .. n - 1 : ~tags[m].last BY <2>1, <2>2, <2>3 DEF Ends
  <2> QED BY <2>3, <2>4 DEF Whole
<1>4. tags[n].to \in Addresses BY <1>3 DEF Whole
<1> QED BY <1>3, <1>4 DEF WellFormed

\* Where a live tag comes from.
LEMMA LiveTagOf ==
  ASSUME NEW j, WellFormed(j), NEW x \in LiveTags(j)
  PROVE  \E i \in Transactions(j) : \E n \in Live(j.log[i].tags) :
           /\ x = <<i + n, j.log[i].tags[n]>> /\ i \in Nat /\ n \in Nat \ {0}
           /\ i + n <= Len(j.log) /\ x[1] \in Nat
           /\ x[2].to \in Addresses /\ x[2].to # JournalSuper
<1>0. PICK i \in Transactions(j) : x \in {<<i + n, j.log[i].tags[n]>> : n \in Live(j.log[i].tags)}
  BY DEF LiveTags
<1>1. PICK n \in Live(j.log[i].tags) : x = <<i + n, j.log[i].tags[n]>> BY <1>0
<1>2. i \in Nat BY DEF Transactions, Scanned, WellFormed
<1>3. PICK e : Ends(j.log[i].tags, e) BY EndExists DEF WellFormed
<1>4. Len(j.log[i].tags) \in Nat BY DEF WellFormed
<1>5. n \in Nat \ {0} BY <1>3, <1>4 DEF Ends
<1>6. i + n <= Len(j.log) BY LiveFollowed
<1>7. j.log[i].tags[n].to # JournalSuper /\ j.log[i].tags[n].to \in Addresses BY LiveFollowed
<1> QED BY <1>1, <1>2, <1>5, <1>6, <1>7

LEMMA LiveTagsApart ==
  ASSUME NEW j, WellFormed(j), NEW i \in Transactions(j), NEW k \in Transactions(j),
         NEW n \in Live(j.log[k].tags), i > k
  PROVE  i > k + n
<1>1. i \in Nat /\ k \in Nat BY DEF Transactions, Scanned, WellFormed
<1>2. PICK e : Ends(j.log[k].tags, e) BY EndExists DEF WellFormed
<1>3. Len(j.log[k].tags) \in Nat BY DEF WellFormed
<1>4. n \in 1 .. e - 1 /\ e \in Nat BY <1>2, <1>3 DEF Ends
<1> SUFFICES ASSUME i <= k + n PROVE FALSE BY <1>1, <1>4
<1>5. i - k \in 1 .. e - 1 BY <1>1, <1>4
<1>6. i - k \in Live(j.log[k].tags) BY <1>2, <1>5 DEF Ends
<1>7. j.log[k + (i - k)].t = "raw" BY <1>6, LiveFollowed
<1>8. k + (i - k) = i BY <1>1
<1> QED BY <1>7, <1>8 DEF Transactions

LEMMA LiveTagsUnique ==
  ASSUME NEW j, WellFormed(j), NEW x \in LiveTags(j), NEW y \in LiveTags(j), x[1] = y[1]
  PROVE  x = y
<1>a. PICK i \in Transactions(j) : \E n \in Live(j.log[i].tags) :
        x = <<i + n, j.log[i].tags[n]>> /\ i \in Nat /\ n \in Nat \ {0}
  BY LiveTagOf
<1>1. PICK n \in Live(j.log[i].tags) :
        x = <<i + n, j.log[i].tags[n]>> /\ i \in Nat /\ n \in Nat \ {0}
  BY <1>a
<1>b. PICK k \in Transactions(j) : \E m \in Live(j.log[k].tags) :
        y = <<k + m, j.log[k].tags[m]>> /\ k \in Nat /\ m \in Nat \ {0}
  BY LiveTagOf
<1>2. PICK m \in Live(j.log[k].tags) :
        y = <<k + m, j.log[k].tags[m]>> /\ k \in Nat /\ m \in Nat \ {0}
  BY <1>b
<1>3. ~(i > k) BY <1>1, <1>2, LiveTagsApart
<1>4. ~(k > i) BY <1>1, <1>2, LiveTagsApart
<1>5. i + n = k + m BY <1>1, <1>2
<1>6. i = k /\ n = m BY <1>1, <1>2, <1>3, <1>4, <1>5
<1> QED BY <1>1, <1>2, <1>6

(***************************************************************************)
(* The replay.  The pass over the log has caught up with position at when    *)
(* its writes are those of live tags and the last write to a block is that   *)
(* of its last tag before at.                                                *)
(***************************************************************************)

WriteOf(j, x) == <<x[2].to, LoggedContent(j, x)>>

Logged(j) == {WriteOf(j, x) : x \in {x \in LiveTags(j) : x[2].to \notin Revoked(j)}}

\* The last write of w to the place of e is e.
LastIs(w, e) ==
  \E m \in 1 .. Len(w) : w[m] = e /\ \A k \in m + 1 .. Len(w) : w[k][1] # e[1]

\* x is the last tag for its block among those before position at.
LatestBefore(j, x, at) ==
  /\ x[1] < at /\ x[2].to \notin Revoked(j)
  /\ \A y \in LiveTags(j) : y[2].to = x[2].to /\ y[1] < at => y[1] <= x[1]

CaughtUp(j, w, at) ==
  /\ w \in Seq(Logged(j))
  /\ \A x \in LiveTags(j) : LatestBefore(j, x, at) => LastIs(w, WriteOf(j, x))

LEMMA CaughtUpJump ==
  ASSUME NEW j, WellFormed(j), NEW w, NEW p \in Nat, NEW q \in Nat, CaughtUp(j, w, p), p <= q,
         \A x \in LiveTags(j) : x[1] < q => x[1] < p
  PROVE  CaughtUp(j, w, q)
<1>1. ASSUME NEW x \in LiveTags(j), LatestBefore(j, x, q) PROVE LatestBefore(j, x, p)
  <2>1. \A y \in LiveTags(j) : y[1] \in Nat BY LiveTagOf
  <2> QED BY <1>1, <2>1 DEF LatestBefore
<1> QED BY <1>1 DEF CaughtUp

\* A tag whose block was revoked writes nothing.
LEMMA CaughtUpSkip ==
  ASSUME NEW j, WellFormed(j), NEW w, NEW p \in Nat, CaughtUp(j, w, p),
         NEW x \in LiveTags(j), x[1] = p, x[2].to \in Revoked(j)
  PROVE  CaughtUp(j, w, p + 1)
<1>1. ASSUME NEW y \in LiveTags(j), LatestBefore(j, y, p + 1) PROVE LatestBefore(j, y, p)
  <2>1. \A z \in LiveTags(j) : z[1] \in Nat BY LiveTagOf
  <2>2. y # x BY <1>1 DEF LatestBefore
  <2>3. y[1] # p BY <2>2, LiveTagsUnique
  <2>4. y[1] < p BY <2>1, <2>3, <1>1 DEF LatestBefore
  <2> QED BY <1>1, <2>1, <2>4 DEF LatestBefore
<1> QED BY <1>1 DEF CaughtUp

\* A tag that counts is written after all before it.
LEMMA CaughtUpApply ==
  ASSUME NEW j, WellFormed(j), NEW w, NEW p \in Nat, CaughtUp(j, w, p),
         NEW x \in LiveTags(j), x[1] = p, x[2].to \notin Revoked(j)
  PROVE  CaughtUp(j, Append(w, WriteOf(j, x)), p + 1)
<1> DEFINE e == WriteOf(j, x)
<1> DEFINE v == Append(w, e)
<1>1. e \in Logged(j) BY DEF Logged
<1>2. w \in Seq(Logged(j)) BY DEF CaughtUp
<1> HIDE DEF e
<1>3. /\ v \in Seq(Logged(j)) /\ Len(v) = Len(w) + 1 /\ Len(w) \in Nat
      /\ v[Len(w) + 1] = e /\ \A n \in 1 .. Len(w) : v[n] = w[n]
  BY <1>1, <1>2
<1> HIDE DEF v
<1>4. ASSUME NEW y \in LiveTags(j), LatestBefore(j, y, p + 1) PROVE LastIs(v, WriteOf(j, y))
  <2>1. \A z \in LiveTags(j) : z[1] \in Nat BY LiveTagOf
  <2>2. CASE y = x
    <3>1. v[Len(v)] = WriteOf(j, y) /\ Len(v) \in 1 .. Len(v) BY <1>3, <2>2 DEF e
    <3> QED BY <3>1, <1>3 DEF LastIs
  <2>3. CASE y # x
    <3>1. y[1] # p BY <2>3, LiveTagsUnique
    <3>2. y[1] < p BY <2>1, <3>1, <1>4 DEF LatestBefore
    <3>3. LatestBefore(j, y, p) BY <1>4, <2>1, <3>2 DEF LatestBefore
    <3>4. LastIs(w, WriteOf(j, y)) BY <3>3 DEF CaughtUp
    <3>5. y[2].to # x[2].to
      <4> SUFFICES ASSUME y[2].to = x[2].to PROVE FALSE OBVIOUS
      <4>1. x[1] <= y[1] BY <1>4 DEF LatestBefore
      <4> QED BY <4>1, <3>2, <2>1
    <3> DEFINE f == WriteOf(j, y)
    <3>6. f[1] # e[1] BY <3>5 DEF WriteOf, e
    <3> HIDE DEF f
    <3>7. LastIs(w, f) BY <3>4 DEF f
    <3>8. PICK m \in 1 .. Len(w) : w[m] = f /\ \A k \in m + 1 .. Len(w) : w[k][1] # f[1]
      BY <3>7 DEF LastIs
    <3>9. m \in 1 .. Len(v) /\ v[m] = f BY <3>8, <1>3
    <3>10. ASSUME NEW k \in m + 1 .. Len(v) PROVE v[k][1] # f[1]
      <4>1. CASE k = Len(w) + 1 BY <4>1, <1>3, <3>6
      <4>2. CASE k # Len(w) + 1
        <5>1. k \in m + 1 .. Len(w) /\ k \in 1 .. Len(w) BY <4>2, <1>3
        <5> QED BY <5>1, <1>3, <3>8
      <4> QED BY <4>1, <4>2
    <3>11. LastIs(v, f) BY <3>9, <3>10 DEF LastIs
    <3> QED BY <3>11 DEF f
  <2> QED BY <2>2, <2>3
<1>5. CaughtUp(j, v, p + 1) BY <1>3, <1>4 DEF CaughtUp
<1> QED BY <1>5 DEF v, e

\* What the two loops keep: s is the state the replay began with.
AccOK(acc, j, s) ==
  /\ DOMAIN acc = {"s", "j", "at", "stop"} /\ acc.j = j /\ acc.at \in Nat
  /\ IsState(acc.s) /\ acc.s.m = s.m
  /\ DOMAIN acc.s.d = DOMAIN s.d /\ acc.s.d[JournalSuper] = s.d[JournalSuper]
  /\ CaughtUp(j, acc.s.w, acc.at)

\* After n tags of the descriptor at i, which ends at tag e.
TagAt(acc, i, e, n) ==
  \/ acc.stop = FALSE /\ acc.at = i + 1 + n /\ n < e
  \/ acc.stop = TRUE /\ acc.at = i + e /\ e <= n

Ready(s) == IsState(s) /\ CanWrite(s) /\ JournalSuper \in DOMAIN s.d

\* The loop leaves at a tag that ends the descriptor.
LEMMA TagStops ==
  ASSUME NEW acc, NEW j, NEW s, AccOK(acc, j, s), NEW tag,
         acc.stop \/ acc.at > Len(acc.j.log) \/ tag.last \/ tag.to \notin Addresses
  PROVE  AccOK(ApplyTag(acc, tag), j, s) /\ ApplyTag(acc, tag).at = acc.at
         /\ ApplyTag(acc, tag).stop = TRUE
<1>1. ApplyTag(acc, tag) = [acc EXCEPT !.stop = TRUE] BY DEF ApplyTag
<1> DEFINE b == [acc EXCEPT !.stop = TRUE]
<1>2. /\ DOMAIN b = DOMAIN acc /\ b.j = acc.j /\ b.at = acc.at /\ b.s = acc.s /\ b.stop = TRUE
  BY DEF AccOK
<1> HIDE DEF b
<1>3. AccOK(b, j, s) BY <1>2 DEF AccOK
<1> QED BY <1>1, <1>2, <1>3 DEF b

\* A tag that counts is applied, or skipped when its block was revoked.
LEMMA TagApplies ==
  ASSUME NEW acc, NEW j, WellFormed(j), NEW s, Ready(s), AccOK(acc, j, s), NEW x \in LiveTags(j),
         x[1] = acc.at, ~(acc.stop \/ acc.at > Len(acc.j.log) \/ x[2].last \/ x[2].to \notin Addresses)
  PROVE  AccOK(ApplyTag(acc, x[2]), j, s) /\ ApplyTag(acc, x[2]).at = acc.at + 1
         /\ ApplyTag(acc, x[2]).stop = acc.stop
<1> DEFINE tag == x[2]
<1> DEFINE v == Content(acc.j.log[acc.at], tag.escape)
<1> DEFINE t == IF tag.to \in Revoked(acc.j) THEN acc.s ELSE WriteBlock(acc.s, tag.to, v)
<1>1. ApplyTag(acc, tag) = [acc EXCEPT !.at = @ + 1, !.s = t] BY DEF ApplyTag
<1> DEFINE b == [acc EXCEPT !.at = @ + 1, !.s = t]
<1>2. /\ DOMAIN b = DOMAIN acc /\ b.j = acc.j /\ b.at = acc.at + 1 /\ b.s = t /\ b.stop = acc.stop
  BY DEF AccOK
<1>3. acc.j = j /\ v = LoggedContent(j, x) BY DEF AccOK, LoggedContent
<1> HIDE DEF b, v
<1>4. /\ IsState(t) /\ t.m = s.m /\ DOMAIN t.d = DOMAIN s.d
      /\ t.d[JournalSuper] = s.d[JournalSuper] /\ CaughtUp(j, t.w, acc.at + 1)
  <2>1. CASE tag.to \in Revoked(j)
    <3>1. t = acc.s BY <2>1, <1>3
    <3>2. CaughtUp(j, acc.s.w, acc.at + 1) BY <2>1, CaughtUpSkip DEF AccOK
    <3> QED BY <3>1, <3>2 DEF AccOK
  <2>2. CASE tag.to \notin Revoked(j)
    <3>1. t = WriteBlock(acc.s, tag.to, v) BY <2>2, <1>3
    <3>2. IsState(acc.s) /\ CanWrite(acc.s) /\ acc.s.m = s.m BY DEF AccOK, Ready, CanWrite
    <3> HIDE DEF t
    <3>3. /\ IsState(t) /\ t.m = s.m /\ t.w = Append(acc.s.w, <<tag.to, v>>)
          /\ Stored(acc.s.d, t.d, tag.to, v)
      <4> DEFINE u == acc.s
      <4> DEFINE a == tag.to
      <4>1. IsState(u) /\ CanWrite(u) /\ t = WriteBlock(u, a, v) /\ u.m = s.m BY <3>1, <3>2
      <4> HIDE DEF u, a
      <4>2. /\ IsState(t) /\ t.m = u.m /\ t.w = Append(u.w, <<a, v>>) /\ Stored(u.d, t.d, a, v)
        BY <4>1, WriteBlockFacts
      <4> QED BY <4>1, <4>2 DEF u, a
    <3>4. <<tag.to, v>> = WriteOf(j, x) BY <1>3 DEF WriteOf
    <3>5. CaughtUp(j, t.w, acc.at + 1) BY <3>3, <3>4, <2>2, CaughtUpApply DEF AccOK
    <3>6. tag.to # JournalSuper BY LiveTagOf
    <3>7. DOMAIN t.d = DOMAIN s.d /\ t.d[JournalSuper] = s.d[JournalSuper]
      BY <3>3, <3>6 DEF AccOK, Ready, Stored
    <3> QED BY <3>3, <3>5, <3>7
  <2> QED BY <2>1, <2>2
<1> HIDE DEF t
<1>5. AccOK(b, j, s) BY <1>2, <1>4 DEF AccOK
<1> QED BY <1>1, <1>2, <1>5 DEF b

LEMMA TagStep ==
  ASSUME NEW j, WellFormed(j), NEW s, Ready(s), NEW i \in Transactions(j),
         NEW e, Ends(j.log[i].tags, e), NEW n \in 1 .. Len(j.log[i].tags),
         NEW acc, AccOK(acc, j, s), TagAt(acc, i, e, n - 1)
  PROVE  LET b == ApplyTag(acc, j.log[i].tags[n]) IN AccOK(b, j, s) /\ TagAt(b, i, e, n)
<1> DEFINE tags == j.log[i].tags
<1> DEFINE b == ApplyTag(acc, tags[n])
<1>1. i \in Nat /\ Len(tags) \in Nat /\ e \in 1 .. Len(tags) + 1
  BY DEF Transactions, Scanned, WellFormed, Ends
<1>2. acc.j = j /\ acc.at \in Nat BY DEF AccOK
<1>3. CASE acc.stop = TRUE
  <2>1. AccOK(b, j, s) /\ b.at = acc.at /\ b.stop = TRUE BY <1>3, TagStops
  <2>2. acc.at = i + e /\ e <= n - 1 BY <1>3, Zenon DEF TagAt
  <2> HIDE DEF b
  <2>3. e <= n BY <2>2, <1>1
  <2>4. TagAt(b, i, e, n) BY <2>1, <2>2, <2>3, Zenon DEF TagAt
  <2> QED BY <2>1, <2>4 DEF b
<1>4. CASE acc.stop = FALSE
  <2>1. acc.at = i + 1 + (n - 1) /\ n - 1 < e BY <1>4, Zenon DEF TagAt
  <2>2. acc.at = i + n /\ n <= e BY <2>1, <1>1
  <2>3. CASE n = e
    <3>1. tags[n].last \/ tags[n].to \notin Addresses BY <2>3 DEF Ends
    <3>2. AccOK(b, j, s) /\ b.at = acc.at /\ b.stop = TRUE BY <3>1, TagStops
    <3> HIDE DEF b
    <3>3. b.at = i + e /\ e <= n BY <3>2, <2>2, <2>3, <1>1
    <3>4. TagAt(b, i, e, n) BY <3>2, <3>3, Zenon DEF TagAt
    <3> QED BY <3>2, <3>4 DEF b
  <2>4. CASE n # e
    <3>1. n \in 1 .. e - 1 BY <2>2, <2>4, <1>1
    <3>2. n \in Live(tags) /\ ~tags[n].last /\ tags[n].to \in Addresses BY <3>1 DEF Ends
    <3>3. i + n <= Len(j.log) BY <3>2, LiveFollowed
    <3> DEFINE x == <<i + n, tags[n]>>
    <3>4. x \in LiveTags(j) BY <3>2 DEF LiveTags
    <3>5. x[1] = acc.at /\ x[2] = tags[n] BY <2>2
    <3>6. ~(acc.at > Len(acc.j.log)) BY <3>3, <2>2, <1>1, <1>2 DEF WellFormed
    <3> HIDE DEF x, tags
    <3>7. ~(acc.stop \/ acc.at > Len(acc.j.log) \/ x[2].last \/ x[2].to \notin Addresses)
      BY <1>4, <3>2, <3>5, <3>6
    <3>8. /\ AccOK(ApplyTag(acc, x[2]), j, s) /\ ApplyTag(acc, x[2]).at = acc.at + 1
          /\ ApplyTag(acc, x[2]).stop = acc.stop
      BY <3>4, <3>5, <3>7, TagApplies
    <3>9. AccOK(b, j, s) /\ b.at = acc.at + 1 /\ b.stop = acc.stop BY <3>5, <3>8
    <3> HIDE DEF b
    <3>10. b.at = i + 1 + n /\ n < e BY <3>9, <2>2, <2>4, <1>1
    <3>11. TagAt(b, i, e, n) BY <3>9, <3>10, <1>4, Zenon DEF TagAt
    <3> QED BY <3>9, <3>11 DEF b, tags
  <2> QED BY <2>3, <2>4
<1> QED BY <1>3, <1>4, Zenon DEF TagAt

Entering(acc, i) == acc.at = i + 1 /\ acc.stop = FALSE
Left(acc, i, e) == acc.at = i + e

\* All the tags of a descriptor.
LEMMA TagLoop ==
  ASSUME NEW j, WellFormed(j), NEW s, Ready(s), NEW i \in Transactions(j),
         NEW e, Ends(j.log[i].tags, e), NEW acc, AccOK(acc, j, s), Entering(acc, i),
         NEW b, b = Folded("tag", acc, j.log[i].tags)
  PROVE  AccOK(b, j, s) /\ Left(b, i, e)
<1> DEFINE tags == j.log[i].tags
<1> DEFINE n == Len(tags)
<1>1. n \in Nat /\ DOMAIN tags = 1 .. n /\ i \in Nat /\ e \in 1 .. n + 1
  BY DEF WellFormed, Transactions, Scanned, Ends
<1>a. PICK f : Stages("tag", acc, tags, n, f) /\ Folded("tag", acc, tags) = f[n]
  <2> HIDE DEF tags, n
  <2> QED BY <1>1, FoldSteps
<1>3. f[0] = acc /\ b = f[n] /\ \A k \in 1 .. n : f[k] = Step("tag", f[k - 1], tags[k])
  BY <1>a DEF Stages
<1>4. \A x, y : Step("tag", x, y) = ApplyTag(x, y) BY DEF Step
<1> DEFINE S == {k \in 0 .. n : AccOK(f[k], j, s) /\ TagAt(f[k], i, e, k)}
<1>5. 0 \in S
  <2>1. acc.at = i + 1 + 0 /\ 0 < e BY <1>1 DEF Entering
  <2>2. acc.stop = FALSE BY Zenon DEF Entering
  <2>3. TagAt(acc, i, e, 0) BY <2>1, <2>2, Zenon DEF TagAt
  <2> QED BY <1>1, <1>3, <2>3
<1>6. ASSUME NEW k \in 1 .. n, k - 1 \in S PROVE k \in S
  <2>1. f[k] = ApplyTag(f[k - 1], tags[k]) BY <1>3, <1>4
  <2>2. AccOK(f[k - 1], j, s) /\ TagAt(f[k - 1], i, e, k - 1) BY <1>6
  <2>3. AccOK(f[k], j, s) /\ TagAt(f[k], i, e, k) BY <2>1, <2>2, TagStep
  <2> QED BY <2>3, <1>1
<1>7. n \in S
  <2>1. n \in Nat /\ Climbs(S, n) BY <1>1, <1>5, <1>6 DEF Climbs
  <2> HIDE DEF S, n
  <2> QED BY <2>1, Climb
<1>8. AccOK(b, j, s) /\ TagAt(b, i, e, n) BY <1>7, <1>3
<1>9. b.at = i + e
  <2>1. CASE b.stop = TRUE BY <2>1, <1>8, Zenon DEF TagAt
  <2>2. CASE b.stop = FALSE
    <3>1. b.at = i + 1 + n /\ n < e BY <2>2, <1>8, Zenon DEF TagAt
    <3>2. e = n + 1 /\ i + 1 + n = i + (n + 1)
      <4> HIDE DEF n
      <4> QED BY <3>1, <1>1
    <3> QED BY <3>1, <3>2
  <2> QED BY <2>1, <2>2, <1>8, Zenon DEF TagAt
<1> QED BY <1>8, <1>9 DEF Left

\* Before record i: the transactions before it are done, and what the loop has
\* stepped over beyond it holds no descriptor.
RecordAt(acc, j, i) ==
  /\ \A t \in Transactions(j) : \A n \in Live(j.log[t].tags) : t < i => t + n < acc.at
  /\ \A k \in Nat : i <= k /\ k < acc.at => j.log[k].t = "raw"

LEMMA RecordStep ==
  ASSUME NEW j, WellFormed(j), NEW s, Ready(s), NEW i \in Scanned(j),
         NEW acc, AccOK(acc, j, s), RecordAt(acc, j, i)
  PROVE  LET b == ApplyRecord(acc, i) IN AccOK(b, j, s) /\ RecordAt(b, j, i + 1)
<1> DEFINE b == ApplyRecord(acc, i)
<1>0. i \in Nat /\ Len(j.log) \in Nat BY DEF Scanned, WellFormed
<1>1. acc.j = j /\ acc.at \in Nat BY DEF AccOK
<1>2. \A t \in Transactions(j) : t \in Nat BY DEF Transactions, Scanned, WellFormed
<1>3. CASE i \notin Transactions(j)
  <2>1. i < acc.at \/ j.log[i].t # "desc" \/ j.log[i].seq \notin Committed(j)
    BY <1>3 DEF Transactions, WellFormed
  <2>2. b = acc BY <2>1, <1>1 DEF ApplyRecord
  <2>3. ASSUME NEW t \in Transactions(j), t < i + 1 PROVE t < i
    BY <1>3, <2>3, <1>0, <1>2
  <2>4. \A k \in Nat : i + 1 <= k => i <= k BY <1>0
  <2>5. RecordAt(acc, j, i + 1) BY <2>3, <2>4 DEF RecordAt
  <2> QED BY <2>2, <2>5
<1>4. CASE i \in Transactions(j)
  <2>1. j.log[i].t = "desc" /\ j.log[i].seq \in Committed(j) BY <1>4 DEF Transactions, WellFormed
  <2>2. acc.at <= i
    <3> SUFFICES ASSUME i < acc.at PROVE FALSE BY <1>0, <1>1
    <3>1. j.log[i].t = "raw" BY <1>0 DEF RecordAt
    <3> QED BY <3>1, <2>1
  <2> DEFINE a == [acc EXCEPT !.at = i + 1, !.stop = FALSE]
  <2>3. b = Folded("tag", a, j.log[i].tags)
    <3>1. b = FoldLeft(ApplyTag, a, j.log[i].tags) BY <2>1, <2>2, <1>0, <1>1 DEF ApplyRecord
    <3> QED BY <3>1, FoldLeftTag, Zenon
  <2>4. /\ DOMAIN a = DOMAIN acc /\ a.j = acc.j /\ a.s = acc.s /\ a.at = i + 1 /\ a.stop = FALSE
    BY DEF AccOK
  <2> HIDE DEF a
  <2>5. CaughtUp(j, acc.s.w, i + 1)
    <3>1. ASSUME NEW x \in LiveTags(j), x[1] < i + 1 PROVE x[1] < acc.at
      <4>1. PICK t \in Transactions(j) : \E n \in Live(j.log[t].tags) :
              x = <<t + n, j.log[t].tags[n]>> /\ t \in Nat /\ n \in Nat \ {0}
        BY LiveTagOf
      <4>2. PICK n \in Live(j.log[t].tags) :
              x = <<t + n, j.log[t].tags[n]>> /\ t \in Nat /\ n \in Nat \ {0}
        BY <4>1
      <4>3. x[1] = t + n BY <4>2
      <4>4. t < i BY <3>1, <4>2, <4>3, <1>0
      <4> QED BY <4>2, <4>3, <4>4 DEF RecordAt
    <3>2. CaughtUp(j, acc.s.w, acc.at) /\ acc.at <= i + 1 /\ i + 1 \in Nat BY <2>2, <1>0, <1>1 DEF AccOK
    <3> QED BY <3>1, <3>2, <1>1, CaughtUpJump
  <2>6. AccOK(a, j, s) BY <2>4, <2>5, <1>0 DEF AccOK
  <2>7. Len(j.log[i].tags) \in Nat /\ DOMAIN j.log[i].tags = 1 .. Len(j.log[i].tags)
    BY <1>4 DEF WellFormed
  <2>8. PICK e : Ends(j.log[i].tags, e) BY <2>7, EndExists
  <2>9. AccOK(b, j, s) /\ b.at = i + e
    <3> HIDE DEF b
    <3>1. Entering(a, i) BY <2>4, Zenon DEF Entering
    <3>2. AccOK(b, j, s) /\ Left(b, i, e) BY <1>4, <2>3, <3>1, <2>6, <2>8, TagLoop
    <3> QED BY <3>2 DEF Left
  <2>10. e \in Nat \ {0} /\ Live(j.log[i].tags) = 1 .. e - 1 BY <2>7, <2>8 DEF Ends
  <2>11. ASSUME NEW t \in Transactions(j), NEW n \in Live(j.log[t].tags), t < i + 1
         PROVE  t + n < i + e
    <3>1. CASE t = i BY <3>1, <2>10, <1>0
    <3>2. CASE t # i
      <4>1. t < i BY <3>2, <2>11, <1>0, <1>2
      <4>2. i > t + n BY <1>4, <4>1, <1>0, <1>2, LiveTagsApart
      <4>3. n \in Nat
        <5>1. Len(j.log[t].tags) \in Nat /\ DOMAIN j.log[t].tags = 1 .. Len(j.log[t].tags)
          BY DEF WellFormed
        <5>2. PICK h : Ends(j.log[t].tags, h) BY <5>1, EndExists
        <5> QED BY <5>1, <5>2 DEF Ends
      <4> QED BY <4>2, <4>3, <2>10, <1>0, <1>2
    <3> QED BY <3>1, <3>2
  <2>12. ASSUME NEW k \in Nat, i + 1 <= k, k < i + e PROVE j.log[k].t = "raw"
    <3>1. k - i \in 1 .. e - 1 BY <2>12, <2>10, <1>0
    <3>2. j.log[i + (k - i)].t = "raw" BY <3>1, <2>10, <1>4, LiveFollowed
    <3>3. i + (k - i) = k BY <1>0
    <3> QED BY <3>2, <3>3
  <2> HIDE DEF b
  <2>13. RecordAt(b, j, i + 1) BY <2>9, <2>11, <2>12 DEF RecordAt
  <2> QED BY <2>9, <2>13 DEF b
<1> QED BY <1>3, <1>4

\* The whole pass.
LEMMA RecordLoop ==
  ASSUME NEW j, WellFormed(j), ~Bogus(j), NEW s, Ready(s), NEW acc, AccOK(acc, j, s), acc.at = 0,
         NEW n, n = Cardinality(Scanned(j)),
         NEW recs, recs = [k \in 1 .. n |-> j.first + k - 1],
         NEW b, b = Folded("record", acc, recs)
  PROVE  AccOK(b, j, s) /\ RecordAt(b, j, Len(j.log) + 1)
<1>1. j.first \in Nat /\ Len(j.log) \in Nat /\ j.first <= Len(j.log) BY DEF WellFormed, Bogus
<1>2. n = Len(j.log) - j.first + 1 /\ n \in Nat
  <2>1. Cardinality(j.first .. Len(j.log)) = IF j.first > Len(j.log) THEN 0 ELSE Len(j.log) - j.first + 1
    <3> DEFINE lo == j.first
    <3> DEFINE hi == Len(j.log)
    <3>1. lo \in Int /\ hi \in Int BY <1>1
    <3> HIDE DEF lo, hi
    <3>2. Cardinality(lo .. hi) = IF lo > hi THEN 0 ELSE hi - lo + 1 BY <3>1, FS_Interval
    <3> QED BY <3>2 DEF lo, hi
  <2> QED BY <1>1, <2>1 DEF Scanned
<1>3. DOMAIN recs = 1 .. n /\ \A k \in 1 .. n : recs[k] = j.first + k - 1 OBVIOUS
<1>4. PICK f : Stages("record", acc, recs, n, f) /\ Folded("record", acc, recs) = f[n]
  <2>1. n \in Nat BY <1>2
  <2>2. DOMAIN recs = 1 .. n BY <1>3
  <2> QED BY ONLY <2>1, <2>2, FoldSteps
<1>5. f[0] = acc /\ b = f[n] /\ \A k \in 1 .. n : f[k] = Step("record", f[k - 1], recs[k])
  BY <1>4 DEF Stages
<1>6. \A x, y : Step("record", x, y) = ApplyRecord(x, y) BY DEF Step
<1> DEFINE S == {k \in 0 .. n : AccOK(f[k], j, s) /\ RecordAt(f[k], j, j.first + k)}
<1>7. 0 \in S
  <2>1. RecordAt(acc, j, j.first)
    <3>1. \A t \in Transactions(j) : t \in Nat /\ ~ (t < j.first) BY <1>1 DEF Transactions, Scanned
    <3>2. \A k \in Nat : ~ (k < acc.at) OBVIOUS
    <3> QED BY <3>1, <3>2 DEF RecordAt
  <2>2. j.first + 0 = j.first BY <1>1
  <2> QED BY <2>1, <2>2, <1>2, <1>5
<1>8. ASSUME NEW k \in 1 .. n, k - 1 \in S PROVE k \in S
  <2> DEFINE i == j.first + k - 1
  <2>1. i \in Scanned(j) /\ j.first + (k - 1) = i /\ i + 1 = j.first + k /\ recs[k] = i
    BY <1>1, <1>2, <1>3 DEF Scanned
  <2>2. f[k] = ApplyRecord(f[k - 1], i) BY <1>5, <1>6, <2>1
  <2>3. AccOK(f[k - 1], j, s) /\ RecordAt(f[k - 1], j, i) BY <1>8, <2>1
  <2> HIDE DEF i
  <2>4. AccOK(f[k], j, s) /\ RecordAt(f[k], j, i + 1) BY <2>1, <2>2, <2>3, RecordStep
  <2> QED BY <2>1, <2>4, <1>2
<1>9. n \in S
  <2>1. n \in Nat /\ Climbs(S, n) BY <1>2, <1>7, <1>8 DEF Climbs
  <2> HIDE DEF S
  <2> QED BY <2>1, Climb
<1>10. j.first + n = Len(j.log) + 1 BY <1>1, <1>2
<1> QED BY <1>5, <1>9, <1>10

\* x is the last tag for its block in all the log.
Final(j, x) ==
  /\ x[2].to \notin Revoked(j)
  /\ \A y \in LiveTags(j) : y[2].to = x[2].to => y[1] <= x[1]

\* The writes w are those of a replay from start to end.
Replayed(j, w) ==
  /\ w \in Seq(Logged(j))
  /\ \A x \in LiveTags(j) : Final(j, x) => LastIs(w, WriteOf(j, x))

LEMMA LoopReplays ==
  ASSUME NEW j, WellFormed(j), NEW s, NEW b, AccOK(b, j, s), RecordAt(b, j, Len(j.log) + 1)
  PROVE  Replayed(j, b.s.w)
<1>1. ASSUME NEW x \in LiveTags(j) PROVE x[1] < b.at
  <2>1. PICK t \in Transactions(j) : \E n \in Live(j.log[t].tags) :
          x = <<t + n, j.log[t].tags[n]>> /\ t \in Nat /\ n \in Nat \ {0}
    BY LiveTagOf
  <2>2. PICK n \in Live(j.log[t].tags) :
          x = <<t + n, j.log[t].tags[n]>> /\ t \in Nat /\ n \in Nat \ {0}
    BY <2>1
  <2>3. x[1] = t + n BY <2>2
  <2>4. t < Len(j.log) + 1 BY DEF Transactions, Scanned, WellFormed
  <2> QED BY <2>3, <2>4 DEF RecordAt
<1>2. ASSUME NEW x \in LiveTags(j), Final(j, x) PROVE LatestBefore(j, x, b.at)
  BY <1>1, <1>2 DEF Final, LatestBefore
<1>3. CaughtUp(j, b.s.w, b.at) BY DEF AccOK
<1> QED BY <1>2, <1>3 DEF CaughtUp, Replayed

\* No commit record: nothing to write.
LEMMA NothingToReplay ==
  ASSUME NEW j, WellFormed(j), Committed(j) = {} PROVE LiveTags(j) = {}
  BY DEF WellFormed, LiveTags, Transactions

LEMMA NoWritesCaughtUp ==
  ASSUME NEW j, WellFormed(j), NEW w, w = <<>>
  PROVE  CaughtUp(j, w, 0) /\ (Committed(j) = {} => Replayed(j, w))
<1>1. w \in Seq(Logged(j)) OBVIOUS
<1>2. \A x \in LiveTags(j) : x[1] \in Nat BY LiveTagOf
<1>3. CaughtUp(j, w, 0) BY <1>1, <1>2 DEF CaughtUp, LatestBefore
<1>4. Committed(j) = {} => Replayed(j, w) BY <1>1, NothingToReplay DEF Replayed
<1> QED BY <1>3, <1>4

(***************************************************************************)
(* The journal's superblock: resetting it leaves the log as it is.           *)
(***************************************************************************)

JournalFields == {"order", "first", "start", "sequence", "log"}

SameLog(j, k) == DOMAIN j = JournalFields /\ j.log = k.log /\ j.first = k.first

LEMMA SameCommits == ASSUME NEW j, NEW k, SameLog(j, k) PROVE Commits(j) = Commits(k)
<1>1. j.log = k.log /\ j.first = k.first BY DEF SameLog
<1> QED BY <1>1, Zenon DEF Commits

LEMMA SameCommitted == ASSUME NEW j, NEW k, SameLog(j, k) PROVE Committed(j) = Committed(k)
  BY SameCommits, Zenon DEF Committed

LEMMA SameRevoked == ASSUME NEW j, NEW k, SameLog(j, k) PROVE Revoked(j) = Revoked(k)
<1>1. j.log = k.log /\ j.first = k.first BY DEF SameLog
<1>2. Scanned(j) = Scanned(k) BY <1>1, Zenon DEF Scanned
<1> QED BY <1>1, <1>2, Zenon DEF Revoked

LEMMA SameTransactions == ASSUME NEW j, NEW k, SameLog(j, k) PROVE Transactions(j) = Transactions(k)
<1>1. j.log = k.log /\ j.first = k.first BY DEF SameLog
<1>2. Scanned(j) = Scanned(k) BY <1>1, Zenon DEF Scanned
<1>3. Commits(j) = Commits(k) BY SameCommits
<1> QED BY <1>1, <1>2, <1>3, Zenon DEF Transactions

LEMMA SameTags ==
  ASSUME NEW j, NEW k, SameLog(j, k)
  PROVE  LiveTags(j) = LiveTags(k) /\ \A x : LoggedContent(j, x) = LoggedContent(k, x)
<1>1. j.log = k.log BY DEF SameLog
<1>2. Transactions(j) = Transactions(k) BY SameTransactions
<1>3. LiveTags(j) = LiveTags(k)
  <2> DEFINE Of(log, T) == UNION {{<<i + n, log[i].tags[n]>> : n \in Live(log[i].tags)} : i \in T}
  <2>1. LiveTags(j) = Of(j.log, Transactions(j)) /\ LiveTags(k) = Of(k.log, Transactions(k))
    BY Zenon DEF LiveTags
  <2> HIDE DEF Of
  <2> QED BY <1>1, <1>2, <2>1, Zenon
<1>4. \A x : LoggedContent(j, x) = LoggedContent(k, x) BY <1>1, Zenon DEF LoggedContent
<1> QED BY <1>3, <1>4

LEMMA SameWellFormed == ASSUME NEW j, NEW k, SameLog(j, k), WellFormed(k) PROVE WellFormed(j)
<1>1. j.log = k.log /\ j.first = k.first BY DEF SameLog
<1>2. Transactions(j) = Transactions(k) BY SameTransactions
<1>3. Commits(j) = Commits(k) /\ Committed(j) = Committed(k) BY SameCommits, SameCommitted
<1> QED BY <1>1, <1>2, <1>3, Zenon DEF WellFormed

LEMMA SameReplayed ==
  ASSUME NEW j, NEW k, SameLog(j, k), NEW w, Replayed(j, w)
  PROVE  Replayed(k, w)
<1>1. Revoked(j) = Revoked(k) BY SameRevoked
<1>2. LiveTags(j) = LiveTags(k) /\ \A x : LoggedContent(j, x) = LoggedContent(k, x) BY SameTags
<1>3. \A x : WriteOf(j, x) = WriteOf(k, x) BY <1>2, Zenon DEF WriteOf
<1>4. Logged(j) = Logged(k)
  <2>1. {x \in LiveTags(j) : x[2].to \notin Revoked(j)} = {x \in LiveTags(k) : x[2].to \notin Revoked(k)}
    BY <1>1, <1>2
  <2>2. ASSUME NEW e \in Logged(j) PROVE e \in Logged(k) BY <1>3, <2>1 DEF Logged
  <2>3. ASSUME NEW e \in Logged(k) PROVE e \in Logged(j) BY <1>3, <2>1 DEF Logged
  <2> QED BY <2>2, <2>3
<1>5. \A x \in LiveTags(k) : Final(k, x) => Final(j, x) BY <1>1, <1>2 DEF Final
<1> QED BY <1>2, <1>3, <1>4, <1>5, Zenon DEF Replayed

\* The writes w are v, then the reset of journal j, then superblock sb.
DidReset(v, j, w, sb) ==
  \E k : /\ SameLog(k, j) /\ k.order = j.order /\ k.start = 0
         /\ w = Append(Append(v, <<JournalSuper, k>>), <<Super, sb>>)

SameCounts(m, k) == m.gd = k.gd /\ m.sb.blocks = k.sb.blocks /\ m.sb.inodes = k.sb.inodes

\* e4_journal_reset with its buffer: the log stays, RECOVER goes.
LEMMA ResetFacts ==
  ASSUME NEW s, Ready(s), NEW j, j = s.d[JournalSuper], DOMAIN j = JournalFields,
         NEW r, r = Reset(s, TRUE)
  PROVE  /\ IsState(r) /\ CanWrite(r)
         /\ r.m.sb.incompat = s.m.sb.incompat \ {"recover"}
         /\ r.m.sb.journal = s.m.sb.journal /\ SameCounts(r.m, s.m)
         /\ DidReset(s.w, j, r.w, r.m.sb)
<1> DEFINE last == Max(ToSet(Commits(j)) \cup {0})
<1> DEFINE k == [j EXCEPT !.start = 0, !.sequence = last + 1]
<1> DEFINE s1 == WriteBlock(s, JournalSuper, k)
<1> DEFINE s2 == [s1 EXCEPT !.m.sb.incompat = @ \ {"recover"}]
<1>1. r = SyncSuperblock(s2) BY Zenon DEF Reset
<1>2. SameLog(k, j) /\ k.order = j.order /\ k.start = 0
  <2> HIDE DEF last
  <2> QED BY DEF SameLog, JournalFields
<1> HIDE DEF k
<1>3. IsState(s1) /\ s1.m = s.m /\ s1.w = Append(s.w, <<JournalSuper, k>>)
  BY WriteBlockFacts DEF Ready
<1> HIDE DEF s1
<1>4. /\ DOMAIN s2 = DOMAIN s1 /\ s2.w = s1.w
      /\ s2.m = [s1.m EXCEPT !.sb.incompat = @ \ {"recover"}]
  BY <1>3 DEF IsState
<1>5. /\ DOMAIN s2.m = DOMAIN s1.m /\ s2.m.dev = s1.m.dev /\ s2.m.writable = s1.m.writable
      /\ s2.m.gd = s1.m.gd
      /\ s2.m.sb = [s1.m.sb EXCEPT !.incompat = @ \ {"recover"}]
  BY <1>3, <1>4 DEF IsState
<1>6. /\ DOMAIN s2.m.sb = DOMAIN s1.m.sb /\ s2.m.sb.incompat = s1.m.sb.incompat \ {"recover"}
      /\ s2.m.sb.journal = s1.m.sb.journal
      /\ s2.m.sb.blocks = s1.m.sb.blocks /\ s2.m.sb.inodes = s1.m.sb.inodes
  BY <1>3, <1>5 DEF IsState, NoSuper
<1> HIDE DEF s2
<1>7. IsState(s2) BY <1>3, <1>4, <1>5, <1>6 DEF IsState
<1>8. CanWrite(s2) /\ HasDevice(s2) BY <1>3, <1>5 DEF CanWrite, Ready, HasDevice
<1>9. IsState(r) /\ r.m = s2.m /\ r.w = Append(s2.w, <<Super, s2.m.sb>>)
  BY <1>1, <1>7, <1>8, SyncSuperblockFacts
<1>10. CanWrite(r) BY <1>8, <1>9 DEF CanWrite
<1>11. r.w = Append(Append(s.w, <<JournalSuper, k>>), <<Super, r.m.sb>>) BY <1>3, <1>4, <1>9
<1>12. DidReset(s.w, j, r.w, r.m.sb) BY <1>2, <1>11, Zenon DEF DidReset
<1>13. r.m.sb.incompat = s.m.sb.incompat \ {"recover"} /\ r.m.sb.journal = s.m.sb.journal
  BY <1>3, <1>6, <1>9
<1>14. SameCounts(r.m, s.m) BY <1>3, <1>5, <1>6, <1>9 DEF SameCounts
<1> QED BY <1>9, <1>10, <1>12, <1>13, <1>14, Zenon

\* The pass over the log, from a state that has written nothing.
Pass(s, j) ==
  Folded("record", [s |-> s, j |-> j, at |-> 0, stop |-> FALSE],
         [k \in 1 .. Cardinality(Scanned(j)) |-> j.first + k - 1])

LEMMA PassFacts ==
  ASSUME NEW s, Ready(s), s.w = <<>>, NEW j, j = s.d[JournalSuper], WellFormed(j), ~Bogus(j),
         NEW t, t = IF Committed(j) = {} THEN s ELSE Pass(s, j).s
  PROVE  Ready(t) /\ t.m = s.m /\ t.d[JournalSuper] = j /\ Replayed(j, t.w)
<1> DEFINE acc == [s |-> s, j |-> j, at |-> 0, stop |-> FALSE]
<1> DEFINE n == Cardinality(Scanned(j))
<1> DEFINE recs == [k \in 1 .. n |-> j.first + k - 1]
<1> DEFINE b == Folded("record", acc, recs)
<1>0. Pass(s, j) = b BY Zenon DEF Pass
<1>1. CASE Committed(j) = {}
  <2>1. t = s BY <1>1
  <2>2. Replayed(j, s.w) BY <1>1, NoWritesCaughtUp
  <2> QED BY <2>1, <2>2
<1>2. CASE Committed(j) # {}
  <2>1. AccOK(acc, j, s) /\ acc.at = 0
    <3>1. DOMAIN acc = {"s", "j", "at", "stop"} /\ acc.j = j /\ acc.s = s /\ acc.at = 0 OBVIOUS
    <3>2. CaughtUp(j, s.w, 0) BY NoWritesCaughtUp
    <3> QED BY <3>1, <3>2 DEF AccOK, Ready
  <2>2. AccOK(b, j, s) /\ RecordAt(b, j, Len(j.log) + 1)
    <3>1. /\ WellFormed(j) /\ ~Bogus(j) /\ Ready(s) /\ n = Cardinality(Scanned(j))
          /\ recs = [k \in 1 .. n |-> j.first + k - 1] /\ b = Folded("record", acc, recs)
      OBVIOUS
    <3> HIDE DEF acc, n, recs, b
    <3> QED BY ONLY <2>1, <3>1, RecordLoop, Zenon
  <2>4. t = b.s BY <1>0, <1>2
  <2> HIDE DEF b
  <2>3. Replayed(j, b.s.w) BY <2>2, LoopReplays
  <2>5. Ready(b.s) BY <2>2 DEF AccOK, Ready, CanWrite
  <2> QED BY <2>2, <2>3, <2>4, <2>5 DEF AccOK
<1> QED BY <1>1, <1>2

(***************************************************************************)
(* What ext4_mount writes, and what it leaves in memory.                     *)
(***************************************************************************)

StateFields == {"d", "m", "w", "in", "runs", "rc", "out"}

\* A disk with a superblock and a journal that can be followed.
Sane(d) ==
  /\ {Super, JournalSuper} \subseteq DOMAIN d
  /\ DOMAIN d[Super] = DOMAIN NoSuper
  /\ DOMAIN d[JournalSuper] = JournalFields /\ WellFormed(d[JournalSuper])

RecoverOn(sb) == "recover" \in sb.incompat

\* No replay, one whose reset failed, one that went through.
SyncOnly(d, w) == w = Append(<<>>, <<Super, d[Super]>>)
ReplayOnly(d, w) ==
  /\ RecoverOn(d[Super])
  /\ \E u : Replayed(d[JournalSuper], u) /\ w = Append(u, <<Super, d[Super]>>)
ReplayAndReset(d, w) ==
  /\ RecoverOn(d[Super])
  /\ \E u, v, sb :
       /\ Replayed(d[JournalSuper], u) /\ DidReset(u, d[JournalSuper], v, sb)
       /\ DOMAIN sb = DOMAIN NoSuper /\ ~RecoverOn(sb) /\ sb.journal = d[Super].journal
       /\ w = Append(v, <<Super, sb>>)

\* The state in which ext4_mount comes to the journal.
AtJournal(s) == Ready(s) /\ s.w = <<>> /\ Sane(s.d) /\ s.m.sb = s.d[Super]

\* What a mount whose replay returned as r has written, and its superblock in
\* memory; missed: the journal could not be replayed or reset.
Recovered(s, r, missed) ==
  /\ IsState(r) /\ CanWrite(r) /\ r.m.sb.journal = s.m.sb.journal /\ SameCounts(r.m, s.m)
  /\ RecoverOn(r.m.sb) => r.m.sb = s.m.sb /\ missed
  /\ \/ r.w = <<>> /\ r.m.sb = s.m.sb
     \/ RecoverOn(s.m.sb) /\ Replayed(s.d[JournalSuper], r.w) /\ r.m.sb = s.m.sb
     \/ RecoverOn(s.m.sb) /\ ~RecoverOn(r.m.sb) /\
        \E u : Replayed(s.d[JournalSuper], u) /\ DidReset(u, s.d[JournalSuper], r.w, r.m.sb)

Missed(s, fault) ==
  fault \in {"replay", "reset"} \/ Bogus(s.d[JournalSuper]) \/ ~s.m.sb.journal

LEMMA RecoverFacts ==
  ASSUME NEW s, AtJournal(s), NEW fault, NEW r, r = Recover(s, fault)
  PROVE  Recovered(s, r, Missed(s, fault))
<1> DEFINE j == s.d[JournalSuper]
<1>0. IsState(s) /\ CanWrite(s) /\ s.w = <<>> BY DEF AtJournal, Ready
<1>1. CASE ~RecoverOn(s.m.sb)
  <2>1. r = s BY <1>1 DEF Recover, RecoverOn
  <2> QED BY <1>0, <1>1, <2>1 DEF Recovered, SameCounts
<1>2. CASE RecoverOn(s.m.sb) /\ ~s.m.sb.journal
  <2>1. r = Done(s) BY <1>2 DEF Recover, RecoverOn, Replay
  <2>2. IsState(r) /\ r.m = s.m /\ r.w = s.w BY <1>0, <2>1, DoneFacts
  <2>3. CanWrite(r) /\ Missed(s, fault) BY <1>0, <1>2, <2>2 DEF CanWrite, Missed
  <2> QED BY <1>0, <2>2, <2>3 DEF Recovered, SameCounts
<1>3. CASE RecoverOn(s.m.sb) /\ s.m.sb.journal /\ (fault = "replay" \/ Bogus(j))
  <2>1. r = Fail(s) BY <1>3 DEF Recover, RecoverOn, Replay
  <2>2. IsState(r) /\ r.m = s.m /\ r.w = s.w BY <1>0, <2>1, DoneFacts
  <2>3. CanWrite(r) /\ Missed(s, fault) BY <1>0, <1>3, <2>2 DEF CanWrite, Missed
  <2> QED BY <1>0, <2>2, <2>3 DEF Recovered, SameCounts
<1>4. CASE RecoverOn(s.m.sb) /\ s.m.sb.journal /\ fault # "replay" /\ ~Bogus(j)
  <2> DEFINE acc == [s |-> s, j |-> j, at |-> 0, stop |-> FALSE]
  <2> DEFINE recs == [k \in 1 .. Cardinality(Scanned(j)) |-> j.first + k - 1]
  <2> DEFINE t == IF Committed(j) = {} THEN s ELSE Pass(s, j).s
  <2>1. r = Reset(t, fault # "reset")
    <3>1. FoldLeft(ApplyRecord, acc, recs) = Pass(s, j)
      <4>1. Pass(s, j) = Folded("record", acc, recs) BY Zenon DEF Pass
      <4> HIDE DEF acc, recs
      <4> QED BY <4>1, FoldLeftRecord, Zenon
    <3>2. Replay(s, fault # "replay", fault # "reset")
            = IF ~s.m.sb.journal THEN Done(s)
              ELSE IF ~(fault # "replay") \/ Bogus(j) THEN Fail(s)
              ELSE Reset(IF Committed(j) = {} THEN s ELSE FoldLeft(ApplyRecord, acc, recs).s,
                         fault # "reset")
      BY Zenon DEF Replay
    <3>3. r = Replay(s, fault # "replay", fault # "reset") BY <1>4 DEF Recover, RecoverOn
    <3>4. s.m.sb.journal /\ fault # "replay" /\ ~Bogus(j) BY <1>4
    <3> HIDE DEF j, acc, recs
    <3>5. Replay(s, fault # "replay", fault # "reset")
            = Reset(IF Committed(j) = {} THEN s ELSE FoldLeft(ApplyRecord, acc, recs).s, fault # "reset")
      BY ONLY <3>2, <3>4, Zenon
    <3>6. r = Reset(IF Committed(j) = {} THEN s ELSE Pass(s, j).s, fault # "reset")
      BY ONLY <3>1, <3>3, <3>5, Zenon
    <3> QED BY ONLY <3>6, Zenon
  <2>2. Ready(t) /\ t.m = s.m /\ t.d[JournalSuper] = j /\ Replayed(j, t.w)
    <3>1. /\ Ready(s) /\ s.w = <<>> /\ j = s.d[JournalSuper] /\ WellFormed(j) /\ ~Bogus(j)
          /\ t = IF Committed(j) = {} THEN s ELSE Pass(s, j).s
      BY <1>4 DEF AtJournal, Sane
    <3> HIDE DEF j, t
    <3> QED BY ONLY <3>1, PassFacts
  <2> HIDE DEF t
  <2>3. CASE fault = "reset"
    <3>1. r = t BY <2>1, <2>3 DEF Reset
    <3>2. Missed(s, fault) BY <2>3 DEF Missed
    <3> QED BY <1>4, <2>2, <3>1, <3>2 DEF Recovered, Ready, SameCounts
  <2>4. CASE fault # "reset"
    <3>1. r = Reset(t, TRUE) BY <2>1, <2>4, Zenon
    <3> DEFINE k == t.d[JournalSuper]
    <3>2. DOMAIN k = JournalFields BY <2>2 DEF AtJournal, Sane
    <3>3. /\ IsState(r) /\ CanWrite(r)
          /\ r.m.sb.incompat = t.m.sb.incompat \ {"recover"}
          /\ r.m.sb.journal = t.m.sb.journal /\ SameCounts(r.m, t.m)
          /\ DidReset(t.w, k, r.w, r.m.sb)
      <4>1. k = t.d[JournalSuper] /\ Ready(t) BY <2>2
      <4> HIDE DEF k
      <4> QED BY ONLY <3>1, <3>2, <4>1, ResetFacts
    <3>4. ~RecoverOn(r.m.sb) BY <3>3 DEF RecoverOn
    <3>5. DidReset(t.w, j, r.w, r.m.sb) BY <2>2, <3>3
    <3> QED BY <1>4, <2>2, <3>3, <3>4, <3>5 DEF Recovered
  <2> QED BY <2>3, <2>4
<1> QED BY <1>1, <1>2, <1>3, <1>4

MountWrites(d, w) == SyncOnly(d, w) \/ ReplayOnly(d, w) \/ ReplayAndReset(d, w)

\* The superblock in memory is the last thing written.
SyncedLast(r) == \E v : IsSeq(v) /\ r.w = Append(v, <<Super, r.m.sb>>)

\* A mount that got as far as the journal.
MountedAs(d, fault, r) ==
  /\ MountWrites(d, r.w) /\ SyncedLast(r) /\ IsState(r) /\ CanWrite(r)
  /\ SameCounts(r.m, [gd |-> [g \in Groups |-> d[Desc(g)]], sb |-> d[Super]])
  /\ r.m.sb.journal = d[Super].journal
  /\ RecoverOn(r.m.sb) =>
       fault \in {"replay", "reset"} \/ Bogus(d[JournalSuper]) \/ ~d[Super].journal

LEMMA RecoveredMounts ==
  ASSUME NEW s, AtJournal(s), NEW fault, NEW t, Recovered(s, t, Missed(s, fault)),
         s.m.gd = [g \in Groups |-> s.d[Desc(g)]], NEW r, r = SyncSuperblock(t)
  PROVE  MountedAs(s.d, fault, r)
<1>1. IsState(t) /\ HasDevice(t) BY DEF Recovered, CanWrite, HasDevice
<1>2. IsState(r) /\ r.m = t.m /\ r.w = Append(t.w, <<Super, t.m.sb>>)
  BY <1>1, SyncSuperblockFacts
<1>3. SyncedLast(r)
  <2>1. IsSeq(t.w) BY <1>1 DEF IsState
  <2>2. r.w = Append(t.w, <<Super, r.m.sb>>) BY <1>2
  <2> QED BY <2>1, <2>2, Zenon DEF SyncedLast
<1>4. s.m.sb = s.d[Super] BY DEF AtJournal
<1>5. r.m.sb.journal = s.d[Super].journal BY <1>2, <1>4 DEF Recovered
<1>6. RecoverOn(r.m.sb) =>
        fault \in {"replay", "reset"} \/ Bogus(s.d[JournalSuper]) \/ ~s.d[Super].journal
  <2>1. RecoverOn(r.m.sb) => Missed(s, fault) BY <1>2, Zenon DEF Recovered
  <2> QED BY <1>4, <2>1 DEF Missed
<1>7. MountWrites(s.d, r.w)
  <2>1. CASE t.w = <<>> /\ t.m.sb = s.m.sb
    <3>1. r.w = Append(<<>>, <<Super, s.d[Super]>>) BY <1>2, <1>4, <2>1
    <3> QED BY <3>1, Zenon DEF MountWrites, SyncOnly
  <2>2. CASE RecoverOn(s.m.sb) /\ Replayed(s.d[JournalSuper], t.w) /\ t.m.sb = s.m.sb
    <3>1. r.w = Append(t.w, <<Super, s.d[Super]>>) BY <1>2, <1>4, <2>2
    <3>2. RecoverOn(s.d[Super]) BY <1>4, <2>2
    <3> QED BY <2>2, <3>1, <3>2, Zenon DEF MountWrites, ReplayOnly
  <2>3. CASE RecoverOn(s.m.sb) /\ ~RecoverOn(t.m.sb) /\
             \E u : Replayed(s.d[JournalSuper], u) /\ DidReset(u, s.d[JournalSuper], t.w, t.m.sb)
    <3>1. RecoverOn(s.d[Super]) BY <1>4, <2>3
    <3>2. PICK u : Replayed(s.d[JournalSuper], u) /\ DidReset(u, s.d[JournalSuper], t.w, t.m.sb)
      BY <2>3
    <3>3. DOMAIN t.m.sb = DOMAIN NoSuper /\ t.m.sb.journal = s.d[Super].journal
      BY <1>1, <1>2, <1>5 DEF IsState
    <3>4. ReplayAndReset(s.d, r.w) BY ONLY <1>2, <2>3, <3>1, <3>2, <3>3, Zenon DEF ReplayAndReset
    <3> QED BY <3>4 DEF MountWrites
  <2> QED BY <2>1, <2>2, <2>3, Zenon DEF Recovered
<1>8. SameCounts(r.m, [gd |-> [g \in Groups |-> s.d[Desc(g)]], sb |-> s.d[Super]])
  BY <1>2, <1>4 DEF SameCounts, Recovered
<1>9. CanWrite(r) BY <1>2 DEF Recovered, CanWrite
<1> QED BY <1>2, <1>3, <1>5, <1>6, <1>7, <1>8, <1>9 DEF MountedAs

LEMMA MountFacts ==
  ASSUME NEW s, DOMAIN s = StateFields, s.w = <<>>, Sane(s.d), NEW fault,
         NEW r, r = Ext4Mount(s, fault)
  PROVE  \/ HasDevice(s) /\ r.m = s.m /\ r.w = <<>>
         \/ r.m = Unmounted /\ r.w = <<>>
         \/ MountedAs(s.d, fault, r)
<1> DEFINE bound == "bind" \in Fixes
<1> DEFINE m1 == [Unmounted EXCEPT !.sb = s.d[Super], !.dev = bound, !.writable = bound]
<1> DEFINE s1 == [s EXCEPT !.m = m1]
<1> DEFINE s2 == LoadGdt(s1)
<1>1. CASE HasDevice(s)
  <2>1. r = Done(s) BY <1>1 DEF Ext4Mount, HasDevice
  <2>2. r.m = s.m /\ r.w = s.w BY <2>1 DEF Done, StateFields
  <2> QED BY <1>1, <2>2
<1>2. CASE r = Refuse(s)
  <2>1. r.m = Unmounted /\ r.w = s.w BY <1>2 DEF Refuse, Fail, StateFields
  <2> QED BY <2>1
<1>3. CASE ~HasDevice(s) /\ r # Refuse(s)
  <2>1. r = SyncSuperblock(Recover(s2, fault)) /\ s2.rc = 0
    BY <1>3, Zenon DEF Ext4Mount, HasDevice
  <2>2. DOMAIN m1 = {"dev", "writable", "sb", "gd"} /\ m1.sb = s.d[Super] BY DEF Unmounted
  <2>3. m1.dev = bound /\ m1.writable = bound BY DEF Unmounted
  <2> HIDE DEF m1
  <2>4. DOMAIN s1 = StateFields /\ s1.m = m1 /\ s1.w = <<>> /\ s1.d = s.d BY DEF StateFields
  <2> HIDE DEF s1
  <2>5. HasDevice(s1)
    <3> SUFFICES ASSUME ~HasDevice(s1) PROVE FALSE OBVIOUS
    <3>1. s2 = Fail(s1) BY DEF LoadGdt, HasDevice
    <3>2. s2.rc = -1 BY <2>4, <3>1 DEF Fail, StateFields
    <3> QED BY <2>1, <3>2
  <2>6. CanWrite(s1)
    <3>1. bound = TRUE BY <2>3, <2>4, <2>5, Zenon DEF HasDevice
    <3> QED BY <2>3, <2>4, <3>1 DEF CanWrite
  <2> DEFINE gd == [g \in Groups |-> s1.d[Desc(g)]]
  <2>16. gd = [g \in Groups |-> s.d[Desc(g)]] BY <2>4
  <2>7. s2 = Done([s1 EXCEPT !.m.gd = gd]) BY <2>5 DEF LoadGdt, HasDevice
  <2> HIDE DEF gd
  <2> DEFINE s3 == [s1 EXCEPT !.m.gd = gd]
  <2>8. DOMAIN s3 = StateFields /\ s3.m = [m1 EXCEPT !.gd = gd] /\ s3.w = <<>> /\ s3.d = s.d
    BY <2>4 DEF StateFields
  <2> HIDE DEF s3
  <2>9. DOMAIN s3.m = DOMAIN m1 /\ s3.m.dev = m1.dev /\ s3.m.writable = m1.writable /\ s3.m.sb = m1.sb
        /\ s3.m.gd = gd
    BY <2>2, <2>8
  <2>10. IsState(s3)
    <3>1. DOMAIN m1.sb = DOMAIN NoSuper BY <2>2 DEF Sane
    <3>2. IsSeq(s3.w) BY <2>8, EmptySeqFacts
    <3> QED BY <2>2, <2>8, <2>9, <3>1, <3>2 DEF IsState, StateFields
  <2>11. IsState(s2) /\ s2.m = s3.m /\ s2.w = <<>> /\ s2.d = s.d
    <3>1. s2 = Done(s3) BY <2>7 DEF s3
    <3> HIDE DEF s2
    <3> QED BY <2>8, <2>10, <3>1, DoneFacts
  <2>12. CanWrite(s2)
    <3>1. s2.m.dev = s1.m.dev /\ s2.m.writable = s1.m.writable BY <2>4, <2>9, <2>11
    <3> QED BY <2>6, <3>1 DEF CanWrite
  <2> HIDE DEF s2
  <2>13. AtJournal(s2) BY <2>2, <2>9, <2>11, <2>12 DEF AtJournal, Ready, Sane
  <2> DEFINE t == Recover(s2, fault)
  <2>14. Recovered(s2, t, Missed(s2, fault)) BY <2>13, RecoverFacts
  <2>15. MountedAs(s2.d, fault, r)
    <3>1. r = SyncSuperblock(t) BY <2>1
    <3> HIDE DEF t
    <3>2. s2.m.gd = [g \in Groups |-> s2.d[Desc(g)]] BY <2>9, <2>11, <2>16
    <3> QED BY <2>13, <2>14, <3>1, <3>2, RecoveredMounts
  <2> QED BY <2>11, <2>15
<1> QED BY <1>1, <1>2, <1>3

(***************************************************************************)
(* The invariant of the recovery: v is the disk the machine was started      *)
(* with, d the disk now and w the writes of the running mount.               *)
(***************************************************************************)

\* The tags for address a that the driver comes to.
LiveFor(j, a) == {x \in LiveTags(j) : x[2].to = a /\ a \notin Revoked(j)}

\* What they leave there, for a start from v.
Outcome(v, a) ==
  LET xs == LiveFor(v[JournalSuper], a)
  IN  IF xs = {} THEN v[a]
      ELSE LoggedContent(v[JournalSuper], CHOOSE x \in xs : \A y \in xs : y[1] <= x[1])

BlockSound(v, d, a) ==
  \/ d[a] = v[a]
  \/ \E x \in LiveFor(v[JournalSuper], a) : d[a] = LoggedContent(v[JournalSuper], x)

DiskSound(v, d) ==
  /\ DOMAIN d = Addresses /\ DOMAIN d[Super] = DOMAIN NoSuper
  /\ SameLog(d[JournalSuper], v[JournalSuper])
  /\ \A a \in Homes : BlockSound(v, d, a)
  /\ ~RecoverOn(d[Super]) => \A a \in Homes : d[a] = Outcome(v, a)

\* The writes w leave c in block a.
Leaves(d, w, a, c) ==
  \/ LastIs(w, <<a, c>>)
  \/ d[a] = c /\ \A k \in 1 .. Len(w) : w[k][1] # a

SuperWrite(e) == e[1] = Super /\ DOMAIN e[2] = DOMAIN NoSuper
JournalWrite(v, e) == e[1] = JournalSuper /\ SameLog(e[2], v[JournalSuper])
Meta(v, e) == SuperWrite(e) \/ JournalWrite(v, e)

\* Before a superblock without RECOVER is written, all blocks are.
QueueSound(v, d, w) ==
  /\ IsSeq(w)
  /\ \A n \in 1 .. Len(w) : Meta(v, w[n]) \/ w[n] \in Logged(v[JournalSuper])
  /\ ~RecoverOn(d[Super]) => \A n \in 1 .. Len(w) : Meta(v, w[n])
  /\ \A n \in 1 .. Len(w) : SuperWrite(w[n]) /\ ~RecoverOn(w[n][2]) =>
       /\ \A k \in n + 1 .. Len(w) : Meta(v, w[k])
       /\ \A a \in Homes : Leaves(d, w, a, Outcome(v, a))

LEMMA LatestExists ==
  ASSUME NEW j, WellFormed(j), NEW a, LiveFor(j, a) # {}
  PROVE  \E x \in LiveFor(j, a) : \A y \in LiveFor(j, a) : y[1] <= x[1]
<1> DEFINE xs == LiveFor(j, a)
<1> DEFINE P == {x[1] : x \in xs}
<1>1. \A x \in xs : x[1] \in 1 .. Len(j.log)
  <2>1. ASSUME NEW x \in xs PROVE x[1] \in 1 .. Len(j.log)
    <3>1. x \in LiveTags(j) BY DEF LiveFor
    <3>2. PICK i \in Transactions(j) : \E n \in Live(j.log[i].tags) :
           /\ x = <<i + n, j.log[i].tags[n]>> /\ i \in Nat /\ n \in Nat \ {0}
           /\ i + n <= Len(j.log) /\ x[1] \in Nat
      BY <3>1, LiveTagOf
    <3>3. PICK n \in Live(j.log[i].tags) :
           /\ x = <<i + n, j.log[i].tags[n]>> /\ i \in Nat /\ n \in Nat \ {0}
           /\ i + n <= Len(j.log) /\ x[1] \in Nat
      BY <3>2
    <3>4. Len(j.log) \in Nat BY DEF WellFormed
    <3> QED BY <3>3, <3>4
  <2> QED BY <2>1
<1>2. P \in SUBSET (1 .. Len(j.log)) /\ P # {} BY <1>1
<1>3. Len(j.log) \in Nat BY DEF WellFormed
<1>4. Max(P) \in P /\ \A y \in P : Max(P) >= y
  <2> HIDE DEF P
  <2> QED BY <1>2, <1>3, LastPosition
<1>5. PICK x \in xs : x[1] = Max(P) BY <1>4
<1>6. \A y \in xs : y[1] \in P BY DEF P
<1>7. \A y \in xs : y[1] <= x[1]
  <2>1. x[1] \in 1 .. Len(j.log) BY <1>1
  <2> HIDE DEF P
  <2> QED BY <1>1, <1>3, <1>4, <1>5, <1>6, <2>1
<1> QED BY <1>7

\* A whole replay leaves in each block what it should.
LEMMA ReplayLeaves ==
  ASSUME NEW v, WellFormed(v[JournalSuper]), NEW w, Replayed(v[JournalSuper], w),
         NEW d, NEW a, BlockSound(v, d, a)
  PROVE  Leaves(d, w, a, Outcome(v, a))
<1> DEFINE j == v[JournalSuper]
<1> DEFINE xs == LiveFor(j, a)
<1>0. w \in Seq(Logged(j)) BY DEF Replayed
<1>1. CASE xs = {}
  <2>1. d[a] = v[a] BY <1>1 DEF BlockSound
  <2>2. Outcome(v, a) = v[a] BY <1>1 DEF Outcome
  <2>3. ASSUME NEW k \in 1 .. Len(w), w[k][1] = a PROVE FALSE
    <3>1. w[k] \in Logged(j) BY <1>0
    <3>2. PICK x \in LiveTags(j) : x[2].to \notin Revoked(j) /\ w[k] = WriteOf(j, x)
      BY <3>1 DEF Logged
    <3>3. x[2].to = a BY <2>3, <3>2 DEF WriteOf
    <3> QED BY <1>1, <3>2, <3>3 DEF LiveFor
  <2> QED BY <2>1, <2>2, <2>3 DEF Leaves
<1>2. CASE xs # {}
  <2> DEFINE x == CHOOSE x \in xs : \A y \in xs : y[1] <= x[1]
  <2>1. x \in xs /\ \A y \in xs : y[1] <= x[1] BY <1>2, LatestExists
  <2>2. Outcome(v, a) = LoggedContent(j, x) BY <1>2, Zenon DEF Outcome
  <2> HIDE DEF x
  <2>3. x \in LiveTags(j) /\ x[2].to = a /\ Final(j, x) BY <2>1 DEF LiveFor, Final
  <2>4. LastIs(w, WriteOf(j, x)) BY <2>3 DEF Replayed
  <2>5. WriteOf(j, x) = <<a, Outcome(v, a)>> BY <2>2, <2>3 DEF WriteOf
  <2> QED BY <2>4, <2>5 DEF Leaves
<1> QED BY <1>1, <1>2

\* Writes that are not to blocks add nothing.
LEMMA LeavesAppend ==
  ASSUME NEW d, NEW w, IsSeq(w), NEW a, NEW c, Leaves(d, w, a, c), NEW e, e[1] # a
  PROVE  Leaves(d, Append(w, e), a, c)
<1> DEFINE u == Append(w, e)
<1>1. /\ IsSeq(u) /\ Len(u) = Len(w) + 1 /\ u[Len(w) + 1] = e /\ Len(w) \in Nat
      /\ \A n \in 1 .. Len(w) : u[n] = w[n]
  BY AppendFacts, SeqFacts
<1> HIDE DEF u
<1>2. CASE LastIs(w, <<a, c>>)
  <2> DEFINE f == <<a, c>>
  <2>1. f[1] = a /\ LastIs(w, f) BY <1>2
  <2> HIDE DEF f
  <2>2. PICK m \in 1 .. Len(w) : w[m] = f /\ \A k \in m + 1 .. Len(w) : w[k][1] # f[1]
    BY <2>1 DEF LastIs
  <2>3. m \in 1 .. Len(u) /\ u[m] = f BY <1>1, <2>2
  <2>4. ASSUME NEW k \in m + 1 .. Len(u) PROVE u[k][1] # f[1]
    <3>1. CASE k = Len(w) + 1 BY <3>1, <1>1, <2>1
    <3>2. CASE k # Len(w) + 1
      <4>1. k \in m + 1 .. Len(w) /\ k \in 1 .. Len(w) BY <1>1, <3>2
      <4> QED BY <4>1, <1>1, <2>2
    <3> QED BY <3>1, <3>2
  <2>5. LastIs(u, f) BY <2>3, <2>4 DEF LastIs
  <2> QED BY <2>5 DEF Leaves, f, u
<1>3. CASE d[a] = c /\ \A k \in 1 .. Len(w) : w[k][1] # a
  <2>1. ASSUME NEW k \in 1 .. Len(u) PROVE u[k][1] # a
    <3>1. CASE k = Len(w) + 1 BY <3>1, <1>1
    <3>2. CASE k # Len(w) + 1
      <4>1. k \in 1 .. Len(w) BY <1>1, <3>2
      <4> QED BY <4>1, <1>1, <1>3
    <3> QED BY <3>1, <3>2
  <2> QED BY <1>3, <2>1 DEF Leaves, u
<1> QED BY <1>2, <1>3 DEF Leaves

AllLeft(v, d, w) == \A a \in Homes : Leaves(d, w, a, Outcome(v, a))

LEMMA MetaAppend ==
  ASSUME NEW v, NEW d, NEW w, QueueSound(v, d, w), AllLeft(v, d, w), NEW e, Meta(v, e)
  PROVE  QueueSound(v, d, Append(w, e)) /\ AllLeft(v, d, Append(w, e))
<1> DEFINE u == Append(w, e)
<1>0. IsSeq(w) BY DEF QueueSound
<1>1. /\ IsSeq(u) /\ Len(u) = Len(w) + 1 /\ u[Len(w) + 1] = e /\ Len(w) \in Nat
      /\ \A n \in 1 .. Len(w) : u[n] = w[n]
  BY <1>0, AppendFacts, SeqFacts
<1>2. AllLeft(v, d, u)
  <2>1. \A a \in Homes : e[1] # a BY DEF Meta, SuperWrite, JournalWrite, Homes
  <2> QED BY <1>0, <2>1, LeavesAppend DEF AllLeft
<1> HIDE DEF u
<1>3. \A n \in 1 .. Len(u) : n \in 1 .. Len(w) \/ n = Len(w) + 1 BY <1>1
<1>4. \A n \in 1 .. Len(u) : Meta(v, u[n]) \/ u[n] \in Logged(v[JournalSuper])
  BY <1>1, <1>3 DEF QueueSound
<1>5. ~RecoverOn(d[Super]) => \A n \in 1 .. Len(u) : Meta(v, u[n]) BY <1>1, <1>3 DEF QueueSound
<1>6. ASSUME NEW n \in 1 .. Len(u), SuperWrite(u[n]), ~RecoverOn(u[n][2]), NEW k \in n + 1 .. Len(u)
      PROVE  Meta(v, u[k])
  <2>1. n \in 1 .. Len(w) /\ u[n] = w[n] BY <1>1, <1>3
  <2>2. CASE k = Len(w) + 1 BY <1>1, <2>2
  <2>3. CASE k # Len(w) + 1
    <3>1. k \in n + 1 .. Len(w) /\ u[k] = w[k] BY <1>1, <2>3
    <3> QED BY <1>6, <2>1, <3>1 DEF QueueSound
  <2> QED BY <2>2, <2>3
<1>7. QueueSound(v, d, u) BY <1>1, <1>2, <1>4, <1>5, <1>6 DEF QueueSound, AllLeft
<1> QED BY <1>2, <1>7 DEF u

\* A superblock in the log has RECOVER on, as the volume has.
LEMMA LoggedWrites ==
  ASSUME NEW v \in Volumes, RecoverOn(v[Super]), NEW e \in Logged(v[JournalSuper])
  PROVE  e[1] \in Homes \/ (SuperWrite(e) /\ RecoverOn(e[2]))
<1> DEFINE j == v[JournalSuper]
<1>1. PICK x \in LiveTags(j) : e = WriteOf(j, x) BY DEF Logged
<1>2. e[1] = x[2].to /\ e[2] = LoggedContent(j, x) BY <1>1 DEF WriteOf
<1>3. WellFormed(j) /\ Loggable(v, x[2].to, LoggedContent(j, x)) BY VolumeAssumption
<1>4. x[2].to \in Addresses /\ x[2].to # JournalSuper BY <1>3, LiveTagOf
<1>5. CASE e[1] = Super
  <2>1. DOMAIN e[2] = DOMAIN NoSuper /\ \A f \in DOMAIN NoSuper \ {"blocks", "inodes"} : e[2][f] = v[Super][f]
    BY <1>2, <1>3, <1>5 DEF Loggable
  <2>2. "incompat" \in DOMAIN NoSuper \ {"blocks", "inodes"} BY DEF NoSuper
  <2> QED BY <1>5, <2>1, <2>2 DEF SuperWrite, RecoverOn
<1>6. CASE e[1] # Super BY <1>2, <1>4, <1>6 DEF Homes
<1> QED BY <1>5, <1>6

LEMMA ReplayQueue ==
  ASSUME NEW v \in Volumes, RecoverOn(v[Super]), WellFormed(v[JournalSuper]), NEW d, DiskSound(v, d), RecoverOn(d[Super]),
         NEW w, Replayed(v[JournalSuper], w)
  PROVE  QueueSound(v, d, w) /\ AllLeft(v, d, w)
<1>1. w \in Seq(Logged(v[JournalSuper])) BY DEF Replayed
<1>2. IsSeq(w) /\ Len(w) \in Nat /\ \A n \in 1 .. Len(w) : w[n] \in Logged(v[JournalSuper])
  BY <1>1 DEF IsSeq
<1>3. \A n \in 1 .. Len(w) : SuperWrite(w[n]) => RecoverOn(w[n][2])
  <2>1. ASSUME NEW e \in Logged(v[JournalSuper]) PROVE SuperWrite(e) => RecoverOn(e[2])
    BY LoggedWrites DEF SuperWrite, Homes
  <2> QED BY <1>2, <2>1
<1>4. AllLeft(v, d, w) BY ReplayLeaves DEF AllLeft, DiskSound
<1> QED BY <1>2, <1>3, <1>4 DEF QueueSound

LEMMA SyncQueue ==
  ASSUME NEW v, NEW d, DiskSound(v, d), NEW w, SyncOnly(d, w)
  PROVE  QueueSound(v, d, w)
<1> DEFINE e == <<Super, d[Super]>>
<1> DEFINE u == <<>>
<1>1. e[1] = Super /\ e[2] = d[Super] /\ SuperWrite(e) /\ Meta(v, e)
  BY DEF SuperWrite, DiskSound, Meta
<1>2. w = Append(u, e) BY DEF SyncOnly
<1>3. IsSeq(u) /\ Len(u) = 0 BY EmptySeqFacts
<1> HIDE DEF e, u
<1>4. QueueSound(v, d, u) BY <1>3 DEF QueueSound
<1>5. CASE ~RecoverOn(d[Super])
  <2>1. AllLeft(v, d, u) BY <1>3, <1>5 DEF AllLeft, Leaves, DiskSound
  <2> QED BY <1>1, <1>2, <1>4, <2>1, MetaAppend
<1>6. CASE RecoverOn(d[Super])
  <2>1. IsSeq(w) /\ Len(w) = 1 /\ w[1] = e
    <3>1. IsSeq(w) /\ Len(w) = Len(u) + 1 /\ w[Len(u) + 1] = e BY <1>2, <1>3, AppendFacts
    <3> QED BY <1>3, <3>1
  <2>2. \A n \in 1 .. Len(w) : w[n] = e BY <2>1
  <2> QED BY <1>1, <1>6, <2>1, <2>2 DEF QueueSound
<1> QED BY <1>5, <1>6

LEMMA MountQueue ==
  ASSUME NEW v \in Volumes, RecoverOn(v[Super]), WellFormed(v[JournalSuper]), NEW d, DiskSound(v, d), NEW w, MountWrites(d, w)
  PROVE  QueueSound(v, d, w)
<1>0. SameLog(d[JournalSuper], v[JournalSuper]) /\ DOMAIN d[Super] = DOMAIN NoSuper BY DEF DiskSound
<1>1. CASE SyncOnly(d, w) BY <1>1, SyncQueue
<1>2. CASE ReplayOnly(d, w)
  <2> DEFINE e == <<Super, d[Super]>>
  <2>1. PICK u : Replayed(d[JournalSuper], u) /\ w = Append(u, e) BY <1>2 DEF ReplayOnly
  <2>2. RecoverOn(d[Super]) BY <1>2 DEF ReplayOnly
  <2>3. Replayed(v[JournalSuper], u) BY <1>0, <2>1, SameReplayed
  <2>4. QueueSound(v, d, u) /\ AllLeft(v, d, u) BY <2>2, <2>3, ReplayQueue
  <2>5. Meta(v, e) BY <1>0 DEF Meta, SuperWrite
  <2> HIDE DEF e
  <2> QED BY <2>1, <2>4, <2>5, MetaAppend
<1>3. CASE ReplayAndReset(d, w)
  <2>0. RecoverOn(d[Super]) BY <1>3 DEF ReplayAndReset
  <2>1. PICK u, x, sb : /\ Replayed(d[JournalSuper], u) /\ DidReset(u, d[JournalSuper], x, sb)
                        /\ DOMAIN sb = DOMAIN NoSuper /\ w = Append(x, <<Super, sb>>)
    BY <1>3 DEF ReplayAndReset
  <2> DEFINE e == <<Super, sb>>
  <2>2. PICK k : SameLog(k, d[JournalSuper]) /\ x = Append(Append(u, <<JournalSuper, k>>), e)
    BY <2>1 DEF DidReset
  <2> DEFINE f == <<JournalSuper, k>>
  <2> DEFINE u1 == Append(u, f)
  <2>3. x = Append(u1, e) /\ w = Append(x, e) BY <2>1, <2>2
  <2>4. Replayed(v[JournalSuper], u) BY <1>0, <2>1, SameReplayed
  <2>5. QueueSound(v, d, u) /\ AllLeft(v, d, u) BY <2>0, <2>4, ReplayQueue
  <2>6. Meta(v, e) BY <2>1 DEF Meta, SuperWrite
  <2>7. Meta(v, f) BY <1>0, <2>2 DEF Meta, JournalWrite, SameLog
  <2> HIDE DEF e, f
  <2>8. QueueSound(v, d, u1) /\ AllLeft(v, d, u1) BY <2>5, <2>7, MetaAppend
  <2> HIDE DEF u1
  <2>9. QueueSound(v, d, x) /\ AllLeft(v, d, x) BY <2>3, <2>6, <2>8, MetaAppend
  <2> QED BY <2>3, <2>6, <2>9, MetaAppend
<1> QED BY <1>1, <1>2, <1>3 DEF MountWrites

\* The first write reaches the disk.
LEMMA LeavesShift ==
  ASSUME NEW d, NEW w, IsSeq(w), w # <<>>, NEW e, Stored(d, e, w[1][1], w[1][2]),
         NEW a, NEW c, a \in DOMAIN d, Leaves(d, w, a, c)
  PROVE  Leaves(e, Tail(w), a, c)
<1> DEFINE u == Tail(w)
<1> DEFINE f == <<a, c>>
<1>1. /\ IsSeq(u) /\ Len(u) = Len(w) - 1 /\ Len(w) \in Nat \ {0}
      /\ \A n \in 1 .. Len(w) - 1 : u[n] = w[n + 1]
  BY TailFacts
<1>2. f[1] = a /\ f[2] = c OBVIOUS
<1>3. e[a] = IF a = w[1][1] THEN w[1][2] ELSE d[a] BY DEF Stored
<1> HIDE DEF u, f
<1>4. CASE LastIs(w, f)
  <2>1. PICK m \in 1 .. Len(w) : w[m] = f /\ \A k \in m + 1 .. Len(w) : w[k][1] # f[1]
    BY <1>4 DEF LastIs
  <2>2. CASE m = 1
    <3>1. e[a] = c BY <1>2, <1>3, <2>1, <2>2
    <3>2. ASSUME NEW k \in 1 .. Len(u) PROVE u[k][1] # a
      <4>1. k + 1 \in m + 1 .. Len(w) /\ u[k] = w[k + 1] BY <1>1, <2>2
      <4> QED BY <1>2, <2>1, <4>1
    <3> QED BY <3>1, <3>2 DEF Leaves, u
  <2>3. CASE m # 1
    <3>1. m - 1 \in 1 .. Len(u) /\ u[m - 1] = f
      <4>1. m - 1 \in 1 .. Len(w) - 1 /\ (m - 1) + 1 = m BY <1>1, <2>3
      <4> QED BY <1>1, <2>1, <4>1
    <3>2. ASSUME NEW k \in (m - 1) + 1 .. Len(u) PROVE u[k][1] # f[1]
      <4>1. k + 1 \in m + 1 .. Len(w) /\ k \in 1 .. Len(w) - 1 BY <1>1, <2>3
      <4>2. u[k] = w[k + 1] BY <1>1, <4>1
      <4> QED BY <2>1, <4>1, <4>2
    <3>3. LastIs(u, f) BY <3>1, <3>2 DEF LastIs
    <3> QED BY <3>3 DEF Leaves, u, f
  <2> QED BY <2>2, <2>3
<1>5. CASE d[a] = c /\ \A k \in 1 .. Len(w) : w[k][1] # a
  <2>1. e[a] = c BY <1>1, <1>3, <1>5
  <2>2. ASSUME NEW k \in 1 .. Len(u) PROVE u[k][1] # a
    <3>1. k + 1 \in 1 .. Len(w) /\ u[k] = w[k + 1] BY <1>1
    <3> QED BY <1>5, <3>1
  <2> QED BY <2>1, <2>2 DEF Leaves, u
<1> QED BY <1>4, <1>5 DEF Leaves, f

LEMMA Places ==
  {Super, JournalSuper} \subseteq Addresses /\ \A b \in Blocks : DataAt(b) \in Addresses
  BY DEF Addresses

LEMMA WriteOutSound ==
  ASSUME NEW v \in Volumes, RecoverOn(v[Super]), NEW d, DiskSound(v, d), NEW w, QueueSound(v, d, w), w # <<>>,
         NEW e, Stored(d, e, w[1][1], w[1][2])
  PROVE  DiskSound(v, e) /\ QueueSound(v, e, Tail(w))
<1> DEFINE u == Tail(w)
<1> DEFINE j == v[JournalSuper]
<1>0. IsSeq(w) BY DEF QueueSound
<1>1. /\ IsSeq(u) /\ Len(u) = Len(w) - 1 /\ Len(w) \in Nat \ {0} /\ 1 \in 1 .. Len(w)
      /\ \A n \in 1 .. Len(w) - 1 : u[n] = w[n + 1]
  BY <1>0, TailFacts
<1>2. DOMAIN e = DOMAIN d /\ \A x \in DOMAIN d : e[x] = IF x = w[1][1] THEN w[1][2] ELSE d[x]
  BY DEF Stored
<1>3. {Super, JournalSuper} \subseteq DOMAIN d /\ \A a \in Homes : a \in DOMAIN d
  BY Places DEF DiskSound, Homes
<1>4. Super # JournalSuper /\ \A a \in Homes : a # Super /\ a # JournalSuper
  BY DEF Super, JournalSuper, Homes
<1>5. ASSUME NEW a \in Homes, Leaves(d, w, a, Outcome(v, a)) PROVE Leaves(e, u, a, Outcome(v, a))
  <2> DEFINE c == Outcome(v, a)
  <2>1. a \in DOMAIN d /\ Leaves(d, w, a, c) /\ Stored(d, e, w[1][1], w[1][2]) /\ w # <<>>
    BY <1>3, <1>5
  <2> HIDE DEF c
  <2>2. Leaves(e, Tail(w), a, c) BY ONLY <1>0, <2>1, LeavesShift
  <2> QED BY <2>2 DEF c
<1>6. ASSUME NEW n \in 1 .. Len(u), SuperWrite(u[n]), ~RecoverOn(u[n][2])
      PROVE  (\A k \in n + 1 .. Len(u) : Meta(v, u[k])) /\ AllLeft(v, e, u)
  <2>1. n + 1 \in 1 .. Len(w) /\ u[n] = w[n + 1] BY <1>1
  <2>2. /\ \A k \in (n + 1) + 1 .. Len(w) : Meta(v, w[k])
        /\ \A a \in Homes : Leaves(d, w, a, Outcome(v, a))
    <3> DEFINE q == n + 1
    <3>1. q \in 1 .. Len(w) /\ SuperWrite(w[q]) /\ ~RecoverOn(w[q][2]) BY <1>6, <2>1
    <3> HIDE DEF q
    <3>2. /\ \A k \in q + 1 .. Len(w) : Meta(v, w[k])
          /\ \A a \in Homes : Leaves(d, w, a, Outcome(v, a))
      BY <3>1 DEF QueueSound
    <3> QED BY <3>2 DEF q
  <2>3. ASSUME NEW k \in n + 1 .. Len(u) PROVE Meta(v, u[k])
    <3>1. k + 1 \in (n + 1) + 1 .. Len(w) /\ u[k] = w[k + 1] BY <1>1
    <3> QED BY <2>2, <3>1
  <2> QED BY <1>5, <2>2, <2>3 DEF AllLeft
<1>7. \A n \in 1 .. Len(u) : u[n] = w[n + 1] /\ n + 1 \in 1 .. Len(w) BY <1>1
<1>8. \A n \in 1 .. Len(u) : Meta(v, u[n]) \/ u[n] \in Logged(j) BY <1>7 DEF QueueSound
<1> HIDE DEF u
<1>9. CASE w[1] \in Logged(j) /\ w[1][1] \in Homes
  <2>1. PICK x \in LiveTags(j) : x[2].to \notin Revoked(j) /\ w[1] = WriteOf(j, x)
    BY <1>9 DEF Logged
  <2>2. w[1][1] = x[2].to /\ w[1][2] = LoggedContent(j, x) BY <2>1 DEF WriteOf
  <2>3. e[Super] = d[Super] /\ e[JournalSuper] = d[JournalSuper] BY <1>2, <1>3, <1>4, <1>9
  <2>4. RecoverOn(d[Super])
    <3>1. ~Meta(v, w[1]) BY <1>4, <1>9 DEF Meta, SuperWrite, JournalWrite
    <3> QED BY <1>1, <3>1 DEF QueueSound
  <2>5. ASSUME NEW a \in Homes PROVE BlockSound(v, e, a)
    <3>1. CASE x[2].to = a
      <4>1. x \in LiveFor(j, a) BY <2>1, <3>1 DEF LiveFor
      <4>2. e[a] = LoggedContent(j, x) BY <1>2, <1>3, <2>2, <3>1
      <4> QED BY <4>1, <4>2 DEF BlockSound
    <3>2. CASE x[2].to # a
      <4>1. e[a] = d[a] BY <1>2, <1>3, <1>4, <2>2, <3>2
      <4> QED BY <4>1 DEF BlockSound, DiskSound
    <3> QED BY <3>1, <3>2
  <2>6. DiskSound(v, e) BY <1>2, <2>3, <2>4, <2>5 DEF DiskSound
  <2>7. QueueSound(v, e, u) BY <1>1, <1>6, <1>8, <2>3, <2>4 DEF QueueSound, AllLeft
  <2> QED BY <2>6, <2>7 DEF u
<1>10. CASE JournalWrite(v, w[1])
  <2>1. w[1][1] = JournalSuper /\ SameLog(w[1][2], j) BY <1>10 DEF JournalWrite
  <2>2. /\ e[Super] = d[Super] /\ e[JournalSuper] = w[1][2]
        /\ \A a \in Homes : e[a] = d[a]
    BY <1>2, <1>3, <1>4, <2>1
  <2>3. DiskSound(v, e) BY <1>2, <2>1, <2>2 DEF DiskSound, BlockSound
  <2>4. ~RecoverOn(e[Super]) => \A n \in 1 .. Len(u) : Meta(v, u[n]) BY <1>7, <2>2 DEF QueueSound
  <2>5. QueueSound(v, e, u) BY <1>1, <1>6, <1>8, <2>4 DEF QueueSound, AllLeft
  <2> QED BY <2>3, <2>5 DEF u
<1>11. CASE SuperWrite(w[1])
  <2>1. w[1][1] = Super /\ DOMAIN w[1][2] = DOMAIN NoSuper BY <1>11 DEF SuperWrite
  <2>2. /\ e[Super] = w[1][2] /\ e[JournalSuper] = d[JournalSuper]
        /\ \A a \in Homes : e[a] = d[a]
    BY <1>2, <1>3, <1>4, <2>1
  <2>3. ASSUME ~RecoverOn(e[Super])
        PROVE  /\ \A n \in 1 .. Len(u) : Meta(v, u[n])
               /\ \A a \in Homes : e[a] = Outcome(v, a)
    <3>1. /\ \A k \in 1 + 1 .. Len(w) : Meta(v, w[k])
          /\ \A a \in Homes : Leaves(d, w, a, Outcome(v, a))
      BY <1>1, <1>11, <2>2, <2>3 DEF QueueSound
    <3>2. \A n \in 1 .. Len(u) : Meta(v, u[n])
      <4>1. \A n \in 1 .. Len(u) : n + 1 \in 1 + 1 .. Len(w) BY <1>1
      <4> QED BY <1>7, <3>1, <4>1
    <3>3. ASSUME NEW a \in Homes PROVE e[a] = Outcome(v, a)
      <4>1. \A k \in 1 .. Len(w) : w[k][1] # a
        <5>1. \A k \in 1 .. Len(w) : k = 1 \/ k \in 1 + 1 .. Len(w) BY <1>1
        <5>2. \A k \in 1 .. Len(w) : Meta(v, w[k]) BY <1>11, <3>1, <5>1 DEF Meta
        <5> QED BY <1>4, <5>2 DEF Meta, SuperWrite, JournalWrite
      <4>2. ~LastIs(w, <<a, Outcome(v, a)>>)
        <5> DEFINE f == <<a, Outcome(v, a)>>
        <5>1. f[1] = a OBVIOUS
        <5> HIDE DEF f
        <5>2. ~LastIs(w, f) BY <4>1, <5>1 DEF LastIs
        <5> QED BY <5>2 DEF f
      <4>3. d[a] = Outcome(v, a) BY <3>1, <4>2 DEF Leaves
      <4> QED BY <2>2, <4>3
    <3> QED BY <3>2, <3>3
  <2>4. DiskSound(v, e) BY <1>2, <2>1, <2>2, <2>3 DEF DiskSound, BlockSound
  <2>5. QueueSound(v, e, u) BY <1>1, <1>6, <1>8, <2>3 DEF QueueSound, AllLeft
  <2> QED BY <2>4, <2>5 DEF u
<1>12. CASE w[1] \in Logged(j) /\ w[1][1] \notin Homes BY <1>11, <1>12, LoggedWrites
<1> QED BY <1>1, <1>9, <1>10, <1>11, <1>12 DEF QueueSound, Meta

HistFields == {"cuts", "calls", "touched", "torn", "skipped", "leaky"}

\* While no file has been touched, the disk is one a replay can still complete,
\* and the writes of a running mount keep it so.
RecoveryInv ==
  /\ first \in Volumes /\ DOMAIN hist = HistFields
  /\ RecoverOn(first[Super]) /\ ~hist.touched =>
       DiskSound(first, disk) /\ (call.op = "mount" => QueueSound(first, disk, wq))

LEMMA VolumeSane ==
  ASSUME NEW v \in Volumes
  PROVE  /\ DOMAIN v = Addresses /\ DOMAIN v[Super] = DOMAIN NoSuper
         /\ DOMAIN v[JournalSuper] = JournalFields /\ WellFormed(v[JournalSuper])
  BY VolumeAssumption DEF JournalFields

LEMMA DiskIsSane == ASSUME NEW v \in Volumes, NEW d, DiskSound(v, d) PROVE Sane(d)
<1>1. WellFormed(v[JournalSuper]) BY VolumeSane
<1>2. WellFormed(d[JournalSuper]) BY <1>1, SameWellFormed DEF DiskSound
<1> QED BY <1>2, Places DEF DiskSound, Sane, SameLog

LEMMA RecoveryInit == Init => RecoveryInv
<1> SUFFICES ASSUME Init PROVE RecoveryInv OBVIOUS
<1>1. disk \in Volumes /\ first = disk /\ call = NoCall BY DEF Init
<1>2. DOMAIN hist = HistFields BY DEF Init, HistFields
<1>3. call.op # "mount" BY <1>1 DEF NoCall, NONE
<1>4. RecoverOn(first[Super]) => DiskSound(first, disk)
  <2>1. SameLog(disk[JournalSuper], first[JournalSuper]) BY <1>1, VolumeSane DEF SameLog
  <2> QED BY <1>1, <2>1, VolumeSane DEF DiskSound, BlockSound
<1> QED BY <1>1, <1>2, <1>3, <1>4 DEF RecoveryInv

\* What the calls are recorded as.
LEMMA CallOps ==
  /\ \A f, rc : [[NoCall EXCEPT !.op = "mount", !.fault = f] EXCEPT !.rc = rc].op = "mount"
  /\ \A p, c, i, h, rc : [Writing(p, c, i, h) EXCEPT !.rc = rc].op = "write"
  /\ \A p, i, h, rc : [Calling("unlink", p, i, h) EXCEPT !.rc = rc].op = "unlink"
<1>1. ASSUME NEW f, NEW rc
      PROVE  [[NoCall EXCEPT !.op = "mount", !.fault = f] EXCEPT !.rc = rc].op = "mount"
  BY DEF NoCall
<1>2. ASSUME NEW o, NEW p, NEW i, NEW h
      PROVE  DOMAIN Calling(o, p, i, h) = DOMAIN NoCall /\ Calling(o, p, i, h).op = o
  BY DEF NoCall, Calling
<1>3. ASSUME NEW p, NEW c, NEW i, NEW h
      PROVE  DOMAIN Writing(p, c, i, h) = DOMAIN NoCall /\ Writing(p, c, i, h).op = "write"
  BY <1>2 DEF NoCall, Writing
<1>4. ASSUME NEW p, NEW c, NEW i, NEW h, NEW rc PROVE [Writing(p, c, i, h) EXCEPT !.rc = rc].op = "write"
  BY <1>3 DEF NoCall
<1>5. ASSUME NEW p, NEW i, NEW h, NEW rc PROVE [Calling("unlink", p, i, h) EXCEPT !.rc = rc].op = "unlink"
  BY <1>2 DEF NoCall
<1> QED BY <1>1, <1>4, <1>5

LEMMA RecoveryNext == RecoveryInv /\ [Next]_vars => RecoveryInv'
<1> SUFFICES ASSUME RecoveryInv, [Next]_vars PROVE RecoveryInv' OBVIOUS
<1>0. first \in Volumes /\ DOMAIN hist = HistFields BY DEF RecoveryInv
<1>1. CASE Mount
  <2>1. PICK f \in MountFaults :
          Begin(Ext4Mount(Now, f), [NoCall EXCEPT !.op = "mount", !.fault = f])
    BY <1>1, Zenon DEF Mount
  <2> DEFINE r == Ext4Mount(Now, f)
  <2>2. wq' = r.w /\ disk' = disk /\ first' = first BY <2>1 DEF Begin
  <2>3. DOMAIN hist' = DOMAIN hist /\ hist'.touched = hist.touched
    BY <1>0, <2>1 DEF Begin, HistFields
  <2>4. ASSUME RecoverOn(first[Super]), ~hist.touched PROVE DiskSound(first, disk) /\ QueueSound(first, disk, r.w)
    <3>1. DiskSound(first, disk) BY <2>4 DEF RecoveryInv
    <3>2. Sane(disk) /\ WellFormed(first[JournalSuper]) BY <1>0, <3>1, DiskIsSane, VolumeSane
    <3>3. DOMAIN Now = StateFields /\ Now.w = <<>> /\ Now.d = disk BY DEF Now, StateFields
    <3> HIDE DEF r
    <3>4. r = Ext4Mount(Now, f) BY DEF r
    <3>5. r.w = <<>> \/ MountedAs(disk, f, r) BY <3>2, <3>3, <3>4, MountFacts
    <3>6. CASE MountedAs(disk, f, r)
      <4>1. MountWrites(disk, r.w) BY <3>6 DEF MountedAs
      <4> QED BY <1>0, <2>4, <3>1, <3>2, <4>1, MountQueue
    <3>7. CASE r.w = <<>>
      <4> DEFINE u == <<>>
      <4>1. IsSeq(u) /\ Len(u) = 0 /\ r.w = u BY <3>7, EmptySeqFacts
      <4> HIDE DEF u
      <4>2. QueueSound(first, disk, u) BY <4>1 DEF QueueSound
      <4> QED BY <3>1, <4>1, <4>2
    <3> QED BY <3>5, <3>6, <3>7
  <2> HIDE DEF r
  <2> QED BY <1>0, <2>2, <2>3, <2>4 DEF RecoveryInv
<1>2. CASE Write
  <2>1. PICK p \in Paths, c \in Contents, heap \in BOOLEAN :
          Begin(Ext4Write(Now, p, c, heap), Writing(p, c, ResolveFull(disk, p), heap))
    BY <1>2 DEF Write
  <2>2. disk' = disk /\ first' = first /\ call'.op = "write" BY <2>1, CallOps DEF Begin
  <2>3. DOMAIN hist' = DOMAIN hist /\ hist'.touched = hist.touched
    BY <1>0, <2>1 DEF Begin, HistFields
  <2> QED BY <1>0, <2>2, <2>3 DEF RecoveryInv
<1>3. CASE Unlink
  <2>1. PICK p \in Paths, heap \in BOOLEAN :
          Begin(Ext4Unlink(Now, p, heap), Calling("unlink", p, ResolveFull(disk, p), heap))
    BY <1>3 DEF Unlink
  <2>2. disk' = disk /\ first' = first /\ call'.op = "unlink" BY <2>1, CallOps DEF Begin
  <2>3. DOMAIN hist' = DOMAIN hist /\ hist'.touched = hist.touched
    BY <1>0, <2>1 DEF Begin, HistFields
  <2> QED BY <1>0, <2>2, <2>3 DEF RecoveryInv
<1>4. CASE WriteOut
  <2>1. wq # <<>> /\ wq' = Tail(wq) /\ call' = call /\ first' = first BY <1>4 DEF WriteOut
  <2>2. Stored(disk, disk', wq[1][1], wq[1][2]) BY <1>4 DEF WriteOut, Stored
  <2>3. DOMAIN hist' = DOMAIN hist /\ (~hist'.touched => ~hist.touched /\ call.op = "mount")
    BY <1>0, <1>4 DEF WriteOut, HistFields
  <2>4. ASSUME RecoverOn(first[Super]), ~hist'.touched
        PROVE  DiskSound(first, disk') /\ QueueSound(first, disk', wq')
    <3>1. DiskSound(first, disk) /\ QueueSound(first, disk, wq) BY <2>3, <2>4 DEF RecoveryInv
    <3> QED BY <1>0, <2>1, <2>2, <2>4, <3>1, WriteOutSound
  <2> QED BY <1>0, <2>1, <2>3, <2>4 DEF RecoveryInv
<1>5. CASE Return
  <2>1. disk' = disk /\ first' = first /\ call' = NoCall BY <1>5 DEF Return
  <2>2. DOMAIN hist' = DOMAIN hist /\ hist'.touched = hist.touched
    BY <1>0, <1>5 DEF Return, HistFields
  <2>3. call'.op # "mount" BY <2>1 DEF NoCall, NONE
  <2> QED BY <1>0, <2>1, <2>2, <2>3 DEF RecoveryInv
<1>6. CASE Cut
  <2>1. disk' = disk /\ first' = first /\ call' = NoCall BY <1>6 DEF Cut
  <2>2. DOMAIN hist' = DOMAIN hist /\ hist'.touched = hist.touched
    BY <1>0, <1>6 DEF Cut, HistFields
  <2>3. call'.op # "mount" BY <2>1 DEF NoCall, NONE
  <2> QED BY <1>0, <2>1, <2>2, <2>3 DEF RecoveryInv
<1>7. CASE UNCHANGED vars BY <1>7 DEF vars, RecoveryInv
<1> QED BY <1>1, <1>2, <1>3, <1>4, <1>5, <1>6, <1>7 DEF Next

LEMMA LiveIsCommitted ==
  ASSUME NEW j, WellFormed(j), NEW a
  PROVE  /\ LiveFor(j, a) \subseteq LoggedFor(j, a)
         /\ a \notin Dropped(j) => LiveFor(j, a) = LoggedFor(j, a)
<1>1. LiveTags(j) \subseteq CommittedTags(j)
  <2> SUFFICES ASSUME NEW x \in LiveTags(j) PROVE x \in CommittedTags(j) OBVIOUS
  <2>1. PICK i \in Transactions(j) : x \in {<<i + n, j.log[i].tags[n]>> : n \in Live(j.log[i].tags)}
    BY DEF LiveTags
  <2>2. PICK n \in Live(j.log[i].tags) : x = <<i + n, j.log[i].tags[n]>> BY <2>1
  <2>3. n \in Whole(j.log[i].tags) BY LiveFollowed
  <2> QED BY <2>2, <2>3 DEF CommittedTags
<1>2. a \notin Dropped(j) => \A x \in CommittedTags(j) : x[2].to = a => x \in LiveTags(j)
  BY DEF Dropped
<1>3. a \notin Dropped(j) => LoggedFor(j, a) \subseteq LiveFor(j, a)
  BY <1>2 DEF LiveFor, LoggedFor
<1>4. LiveFor(j, a) \subseteq LoggedFor(j, a) BY <1>1 DEF LiveFor, LoggedFor
<1> QED BY <1>3, <1>4

LEMMA SoundWhenInvariant == RecoveryInv => ReplaySound
<1> DEFINE j == first[JournalSuper]
<1> SUFFICES ASSUME RecoveryInv, RecoverOn(first[Super]), ~hist.touched, NEW a \in Homes
    PROVE  /\ \/ disk[a] = first[a]
              \/ \E x \in LoggedFor(j, a) : disk[a] = LoggedContent(j, x)
           /\ "recover" \notin disk[Super].incompat /\ a \notin Dropped(j) =>
                disk[a] = ReplayedTo(j, a)
  BY DEF ReplaySound, RecoverOn
<1>1. DiskSound(first, disk) /\ WellFormed(j) BY VolumeSane DEF RecoveryInv
<1>2. LiveFor(j, a) \subseteq LoggedFor(j, a) /\ (a \notin Dropped(j) => LiveFor(j, a) = LoggedFor(j, a))
  BY <1>1, LiveIsCommitted
<1>3. ASSUME a \notin Dropped(j) PROVE Outcome(first, a) = ReplayedTo(j, a)
  <2>1. LiveFor(j, a) = LoggedFor(j, a) BY <1>2, <1>3
  <2> DEFINE Latest(xs) == IF xs = {} THEN first[a]
                           ELSE LoggedContent(j, CHOOSE x \in xs : \A y \in xs : y[1] <= x[1])
  <2>2. Outcome(first, a) = Latest(LiveFor(j, a)) /\ ReplayedTo(j, a) = Latest(LoggedFor(j, a))
    BY Zenon DEF Outcome, ReplayedTo
  <2> HIDE DEF Latest
  <2> QED BY <2>1, <2>2, Zenon
<1> QED BY <1>1, <1>2, <1>3 DEF DiskSound, BlockSound, RecoverOn

\* However often the replay of a journal left over from a crash is cut short and
\* begun again, a block of a file, a directory, the inode table, the bitmaps or
\* the descriptors holds what it held or what a committed transaction logged for
\* it, and once RECOVER is off what a whole replay leaves, unless one of its tags
\* is among those the driver does not come to (e4_journal_replay, e4_journal_reset
\* and their order in ext4_mount).
THEOREM ReplayIsSound == Spec => []ReplaySound
<1>1. Spec => []RecoveryInv BY RecoveryInit, RecoveryNext, PTL DEF Spec
<1> QED BY <1>1, SoundWhenInvariant, PTL


(***************************************************************************)
(* What a write or an unlink leaves alone: the journal, and the features in   *)
(* the superblock.  Their loops run over lists of blocks that they read from  *)
(* the disk, and so these have to be lists.                                  *)
(***************************************************************************)

RunOK(r) == "count" \in DOMAIN r /\ r.count \in Nat
RunsOK(q) == IsSeq(q) /\ \A n \in 1 .. Len(q) : RunOK(q[n])
InodeOK(in) ==
  DOMAIN in = DOMAIN NoInode /\ RunsOK(in.runs) /\ IsSeq(in.deep) /\ in.size \in Nat
BlockOK(x) == x.k = "ptrs" => IsSeq(x.p)

VolumeOK(d) ==
  /\ DOMAIN d = Addresses
  /\ \A i \in Inodes : InodeOK(d[InodeAt(i)])
  /\ \A b \in Blocks : BlockOK(d[DataAt(b)])

\* The features of superblock sb are those of k.
Features(sb, k) ==
  DOMAIN sb = DOMAIN NoSuper /\ sb.incompat = k.incompat /\ sb.journal = k.journal

\* What may be written where.
TameWrite(a, v, k) ==
  /\ a # JournalSuper
  /\ a = Super => Features(v, k)
  /\ \A i \in Inodes : a = InodeAt(i) => InodeOK(v)
  /\ \A b \in Blocks : a = DataAt(b) => BlockOK(v)

TameWrites(w, k) == IsSeq(w) /\ \A n \in 1 .. Len(w) : TameWrite(w[n][1], w[n][2], k)

Tame(s, k) ==
  /\ IsState(s) /\ Features(s.m.sb, k)
  /\ VolumeOK(s.d) /\ TameWrites(s.w, k)
  /\ InodeOK(s.in) /\ RunsOK(s.runs)

LEMMA EmptyRuns == RunsOK(<<>>)
  BY EmptySeqFacts DEF RunsOK

LEMMA NewInodes == InodeOK(NoInode) /\ InodeOK(NewFile)
<1>1. /\ DOMAIN NewFile = DOMAIN NoInode /\ NewFile.runs = <<>> /\ NewFile.deep = <<>>
      /\ NewFile.size = 0
  BY DEF NewFile, NoInode
<1>2. NoInode.runs = <<>> /\ NoInode.deep = <<>> /\ NoInode.size = 0 BY DEF NoInode
<1> QED BY <1>1, <1>2, EmptyRuns, EmptySeqFacts DEF InodeOK

LEMMA TameAppend ==
  ASSUME NEW w, NEW k, TameWrites(w, k), NEW a, NEW v, TameWrite(a, v, k)
  PROVE  TameWrites(Append(w, <<a, v>>), k)
<1> DEFINE e == <<a, v>>
<1>0. e[1] = a /\ e[2] = v OBVIOUS
<1> HIDE DEF e
<1>1. IsSeq(w) BY DEF TameWrites
<1>2. /\ IsSeq(Append(w, e)) /\ Len(Append(w, e)) = Len(w) + 1
      /\ Append(w, e)[Len(w) + 1] = e /\ \A n \in 1 .. Len(w) : Append(w, e)[n] = w[n]
  BY <1>1, AppendFacts
<1>3. Len(w) \in Nat BY <1>1, SeqFacts
<1>4. ASSUME NEW n \in 1 .. Len(w) + 1 PROVE TameWrite(Append(w, e)[n][1], Append(w, e)[n][2], k)
  <2>1. CASE n \in 1 .. Len(w) BY <1>2, <2>1 DEF TameWrites
  <2>2. CASE n = Len(w) + 1 BY <1>0, <1>2, <2>2
  <2> QED BY <1>3, <2>1, <2>2
<1>5. TameWrites(Append(w, e), k) BY <1>2, <1>4 DEF TameWrites
<1> QED BY <1>5 DEF e

\* A disk after such a write.
LEMMA TameStored ==
  ASSUME NEW d, VolumeOK(d), NEW a, NEW v, NEW k, TameWrite(a, v, k), NEW e, Stored(d, e, a, v)
  PROVE  VolumeOK(e)
<1>1. \A i \in Inodes : InodeAt(i) \in Addresses BY Zenon DEF Addresses
<1>2. \A b \in Blocks : DataAt(b) \in Addresses BY Zenon DEF Addresses
<1>3. DOMAIN e = Addresses /\ \A x \in Addresses : e[x] = IF x = a THEN v ELSE d[x]
  BY DEF Stored, VolumeOK
<1>4. ASSUME NEW i \in Inodes PROVE InodeOK(e[InodeAt(i)])
  BY <1>1, <1>3 DEF VolumeOK, TameWrite
<1>5. ASSUME NEW b \in Blocks PROVE BlockOK(e[DataAt(b)])
  BY <1>2, <1>3 DEF VolumeOK, TameWrite
<1> QED BY <1>3, <1>4, <1>5 DEF VolumeOK

LEMMA TameDone == ASSUME NEW s, NEW k, Tame(s, k) PROVE Tame(Done(s), k) /\ Tame(Fail(s), k)
  BY DoneFacts DEF Tame

LEMMA TameWriteBlock ==
  ASSUME NEW s, NEW k, Tame(s, k), NEW a, NEW v, TameWrite(a, v, k)
  PROVE  Tame(WriteBlock(s, a, v), k)
<1>0. IsState(s) BY DEF Tame
<1>1. CASE CanWrite(s)
  <2> DEFINE t == WriteBlock(s, a, v)
  <2>1. /\ IsState(t) /\ t.m = s.m /\ t.w = Append(s.w, <<a, v>>)
        /\ Stored(s.d, t.d, a, v) /\ t.in = s.in /\ t.runs = s.runs
    BY <1>0, <1>1, WriteBlockFacts
  <2> HIDE DEF t
  <2>2. VolumeOK(s.d) /\ TameWrites(s.w, k) BY DEF Tame
  <2>3. VolumeOK(t.d) BY <2>1, <2>2, TameStored
  <2>4. TameWrites(Append(s.w, <<a, v>>), k) BY <2>2, TameAppend
  <2>5. TameWrites(t.w, k) BY <2>1, <2>4
  <2>6. Tame(t, k) BY <2>1, <2>3, <2>5 DEF Tame
  <2> QED BY <2>6 DEF t
<1>2. CASE ~CanWrite(s)
  <2>1. WriteBlock(s, a, v) = Fail(s) BY <1>2 DEF WriteBlock, CanWrite
  <2> QED BY <2>1, TameDone
<1> QED BY <1>1, <1>2

LEMMA TameSync == ASSUME NEW s, NEW k, Tame(s, k) PROVE Tame(SyncSuperblock(s), k)
<1>0. IsState(s) BY DEF Tame
<1>1. CASE HasDevice(s)
  <2> DEFINE t == SyncSuperblock(s)
  <2> DEFINE v == s.m.sb
  <2>1. /\ IsState(t) /\ t.m = s.m /\ t.w = Append(s.w, <<Super, v>>)
        /\ Stored(s.d, t.d, Super, v) /\ t.in = s.in /\ t.runs = s.runs
    BY <1>0, <1>1, SyncSuperblockFacts
  <2>2. VolumeOK(s.d) /\ TameWrites(s.w, k) /\ Features(v, k) BY DEF Tame
  <2> HIDE DEF t, v
  <2>6. TameWrite(Super, v, k)
    <3>1. Super # JournalSuper BY DEF Super, JournalSuper
    <3>2. \A i : Super # InodeAt(i) /\ Super # DataAt(i) BY DEF Super, InodeAt, DataAt
    <3> QED BY <2>2, <3>1, <3>2 DEF TameWrite
  <2>3. VolumeOK(t.d) BY <2>1, <2>2, <2>6, TameStored
  <2>4. TameWrites(Append(s.w, <<Super, v>>), k) BY <2>2, <2>6, TameAppend
  <2>5. TameWrites(t.w, k) BY <2>1, <2>4
  <2>7. Tame(t, k) BY <2>1, <2>3, <2>5 DEF Tame
  <2> QED BY <2>7 DEF t
<1>2. CASE ~HasDevice(s)
  <2>1. SyncSuperblock(s) = Fail(s) BY <1>2 DEF SyncSuperblock, HasDevice
  <2> QED BY <2>1, TameDone
<1> QED BY <1>1, <1>2

\* What is written at the places.
LEMMA TamePlaces ==
  ASSUME NEW k
  PROVE  /\ \A g, v : /\ TameWrite(Desc(g), v, k) /\ TameWrite(BlockBitmap(g), v, k)
                      /\ TameWrite(InodeBitmap(g), v, k)
         /\ \A i, v : InodeOK(v) => TameWrite(InodeAt(i), v, k)
         /\ \A b, v : BlockOK(v) => TameWrite(DataAt(b), v, k)
  BY DEF TameWrite, Super, JournalSuper, Desc, BlockBitmap, InodeBitmap, InodeAt, DataAt

LEMMA TameBlocks ==
  /\ BlockOK(ZERO) /\ BlockOK(JUNK)
  /\ \A c, i : BlockOK(FileData(c, i))
  /\ \A e : BlockOK(Dirents(e))
  /\ \A q : BlockOK(Leaf(q))
  BY DEF BlockOK, ZERO, JUNK, FileData, Dirents, Leaf

\* Fields of the state that may be set to anything, or to what they may hold.
LEMMA TameOut == ASSUME NEW s, NEW k, Tame(s, k), NEW x PROVE Tame([s EXCEPT !.out = x], k)
<1> DEFINE t == [s EXCEPT !.out = x]
<1>1. /\ DOMAIN t = DOMAIN s /\ t.d = s.d /\ t.m = s.m /\ t.w = s.w /\ t.in = s.in /\ t.runs = s.runs
  BY DEF Tame, IsState
<1> HIDE DEF t
<1>2. Tame(t, k) BY <1>1 DEF Tame, IsState
<1> QED BY <1>2 DEF t

LEMMA TameIn == ASSUME NEW s, NEW k, Tame(s, k), NEW x, InodeOK(x) PROVE Tame([s EXCEPT !.in = x], k)
<1> DEFINE t == [s EXCEPT !.in = x]
<1>1. /\ DOMAIN t = DOMAIN s /\ t.d = s.d /\ t.m = s.m /\ t.w = s.w /\ t.in = x /\ t.runs = s.runs
  BY DEF Tame, IsState
<1> HIDE DEF t
<1>2. Tame(t, k) BY <1>1 DEF Tame, IsState
<1> QED BY <1>2 DEF t

LEMMA TameRuns == ASSUME NEW s, NEW k, Tame(s, k), NEW x, RunsOK(x) PROVE Tame([s EXCEPT !.runs = x], k)
<1> DEFINE t == [s EXCEPT !.runs = x]
<1>1. /\ DOMAIN t = DOMAIN s /\ t.d = s.d /\ t.m = s.m /\ t.w = s.w /\ t.in = s.in /\ t.runs = x
  BY DEF Tame, IsState
<1> HIDE DEF t
<1>2. Tame(t, k) BY <1>1 DEF Tame, IsState
<1> QED BY <1>2 DEF t

\* A change of the counts in memory.
LEMMA TameMemory ==
  ASSUME NEW s, NEW k, Tame(s, k), NEW t, DOMAIN t = DOMAIN s,
         t.d = s.d, t.w = s.w, t.in = s.in, t.runs = s.runs,
         DOMAIN t.m = DOMAIN s.m, Features(t.m.sb, k)
  PROVE  Tame(t, k)
<1>1. DOMAIN t.m.sb = DOMAIN NoSuper BY DEF Features
<1> QED BY <1>1 DEF Tame, IsState

LEMMA TameDescriptors ==
  ASSUME NEW s, NEW k, Tame(s, k), NEW gd
  PROVE  Tame([s EXCEPT !.m.gd = gd], k)
<1> DEFINE t == [s EXCEPT !.m.gd = gd]
<1>1. /\ DOMAIN t = DOMAIN s /\ t.d = s.d /\ t.w = s.w /\ t.in = s.in /\ t.runs = s.runs
      /\ DOMAIN t.m = DOMAIN s.m /\ t.m.sb = s.m.sb
  BY DEF Tame, IsState
<1> HIDE DEF t
<1>2. Features(t.m.sb, k) BY <1>1 DEF Tame
<1>3. Tame(t, k) BY <1>1, <1>2, TameMemory
<1> QED BY <1>3 DEF t

LEMMA TameCounts ==
  ASSUME NEW s, NEW k, Tame(s, k), NEW n
  PROVE  Tame([s EXCEPT !.m.sb.blocks = n], k) /\ Tame([s EXCEPT !.m.sb.inodes = n], k)
<1>0. DOMAIN s.m.sb = DOMAIN NoSuper /\ s.m.sb.incompat = k.incompat /\ s.m.sb.journal = k.journal
  BY DEF Tame, Features
<1>1. Tame([s EXCEPT !.m.sb.blocks = n], k)
  <2> DEFINE sb == [s.m.sb EXCEPT !.blocks = n]
  <2> DEFINE t == [s EXCEPT !.m.sb.blocks = n]
  <2>1. /\ DOMAIN t = DOMAIN s /\ t.d = s.d /\ t.w = s.w /\ t.in = s.in /\ t.runs = s.runs
        /\ DOMAIN t.m = DOMAIN s.m /\ t.m.sb = sb
    BY DEF Tame, IsState
  <2>2. Features(sb, k) BY <1>0 DEF Features, NoSuper
  <2> HIDE DEF t, sb
  <2>3. Tame(t, k) BY <2>1, <2>2, TameMemory
  <2> QED BY <2>3 DEF t
<1>2. Tame([s EXCEPT !.m.sb.inodes = n], k)
  <2> DEFINE sb == [s.m.sb EXCEPT !.inodes = n]
  <2> DEFINE t == [s EXCEPT !.m.sb.inodes = n]
  <2>1. /\ DOMAIN t = DOMAIN s /\ t.d = s.d /\ t.w = s.w /\ t.in = s.in /\ t.runs = s.runs
        /\ DOMAIN t.m = DOMAIN s.m /\ t.m.sb = sb
    BY DEF Tame, IsState
  <2>2. Features(sb, k) BY <1>0 DEF Features, NoSuper
  <2> HIDE DEF t, sb
  <2>3. Tame(t, k) BY <2>1, <2>2, TameMemory
  <2> QED BY <2>3 DEF t
<1> QED BY <1>1, <1>2

LEMMA TameAdjust ==
  ASSUME NEW s, NEW k, Tame(s, k), NEW g, NEW n
  PROVE  Tame(AdjustFreeBlocks(s, g, n), k) /\ Tame(AdjustFreeInodes(s, g, n), k)
<1>1. Tame(AdjustFreeBlocks(s, g, n), k)
  <2> DEFINE gd == [s.m.gd EXCEPT ![g].blocks = AtLeastZero(@ + n)]
  <2> DEFINE t == [s EXCEPT !.m.gd = gd]
  <2> DEFINE c == AtLeastZero(s.m.sb.blocks + n)
  <2>1. AdjustFreeBlocks(s, g, n) = [t EXCEPT !.m.sb.blocks = c]
    BY DEF AdjustFreeBlocks, Tame, IsState
  <2> HIDE DEF gd, c
  <2>2. Tame(t, k) BY TameDescriptors
  <2> HIDE DEF t
  <2>3. Tame([t EXCEPT !.m.sb.blocks = c], k) BY <2>2, TameCounts, Zenon
  <2> QED BY <2>1, <2>3, Zenon
<1>2. Tame(AdjustFreeInodes(s, g, n), k)
  <2> DEFINE gd == [s.m.gd EXCEPT ![g].inodes = AtLeastZero(@ + n)]
  <2> DEFINE t == [s EXCEPT !.m.gd = gd]
  <2> DEFINE c == AtLeastZero(s.m.sb.inodes + n)
  <2>1. AdjustFreeInodes(s, g, n) = [t EXCEPT !.m.sb.inodes = c]
    BY DEF AdjustFreeInodes, Tame, IsState
  <2> HIDE DEF gd, c
  <2>2. Tame(t, k) BY TameDescriptors
  <2> HIDE DEF t
  <2>3. Tame([t EXCEPT !.m.sb.inodes = c], k) BY <2>2, TameCounts, Zenon
  <2> QED BY <2>1, <2>3, Zenon
<1> QED BY <1>1, <1>2

LEMMA TameBits ==
  ASSUME NEW s, NEW k, Tame(s, k), NEW g, NEW x
  PROVE  /\ Tame(SyncGd(s, g), k)
         /\ Tame(SetBit(s, BlockBitmap(g), x), k)
         /\ Tame(ClearBit(s, BlockBitmap(g), x), k) /\ Tame(ClearBit(s, InodeBitmap(g), x), k)
         /\ Tame(WriteBlock(s, InodeBitmap(g), x), k)
  BY TamePlaces, TameWriteBlock DEF SyncGd, SetBit, ClearBit

LEMMA TameData ==
  ASSUME NEW s, NEW k, Tame(s, k), NEW b, NEW v, BlockOK(v)
  PROVE  Tame(WriteBlock(s, DataAt(b), v), k)
  BY TamePlaces, TameWriteBlock

LEMMA TameInode ==
  ASSUME NEW s, NEW k, Tame(s, k), NEW i PROVE Tame(WriteInode(s, i), k)
<1>1. InodeOK(s.in) BY DEF Tame
<1> QED BY <1>1, TamePlaces, TameWriteBlock DEF WriteInode

----------------------------------------------------------------------------
\* The allocators.

LEMMA TameTakeBlock == ASSUME NEW s, NEW k, Tame(s, k), NEW g, NEW b PROVE Tame(TakeBlock(s, g, b), k)
<1>1. Tame(SyncGd(AdjustFreeBlocks(s, g, -1), g), k) BY TameAdjust, TameBits
<1>2. Tame(SetBit(SyncGd(AdjustFreeBlocks(s, g, -1), g), BlockBitmap(g), b), k) BY <1>1, TameBits
<1>3. Tame(WriteBlock(SetBit(SyncGd(AdjustFreeBlocks(s, g, -1), g), BlockBitmap(g), b), DataAt(b), ZERO), k)
  BY <1>2, TameData, TameBlocks
<1> QED BY <1>3, TameOut DEF TakeBlock

LEMMA TameAllocBlock == ASSUME NEW s, NEW k, Tame(s, k), NEW h PROVE Tame(AllocBlockNear(s, h), k)
  BY TameDone, TameTakeBlock, Zenon DEF AllocBlockNear

LEMMA TameFreeBlock == ASSUME NEW s, NEW k, Tame(s, k), NEW b PROVE Tame(FreeBlock(s, b), k)
<1> DEFINE g == BlockGroup(b)
<1>1. Tame(SyncGd(AdjustFreeBlocks(s, g, 1), g), k) BY TameAdjust, TameBits
<1>2. Tame(ClearBit(SyncGd(AdjustFreeBlocks(s, g, 1), g), BlockBitmap(g), b), k) BY <1>1, TameBits
<1> QED BY <1>2, TameDone, Zenon DEF FreeBlock

LEMMA TameTakeInode == ASSUME NEW s, NEW k, Tame(s, k), NEW g, NEW i PROVE Tame(TakeInode(s, g, i), k)
<1> DEFINE t == AdjustFreeInodes(s, g, -1)
<1> DEFINE u == [t EXCEPT !.m.gd[g].uninit = FALSE]
<1> DEFINE v == WriteBlock(SyncGd(u, g), InodeBitmap(g), InodeBits(s, g) \cup {i})
<1>1. Tame(t, k) BY TameAdjust
<1>2. Tame(u, k)
  <2> DEFINE gd == [t.m.gd EXCEPT ![g].uninit = FALSE]
  <2>1. u = [t EXCEPT !.m.gd = gd] BY Zenon
  <2> HIDE DEF t, u, gd
  <2> QED BY <1>1, <2>1, TameDescriptors
<1>3. TakeInode(s, g, i) = [v EXCEPT !.out = i] BY DEF TakeInode
<1> HIDE DEF u
<1>4. Tame(SyncGd(u, g), k) BY <1>2, TameBits
<1>5. Tame(v, k) BY <1>4, TameBits
<1> HIDE DEF v
<1> QED BY <1>3, <1>5, TameOut

LEMMA TameAllocInode == ASSUME NEW s, NEW k, Tame(s, k), NEW h PROVE Tame(AllocInode(s, h), k)
  BY TameDone, TameTakeInode, Zenon DEF AllocInode

LEMMA TameFreeInode == ASSUME NEW s, NEW k, Tame(s, k), NEW i PROVE Tame(FreeInode(s, i), k)
<1> DEFINE g == InodeGroup(i)
<1>1. Tame(SyncGd(AdjustFreeInodes(s, g, 1), g), k) BY TameAdjust, TameBits
<1>2. Tame(ClearBit(SyncGd(AdjustFreeInodes(s, g, 1), g), InodeBitmap(g), i), k) BY <1>1, TameBits
<1> QED BY <1>2, TameDone, Zenon DEF FreeInode

----------------------------------------------------------------------------
\* The loops over blocks.

LEMMA ConcatSeq == ASSUME NEW p, NEW q, IsSeq(p), IsSeq(q) PROVE IsSeq(p \o q)
<1>1. PICK S : p \in Seq(S) BY DEF IsSeq
<1>2. PICK T : q \in Seq(T) BY DEF IsSeq
<1>3. p \in Seq(S \cup T) /\ q \in Seq(S \cup T) BY <1>1, <1>2
<1>4. p \o q \in Seq(S \cup T) BY <1>3
<1> QED BY <1>4 DEF IsSeq

\* A function on 1 .. n is a sequence.
LEMMA FunctionSeq == ASSUME NEW n \in Nat, NEW q, q = [i \in 1 .. n |-> q[i]] PROVE IsSeq(q)
<1> DEFINE S == {q[i] : i \in 1 .. n}
<1>1. q \in [1 .. n -> S] OBVIOUS
<1> HIDE DEF S
<1>2. q \in Seq(S) BY <1>1
<1> QED BY <1>2 DEF IsSeq

LEMMA SameLength == ASSUME NEW m \in Nat, NEW n \in Nat, 1 .. m = 1 .. n PROVE m = n
<1>1. CASE m < n
  <2>1. n \in 1 .. n /\ n \notin 1 .. m BY <1>1
  <2> QED BY <2>1
<1>2. CASE n < m
  <2>1. m \in 1 .. m /\ m \notin 1 .. n BY <1>2
  <2> QED BY <2>1
<1> QED BY <1>1, <1>2

LEMMA SingleSeq == ASSUME NEW x PROVE IsSeq(<<x>>)
<1>1. <<x>> \in Seq({x}) OBVIOUS
<1> QED BY <1>1 DEF IsSeq

LEMMA RunAppended == ASSUME NEW q, IsSeq(q), NEW r, RunOK(r) PROVE IsSeq(AppendRun(q, r))
<1> DEFINE t == [j \in 1 .. r.count |-> r.start + j - 1]
<1>1. r.count \in Nat /\ t = [j \in 1 .. r.count |-> t[j]] BY DEF RunOK
<1>2. AppendRun(q, r) = q \o t BY DEF AppendRun
<1> HIDE DEF t
<1>3. IsSeq(t) BY <1>1, FunctionSeq
<1> QED BY <1>2, <1>3, ConcatSeq

LEMMA RunBlocksSeq == ASSUME NEW runs, RunsOK(runs) PROVE IsSeq(RunBlocks(runs))
<1> DEFINE n == Len(runs)
<1> DEFINE e == <<>>
<1>1. n \in Nat /\ DOMAIN runs = 1 .. n BY SeqFacts DEF RunsOK
<1>2. RunBlocks(runs) = Folded("run", e, runs) BY FoldLeftRun DEF RunBlocks
<1>3. IsSeq(e) BY EmptySeqFacts
<1>4. \A i \in 1 .. n : RunOK(runs[i]) BY DEF RunsOK
<1> HIDE DEF n, e
<1>5. PICK f : Stages("run", e, runs, n, f) /\ Folded("run", e, runs) = f[n] BY <1>1, FoldSteps
<1> DEFINE S == {i \in 0 .. n : IsSeq(f[i])}
<1>6. 0 \in S BY <1>1, <1>3, <1>5 DEF Stages
<1>7. ASSUME NEW i \in 1 .. n, i - 1 \in S PROVE i \in S
  <2>1. IsSeq(f[i - 1]) BY <1>7
  <2>2. f[i] = AppendRun(f[i - 1], runs[i]) BY <1>5 DEF Stages, Step
  <2>3. IsSeq(f[i]) BY <1>4, <2>1, <2>2, RunAppended
  <2> QED BY <1>1, <2>3
<1>8. \A i \in S : IsSeq(f[i]) OBVIOUS
<1> HIDE DEF S
<1>9. Climbs(S, n) BY <1>6, <1>7 DEF Climbs
<1>10. IsSeq(f[n]) BY <1>1, <1>8, <1>9, Climb
<1> QED BY <1>2, <1>5, <1>10

LEMMA ReverseSeq == ASSUME NEW q, IsSeq(q) PROVE IsSeq(Reverse(q))
<1>1. Len(q) \in Nat BY SeqFacts
<1> DEFINE r == Reverse(q)
<1>2. r = [i \in 1 .. Len(q) |-> r[i]] BY DEF Reverse
<1> HIDE DEF r
<1>3. IsSeq(r) BY <1>1, <1>2, FunctionSeq
<1> QED BY <1>3 DEF r

\* Step j keeps a state tame, whatever the element.
Keeps(j, q, k) == \A s : \A i \in 1 .. Len(q) : Tame(s, k) => Tame(Step(j, s, q[i]), k)

LEMMA TameFold ==
  ASSUME NEW j, NEW k, NEW s, Tame(s, k), NEW q, IsSeq(q), Keeps(j, q, k)
  PROVE  Tame(Folded(j, s, q), k)
<1> DEFINE n == Len(q)
<1>1. n \in Nat /\ DOMAIN q = 1 .. n BY SeqFacts
<1>2. \A t : \A i \in 1 .. n : Tame(t, k) => Tame(Step(j, t, q[i]), k) BY DEF Keeps
<1> HIDE DEF n
<1>5. PICK f : Stages(j, s, q, n, f) /\ Folded(j, s, q) = f[n] BY <1>1, FoldSteps
<1> DEFINE S == {i \in 0 .. n : Tame(f[i], k)}
<1>6. 0 \in S BY <1>1, <1>5 DEF Stages
<1>7. ASSUME NEW i \in 1 .. n, i - 1 \in S PROVE i \in S
  <2>1. Tame(f[i - 1], k) BY <1>7
  <2>2. f[i] = Step(j, f[i - 1], q[i]) BY <1>5 DEF Stages
  <2>3. Tame(f[i], k) BY <1>2, <2>1, <2>2
  <2> QED BY <1>1, <2>3
<1>8. \A i \in S : Tame(f[i], k) OBVIOUS
<1> HIDE DEF S
<1>9. Climbs(S, n) BY <1>6, <1>7 DEF Climbs
<1>10. Tame(f[n], k) BY <1>1, <1>8, <1>9, Climb
<1> QED BY <1>5, <1>10

LEMMA TameFreeBlocks == ASSUME NEW s, NEW k, Tame(s, k), NEW q, IsSeq(q) PROVE Tame(FreeBlocks(s, q), k)
<1>1. \A t, x : Step("free", t, x) = FreeBlock(t, x) BY DEF Step
<1>2. Keeps("free", q, k) BY <1>1, TameFreeBlock DEF Keeps
<1>3. FreeBlocks(s, q) = Folded("free", s, q) BY FoldLeftFree DEF FreeBlocks
<1> QED BY <1>2, <1>3, TameFold

----------------------------------------------------------------------------
\* Truncation.

LEMMA TameExtentTree == ASSUME NEW s, NEW k, Tame(s, k) PROVE Tame(FreeExtentTree(s), k)
<1> DEFINE q == IF s.in.deep = <<>> THEN RunBlocks(s.in.runs) ELSE s.in.deep
<1>1. RunsOK(s.in.runs) /\ IsSeq(s.in.deep) BY DEF Tame, InodeOK
<1>2. IsSeq(q) BY <1>1, RunBlocksSeq
<1>3. FreeExtentTree(s) = FreeBlocks(s, q) BY DEF FreeExtentTree
<1> HIDE DEF q
<1> QED BY <1>2, <1>3, TameFreeBlocks

LEMMA TameIndirectTree ==
  ASSUME NEW s, NEW k, Tame(s, k), NEW b, NEW heap PROVE Tame(FreeIndirectTree(s, b, heap), k)
<1> DEFINE q == Children(s.d, b)
<1>1. IsSeq(q)
  <2>1. CASE b \in Blocks /\ s.d[DataAt(b)].k = "ptrs"
    <3>1. BlockOK(s.d[DataAt(b)]) BY <2>1 DEF Tame, VolumeOK
    <3>2. q = s.d[DataAt(b)].p BY <2>1, Zenon DEF Children
    <3> QED BY <2>1, <3>1, <3>2 DEF BlockOK
  <2>2. CASE ~(b \in Blocks /\ s.d[DataAt(b)].k = "ptrs")
    <3>1. q = <<>> BY <2>2, Zenon DEF Children
    <3> QED BY <3>1, EmptySeqFacts
  <2> QED BY <2>1, <2>2
<1> HIDE DEF q
<1>2. IsSeq(q \o <<b>>) BY <1>1, SingleSeq, ConcatSeq
<1>3. FreeIndirectTree(s, b, heap) \in {s, FreeBlocks(s, q \o <<b>>)} BY Zenon DEF FreeIndirectTree, q
<1> DEFINE r == q \o <<b>>
<1> HIDE DEF r
<1>4. IsSeq(r) /\ FreeIndirectTree(s, b, heap) \in {s, FreeBlocks(s, r)} BY <1>2, <1>3 DEF r
<1> QED BY <1>4, TameFreeBlocks

\* Truncation, with loop j over the indirect blocks.
TreeLoops == {"tree", "notree"}
Emptied(s, j) ==
  LET freed == IF s.in.ext THEN FreeExtentTree(s)
               ELSE Folded(j, FreeBlocks(s, Reverse(RunBlocks(s.in.runs))), s.in.deep)
  IN  Done([freed EXCEPT !.in.runs = <<>>, !.in.deep = <<>>, !.in.size = 0])

LEMMA TruncateLoops ==
  ASSUME NEW s, NEW heap \in BOOLEAN PROVE \E j \in TreeLoops : Truncate(s, heap) = Emptied(s, j)
<1>1. Truncate(s, TRUE) = Emptied(s, "tree") BY FoldLeftTree, Zenon DEF Truncate, Emptied
<1>2. Truncate(s, FALSE) = Emptied(s, "notree") BY FoldLeftTree, Zenon DEF Truncate, Emptied
<1>3. CASE heap = TRUE BY <1>1, <1>3 DEF TreeLoops
<1>4. CASE heap = FALSE BY <1>2, <1>4 DEF TreeLoops
<1> QED BY <1>3, <1>4

LEMMA TreeStep ==
  ASSUME NEW j \in TreeLoops, NEW t, NEW x
  PROVE  \E heap : Step(j, t, x) = FreeIndirectTree(t, x, heap)
<1>1. Step("tree", t, x) = FreeIndirectTree(t, x, TRUE) BY DEF Step
<1>2. Step("notree", t, x) = FreeIndirectTree(t, x, FALSE) BY DEF Step
<1> QED BY <1>1, <1>2 DEF TreeLoops

LEMMA TameTruncate ==
  ASSUME NEW s, NEW k, Tame(s, k), NEW heap \in BOOLEAN PROVE Tame(Truncate(s, heap), k)
<1>0. PICK j \in TreeLoops : Truncate(s, heap) = Emptied(s, j) BY TruncateLoops
<1> DEFINE q == Reverse(RunBlocks(s.in.runs))
<1> DEFINE freed == IF s.in.ext THEN FreeExtentTree(s)
                    ELSE Folded(j, FreeBlocks(s, q), s.in.deep)
<1>1. RunsOK(s.in.runs) /\ IsSeq(s.in.deep) BY DEF Tame, InodeOK
<1>2. IsSeq(q) BY <1>1, RunBlocksSeq, ReverseSeq
<1>3. Truncate(s, heap) = Done([freed EXCEPT !.in.runs = <<>>, !.in.deep = <<>>, !.in.size = 0])
  BY <1>0, Zenon DEF Emptied
<1> HIDE DEF q
<1>4. Tame(freed, k)
  <2>1. CASE s.in.ext
    <3>1. freed = FreeExtentTree(s) BY <2>1
    <3> QED BY <3>1, TameExtentTree
  <2>2. CASE ~s.in.ext
    <3> DEFINE u == FreeBlocks(s, q)
    <3>1. freed = Folded(j, u, s.in.deep) BY <2>2
    <3>2. Tame(u, k) BY <1>2, TameFreeBlocks
    <3>4. Keeps(j, s.in.deep, k) BY TreeStep, TameIndirectTree DEF Keeps
    <3> HIDE DEF u, freed
    <3> QED BY <1>1, <3>1, <3>2, <3>4, TameFold
  <2> QED BY <2>1, <2>2
<1> HIDE DEF freed
<1> DEFINE x == [freed.in EXCEPT !.runs = <<>>, !.deep = <<>>, !.size = 0]
<1>5. [freed EXCEPT !.in.runs = <<>>, !.in.deep = <<>>, !.in.size = 0] = [freed EXCEPT !.in = x]
  BY <1>4 DEF Tame, IsState
<1>6. InodeOK(x)
  <2>1. DOMAIN freed.in = DOMAIN NoInode BY <1>4 DEF Tame, InodeOK
  <2>2. DOMAIN x = DOMAIN NoInode /\ x.runs = <<>> /\ x.deep = <<>> /\ x.size = 0 BY <2>1 DEF NoInode
  <2> HIDE DEF x
  <2> QED BY <2>2, EmptyRuns, EmptySeqFacts DEF InodeOK
<1> HIDE DEF x
<1>7. Tame([freed EXCEPT !.in = x], k) BY <1>4, <1>6, TameIn
<1> QED BY <1>3, <1>5, <1>7, TameDone

----------------------------------------------------------------------------
\* New blocks.

LEMMA RunsAppend == ASSUME NEW q, RunsOK(q), NEW r, RunOK(r) PROVE RunsOK(Append(q, r))
<1>1. IsSeq(q) BY DEF RunsOK
<1>2. /\ IsSeq(Append(q, r)) /\ Len(Append(q, r)) = Len(q) + 1 /\ Append(q, r)[Len(q) + 1] = r
      /\ \A n \in 1 .. Len(q) : Append(q, r)[n] = q[n]
  BY <1>1, AppendFacts
<1>3. Len(q) \in Nat BY <1>1, SeqFacts
<1>4. ASSUME NEW n \in 1 .. Len(q) + 1 PROVE RunOK(Append(q, r)[n])
  <2>1. CASE n \in 1 .. Len(q) BY <1>2, <2>1 DEF RunsOK
  <2>2. CASE n = Len(q) + 1 BY <1>2, <2>2
  <2> QED BY <1>3, <2>1, <2>2
<1> QED BY <1>2, <1>4 DEF RunsOK

LEMMA OneRun == ASSUME NEW l, NEW b PROVE RunOK(Run(l, b, 1))
  BY DEF RunOK, Run

LEMMA RunsExtended ==
  ASSUME NEW q, RunsOK(q), q # <<>>
  PROVE  RunsOK([q EXCEPT ![Len(q)].count = @ + 1])
<1> DEFINE n == Len(q)
<1> DEFINE r == [q[n] EXCEPT !.count = @ + 1]
<1> DEFINE p == [q EXCEPT ![n] = r]
<1>1. IsSeq(q) BY DEF RunsOK
<1>2. n \in Nat /\ DOMAIN q = 1 .. n /\ q = [i \in 1 .. n |-> q[i]] /\ n # 0
  <2>1. PICK S : q \in Seq(S) BY <1>1 DEF IsSeq
  <2> QED BY <2>1
<1>3. RunOK(q[n]) BY <1>2 DEF RunsOK
<1>4. RunOK(r) BY <1>3 DEF RunOK
<1>5. p = [q EXCEPT ![Len(q)].count = @ + 1] BY Zenon
<1> HIDE DEF r, n
<1>6. /\ p = [i \in 1 .. n |-> p[i]] /\ DOMAIN p = 1 .. n /\ p[n] = r
      /\ \A i \in 1 .. n : i # n => p[i] = q[i]
  <2>1. DOMAIN p = 1 .. n /\ p = [i \in DOMAIN q |-> p[i]] BY <1>2
  <2>2. n \in 1 .. n BY <1>2
  <2>3. p[n] = r /\ \A i \in 1 .. n : i # n => p[i] = q[i] BY <1>2, <2>2
  <2> QED BY <1>2, <2>1, <2>3
<1>7. \A i \in 1 .. n : RunOK(q[i]) BY DEF RunsOK, n
<1> HIDE DEF p
<1>8. IsSeq(p) BY <1>2, <1>6, FunctionSeq
<1>9. Len(p) = n
  <2>1. Len(p) \in Nat /\ DOMAIN p = 1 .. Len(p) BY <1>8, SeqFacts
  <2> QED BY <1>2, <1>6, <2>1, SameLength
<1>10. \A i \in 1 .. n : RunOK(p[i]) BY <1>4, <1>6, <1>7
<1>11. RunsOK(p) BY <1>8, <1>9, <1>10 DEF RunsOK
<1> QED BY <1>5, <1>11, Zenon

LEMMA RunsAdded == ASSUME NEW q, RunsOK(q), NEW l, NEW b PROVE RunsOK(AddToRuns(q, l, b))
<1> DEFINE p == [q EXCEPT ![Len(q)].count = @ + 1]
<1> DEFINE r == Append(q, Run(l, b, 1))
<1>1. (q # <<>> /\ AddToRuns(q, l, b) = p) \/ AddToRuns(q, l, b) = r
  BY Zenon DEF AddToRuns
<1>2. RunsOK(r) BY OneRun, RunsAppend
<1>3. q # <<>> => RunsOK(p) BY RunsExtended
<1> HIDE DEF p, r
<1> QED BY <1>1, <1>2, <1>3

LEMMA TameInDeep ==
  ASSUME NEW s, NEW k, Tame(s, k), NEW x, IsSeq(x) PROVE Tame([s EXCEPT !.in.deep = x], k)
<1> DEFINE y == [s.in EXCEPT !.deep = x]
<1>1. DOMAIN s.in = DOMAIN NoInode /\ RunsOK(s.in.runs) /\ s.in.size \in Nat BY DEF Tame, InodeOK
<1>2. DOMAIN y = DOMAIN NoInode /\ y.runs = s.in.runs /\ y.deep = x /\ y.size = s.in.size BY <1>1 DEF NoInode
<1>3. [s EXCEPT !.in.deep = x] = [s EXCEPT !.in = y] BY Zenon
<1> HIDE DEF y
<1>4. InodeOK(y) BY <1>1, <1>2 DEF InodeOK
<1>5. Tame([s EXCEPT !.in = y], k) BY <1>4, TameIn
<1> QED BY <1>3, <1>5, Zenon

LEMMA TameInRuns ==
  ASSUME NEW s, NEW k, Tame(s, k), NEW x, RunsOK(x) PROVE Tame([s EXCEPT !.in.runs = x], k)
<1> DEFINE y == [s.in EXCEPT !.runs = x]
<1>1. DOMAIN s.in = DOMAIN NoInode /\ IsSeq(s.in.deep) /\ s.in.size \in Nat BY DEF Tame, InodeOK
<1>2. DOMAIN y = DOMAIN NoInode /\ y.deep = s.in.deep /\ y.runs = x /\ y.size = s.in.size BY <1>1 DEF NoInode
<1>3. [s EXCEPT !.in.runs = x] = [s EXCEPT !.in = y] BY Zenon
<1> HIDE DEF y
<1>4. InodeOK(y) BY <1>1, <1>2 DEF InodeOK
<1>5. Tame([s EXCEPT !.in = y], k) BY <1>4, TameIn
<1> QED BY <1>3, <1>5, Zenon

LEMMA TameInSize ==
  ASSUME NEW s, NEW k, Tame(s, k), NEW n \in Nat PROVE Tame([s EXCEPT !.in.size = n], k)
<1> DEFINE y == [s.in EXCEPT !.size = n]
<1>1. DOMAIN s.in = DOMAIN NoInode /\ RunsOK(s.in.runs) /\ IsSeq(s.in.deep) BY DEF Tame, InodeOK
<1>2. DOMAIN y = DOMAIN NoInode /\ y.deep = s.in.deep /\ y.runs = s.in.runs /\ y.size = n BY <1>1 DEF NoInode
<1>3. [s EXCEPT !.in.size = n] = [s EXCEPT !.in = y] BY Zenon
<1> HIDE DEF y
<1>4. InodeOK(y) BY <1>1, <1>2 DEF InodeOK
<1>5. Tame([s EXCEPT !.in = y], k) BY <1>4, TameIn
<1> QED BY <1>3, <1>5, Zenon

LEMMA ChecksumOK == ASSUME NEW s, NEW v, BlockOK(v) PROVE BlockOK(WithChecksum(s, v))
  BY TameBlocks DEF WithChecksum

LEMMA TameLeaf == ASSUME NEW s, NEW k, Tame(s, k), NEW part PROVE Tame(WriteLeaf(s, part), k)
<1> DEFINE a == AllocBlockNear(s, 0)
<1> DEFINE u == WriteBlock(a, DataAt(a.out), WithChecksum(a, Leaf(part)))
<1> DEFINE q == Append(u.in.deep, a.out)
<1>1. Tame(a, k) BY TameAllocBlock
<1>2. WriteLeaf(s, part) \in {s, a, [u EXCEPT !.in.deep = q]} BY Zenon DEF WriteLeaf, Then
<1> HIDE DEF a
<1>3. Tame(u, k) BY <1>1, TameBlocks, ChecksumOK, TameData
<1>4. IsSeq(u.in.deep) BY <1>3 DEF Tame, InodeOK
<1> HIDE DEF u
<1>5. IsSeq(q) BY <1>4, AppendFacts
<1> HIDE DEF q
<1>6. Tame([u EXCEPT !.in.deep = q], k) BY <1>3, <1>5, TameInDeep
<1> DEFINE z == [u EXCEPT !.in.deep = q]
<1> HIDE DEF z
<1>7. WriteLeaf(s, part) \in {s, a, z} /\ Tame(z, k) BY <1>2, <1>6, Zenon DEF z
<1> QED BY <1>1, <1>7

LEMMA TameAppendBlock ==
  ASSUME NEW s, NEW k, Tame(s, k), NEW b, BlockOK(b) PROVE Tame(AppendBlock(s, b), k)
<1> DEFINE a == AllocBlockNear(s, b.i \div BlocksPerGroup)
<1> DEFINE u == WriteBlock(a, DataAt(a.out), b)
<1> DEFINE q == AddToRuns(u.runs, b.i, a.out)
<1>1. Tame(a, k) BY TameAllocBlock
<1>2. AppendBlock(s, b) \in {s, a, [u EXCEPT !.runs = q]} BY Zenon DEF AppendBlock, Then
<1> HIDE DEF a
<1>3. Tame(u, k) BY <1>1, TameData
<1>4. RunsOK(u.runs) BY <1>3 DEF Tame
<1> HIDE DEF u
<1>5. RunsOK(q) BY <1>4, RunsAdded
<1> HIDE DEF q
<1> DEFINE z == [u EXCEPT !.runs = q]
<1>6. Tame(z, k) BY <1>3, <1>5, TameRuns
<1>7. AppendBlock(s, b) \in {s, a, z} BY <1>2
<1> HIDE DEF z
<1> QED BY <1>1, <1>6, <1>7

LEMMA TameTree == ASSUME NEW s, NEW k, Tame(s, k) PROVE Tame(BuildTree(s), k)
<1> DEFINE n == Len(s.runs)
<1> DEFINE leaves == (n + LeafCap - 1) \div LeafCap
<1> DEFINE Part(l) == SubSeq(s.runs, (l - 1) * LeafCap + 1, Min({l * LeafCap, n}))
<1> DEFINE q == [l \in 1 .. leaves |-> Part(l)]
<1> DEFINE u == [s EXCEPT !.in.runs = s.runs]
<1>0. RunsOK(s.runs) BY DEF Tame
<1>1. BuildTree(s) \in {Done(u), Fail(s), FoldLeft(WriteLeaf, Done(s), q)} BY Zenon DEF BuildTree
<1>2. Tame(u, k) BY <1>0, TameInRuns
<1>3. leaves \in Nat
  <2>1. n \in Nat /\ LeafCap \in Nat \ {0} BY <1>0, SeqFacts, FsopsAssumption DEF RunsOK
  <2> HIDE DEF n
  <2>2. n + LeafCap - 1 \in Nat BY <2>1
  <2> QED BY <2>1, <2>2
<1>4. q = [l \in 1 .. leaves |-> q[l]] OBVIOUS
<1> HIDE DEF leaves, q, u
<1>5. IsSeq(q) BY <1>3, <1>4, FunctionSeq
<1>6. \A t, x : Step("leaf", t, x) = WriteLeaf(t, x) BY DEF Step
<1>7. Keeps("leaf", q, k) BY <1>6, TameLeaf DEF Keeps
<1>8. Tame(Done(s), k) /\ Tame(Fail(s), k) /\ Tame(Done(u), k) BY <1>2, TameDone
<1>9. Tame(Folded("leaf", Done(s), q), k) BY <1>5, <1>7, <1>8, TameFold
<1>10. Tame(FoldLeft(WriteLeaf, Done(s), q), k) BY <1>9, FoldLeftLeaf
<1> QED BY <1>1, <1>8, <1>10

LEMMA TameAppendBlocks ==
  ASSUME NEW s, NEW k, Tame(s, k), NEW c, NEW n \in Nat, NEW heap
  PROVE  Tame(AppendBlocks(s, c, n, heap), k)
<1> DEFINE q == [i \in 1 .. n |-> FileData(c, i - 1)]
<1> DEFINE u == [s EXCEPT !.runs = <<>>]
<1> DEFINE f == FoldLeft(AppendBlock, Done(u), q)
<1>1. AppendBlocks(s, c, n, heap) \in {Fail(s), f, BuildTree(f)} BY Zenon DEF AppendBlocks, Then
<1>2. Tame(Done(u), k) BY EmptyRuns, TameRuns, TameDone
<1>3. q = [i \in 1 .. n |-> q[i]] /\ \A i \in 1 .. n : BlockOK(q[i]) BY TameBlocks
<1> HIDE DEF q, u
<1>4. IsSeq(q) BY <1>3, FunctionSeq
<1>5. Len(q) = n
  <2>1. Len(q) \in Nat /\ DOMAIN q = 1 .. Len(q) BY <1>4, SeqFacts
  <2>2. DOMAIN q = 1 .. n BY <1>3
  <2> QED BY <2>1, <2>2, SameLength
<1>6. \A t, x : Step("append", t, x) = AppendBlock(t, x) BY DEF Step
<1>7. Keeps("append", q, k) BY <1>3, <1>5, <1>6, TameAppendBlock DEF Keeps
<1>8. f = Folded("append", Done(u), q) BY FoldLeftAppend
<1> HIDE DEF f
<1>9. Tame(f, k) BY <1>2, <1>4, <1>7, <1>8, TameFold
<1> QED BY <1>1, <1>9, TameDone, TameTree

----------------------------------------------------------------------------
\* Directories.

LEMMA TameAttach ==
  ASSUME NEW s, NEW k, Tame(s, k), NEW dir, NEW in, InodeOK(in), NEW b
  PROVE  Tame(AttachDirBlock(s, dir, in, b), k)
<1> DEFINE y == [in EXCEPT !.runs = Append(@, Run(in.size, b, 1)), !.size = @ + 1]
<1> DEFINE u == [s EXCEPT !.in = y]
<1>1. AttachDirBlock(s, dir, in, b) \in {Fail(s), SyncGd(WriteInode(u, dir), BlockGroup(b))}
  BY Zenon DEF AttachDirBlock
<1>2. InodeOK(y)
  <2> DEFINE q == Append(in.runs, Run(in.size, b, 1))
  <2>1. RunsOK(q) BY OneRun, RunsAppend DEF InodeOK
  <2>2. DOMAIN y = DOMAIN NoInode /\ y.runs = q /\ y.deep = in.deep /\ y.size = in.size + 1 BY DEF InodeOK, NoInode
  <2> HIDE DEF y, q
  <2> QED BY <2>1, <2>2 DEF InodeOK
<1> HIDE DEF y
<1>3. Tame(u, k) BY <1>2, TameIn
<1> HIDE DEF u
<1>4. Tame(SyncGd(WriteInode(u, dir), BlockGroup(b)), k) BY <1>3, TameInode, TameBits
<1> QED BY <1>1, <1>4, TameDone

LEMMA TameAddDirBlock ==
  ASSUME NEW s, NEW k, Tame(s, k), NEW dir, NEW in, InodeOK(in), NEW e
  PROVE  Tame(AddDirBlock(s, dir, in, e), k)
<1> DEFINE a == AllocBlockNear(s, InodeGroup(dir))
<1> DEFINE u == WriteBlock(a, DataAt(a.out), WithChecksum(a, Dirents(<<e>>)))
<1>1. AddDirBlock(s, dir, in, e) \in {Fail(s), a, AttachDirBlock(u, dir, in, a.out)}
  BY Zenon DEF AddDirBlock, Then
<1>2. Tame(a, k) BY TameAllocBlock
<1> HIDE DEF a
<1>3. Tame(u, k) BY <1>2, TameBlocks, ChecksumOK, TameData
<1> HIDE DEF u
<1>4. Tame(AttachDirBlock(u, dir, in, a.out), k) BY <1>3, TameAttach
<1> QED BY <1>1, <1>2, <1>4, TameDone

LEMMA TameDirAdd ==
  ASSUME NEW s, NEW k, Tame(s, k), NEW dir \in Inodes, NEW e
  PROVE  Tame(DirAddEntry(s, dir, e), k)
<1> DEFINE in == ReadInode(s, dir)
<1>1. InodeOK(in) BY DEF ReadInode, Tame, VolumeOK
<1>2. \/ DirAddEntry(s, dir, e) = Fail(s)
      \/ \E b, q : DirAddEntry(s, dir, e) = WriteBlock(s, DataAt(b), WithChecksum(s, Dirents(q)))
      \/ DirAddEntry(s, dir, e) = AddDirBlock(s, dir, in, e)
  BY Zenon DEF DirAddEntry
<1> HIDE DEF in
<1>3. Tame(AddDirBlock(s, dir, in, e), k) BY <1>1, TameAddDirBlock
<1>4. \A b, q : Tame(WriteBlock(s, DataAt(b), WithChecksum(s, Dirents(q))), k)
  BY TameBlocks, ChecksumOK, TameData
<1> QED BY <1>2, <1>3, <1>4, TameDone

LEMMA TameDirRemove ==
  ASSUME NEW s, NEW k, Tame(s, k), NEW dir, NEW name
  PROVE  Tame(DirRemoveEntry(s, dir, name), k)
<1>1. \/ DirRemoveEntry(s, dir, name) = Fail(s)
      \/ \E b, q : DirRemoveEntry(s, dir, name) = WriteBlock(s, DataAt(b), WithChecksum(s, Dirents(q)))
  BY Zenon DEF DirRemoveEntry
<1>2. \A b, q : Tame(WriteBlock(s, DataAt(b), WithChecksum(s, Dirents(q))), k)
  BY TameBlocks, ChecksumOK, TameData
<1> QED BY <1>1, <1>2, TameDone

----------------------------------------------------------------------------
\* The calls.

LEMMA TameReplace ==
  ASSUME NEW s, NEW k, Tame(s, k), NEW i, NEW c \in Contents, NEW heap \in BOOLEAN
  PROVE  Tame(DoReplace(s, i, c, heap), k)
<1> DEFINE t == Fill(Truncate(s, heap), c, heap)
<1> DEFINE u == [t EXCEPT !.in.size = SizeOf(c)]
<1>1. DoReplace(s, i, c, heap) \in {Fail(s), t, WriteInode(u, i)} BY Zenon DEF DoReplace, Then
<1>2. t \in {Truncate(s, heap), AppendBlocks(Truncate(s, heap), c, SizeOf(c), heap)} BY Zenon DEF Fill
<1>3. SizeOf(c) \in Nat BY CallAssumption
<1>4. Tame(t, k)
  <2> HIDE DEF t
  <2> QED BY <1>2, <1>3, TameTruncate, TameAppendBlocks
<1> HIDE DEF t
<1>5. Tame(u, k) BY <1>3, <1>4, TameInSize
<1> HIDE DEF u
<1> QED BY <1>1, <1>4, <1>5, TameInode, TameDone

LEMMA TameReplaceFile ==
  ASSUME NEW s, NEW k, Tame(s, k), NEW i, NEW c \in Contents, NEW heap \in BOOLEAN
  PROVE  Tame(ReplaceFile(s, i, c, heap), k)
<1> DEFINE t == [s EXCEPT !.in = ReadInode(s, i)]
<1> DEFINE u == DoReplace(t, i, c, heap)
<1>1. \/ ReplaceFile(s, i, c, heap) = Fail(s)
      \/ i \in Inodes /\ ReplaceFile(s, i, c, heap) \in {u, Done(SyncSuperblock(u))}
  BY Zenon DEF ReplaceFile, Then
<1>2. ASSUME i \in Inodes PROVE Tame(u, k)
  <2>1. InodeOK(ReadInode(s, i)) BY <1>2 DEF ReadInode, Tame, VolumeOK
  <2>2. Tame(t, k) BY <2>1, TameIn
  <2> HIDE DEF t
  <2> QED BY <2>2, TameReplace
<1> HIDE DEF u
<1> QED BY <1>1, <1>2, TameDone, TameSync

LEMMA TameUndo == ASSUME NEW s, NEW k, Tame(s, k), NEW i, NEW g PROVE Tame(Undo(s, i, g), k)
  BY TameFreeInode, TameBits, TameDone DEF Undo

LEMMA TameEnter ==
  ASSUME NEW s, NEW k, Tame(s, k), NEW parent \in Inodes, NEW name, NEW i, NEW in, InodeOK(in)
  PROVE  Tame(EnterName(s, parent, name, i, in), k)
<1> DEFINE e == DirAddEntry(s, parent, Entry(name, i))
<1> DEFINE t == [e EXCEPT !.in = in]
<1>1. EnterName(s, parent, name, i, in) \in
        {Undo(Truncate(t, TRUE), i, InodeGroup(parent)), Done(SyncSuperblock(e))}
  BY Zenon DEF EnterName
<1>2. Tame(e, k) BY TameDirAdd
<1> HIDE DEF e
<1>3. Tame(t, k) BY <1>2, TameIn
<1> HIDE DEF t
<1>4. Tame(Undo(Truncate(t, TRUE), i, InodeGroup(parent)), k) BY <1>3, TameTruncate, TameUndo
<1> QED BY <1>1, <1>2, <1>4, TameDone, TameSync

LEMMA TameCreate ==
  ASSUME NEW s, NEW k, Tame(s, k), NEW parent \in Inodes, NEW name, NEW c \in Contents, NEW heap \in BOOLEAN
  PROVE  Tame(CreateFile(s, parent, name, c, heap), k)
<1> DEFINE a == AllocInode(s, InodeGroup(parent))
<1> DEFINE t == [a EXCEPT !.in = NewFile]
<1> DEFINE r == DoReplace(t, a.out, c, heap)
<1>1. CreateFile(s, parent, name, c, heap) \in
        {a, Undo(r, a.out, InodeGroup(parent)), EnterName(r, parent, name, a.out, r.in)}
  BY Zenon DEF CreateFile, Then
<1>2. Tame(a, k) BY TameAllocInode
<1> HIDE DEF a
<1>3. Tame(t, k) BY <1>2, NewInodes, TameIn
<1> HIDE DEF t
<1>4. Tame(r, k) BY <1>3, TameReplace
<1> HIDE DEF r
<1>5. InodeOK(r.in) BY <1>4 DEF Tame
<1>6. Tame(EnterName(r, parent, name, a.out, r.in), k) BY <1>4, <1>5, TameEnter
<1> QED BY <1>1, <1>2, <1>4, <1>6, TameUndo

LEMMA TameExt4Write ==
  ASSUME NEW s, NEW k, Tame(s, k), NEW path, NEW c \in Contents, NEW heap \in BOOLEAN
  PROVE  Tame(Ext4Write(s, path, c, heap), k)
<1> DEFINE p == ResolveParent(s.d, path)
<1> DEFINE i == DirLookup(s.d, p, Last(path))
<1>1. Ext4Write(s, path, c, heap) \in
        {Fail(s), IF p = 0 THEN Fail(s)
                  ELSE IF i # 0 THEN ReplaceFile(s, i, c, heap)
                  ELSE CreateFile(s, p, Last(path), c, heap)}
  BY Zenon DEF Ext4Write
<1>2. p = 0 \/ p \in Inodes BY Zenon DEF ResolveParent, IsDir
<1> HIDE DEF p, i
<1> QED BY <1>1, <1>2, TameDone, TameReplaceFile, TameCreate

LEMMA TameRemove ==
  ASSUME NEW s, NEW k, Tame(s, k), NEW parent, NEW name, NEW i, NEW heap \in BOOLEAN
  PROVE  Tame(RemoveFile(s, parent, name, i, heap), k)
<1> DEFINE t == DirRemoveEntry(s, parent, name)
<1> DEFINE u == [t EXCEPT !.in = ReadInode(s, i)]
<1> DEFINE f == FreeInode(Truncate(u, heap), i)
<1>1. \/ RemoveFile(s, parent, name, i, heap) = Fail(s)
      \/ i \in Inodes /\ RemoveFile(s, parent, name, i, heap) \in {t, Done(SyncSuperblock(SyncGd(f, InodeGroup(i))))}
  BY Zenon DEF RemoveFile, Then
<1>2. Tame(t, k) BY TameDirRemove
<1> HIDE DEF t
<1>3. ASSUME i \in Inodes PROVE Tame(f, k)
  <2>1. InodeOK(ReadInode(s, i)) BY <1>3 DEF ReadInode, Tame, VolumeOK
  <2>2. Tame(u, k) BY <1>2, <2>1, TameIn
  <2> HIDE DEF u
  <2> QED BY <2>2, TameTruncate, TameFreeInode
<1> HIDE DEF f
<1>4. ASSUME i \in Inodes PROVE Tame(Done(SyncSuperblock(SyncGd(f, InodeGroup(i)))), k)
  BY <1>3, <1>4, TameBits, TameSync, TameDone
<1> QED BY <1>1, <1>2, <1>4, TameDone

LEMMA TameExt4Unlink ==
  ASSUME NEW s, NEW k, Tame(s, k), NEW path, NEW heap \in BOOLEAN
  PROVE  Tame(Ext4Unlink(s, path, heap), k)
<1> DEFINE p == ResolveParent(s.d, path)
<1> DEFINE i == DirLookup(s.d, p, Last(path))
<1>1. Ext4Unlink(s, path, heap) \in {Fail(s), RemoveFile(s, p, Last(path), i, heap)}
  BY Zenon DEF Ext4Unlink
<1> HIDE DEF p, i
<1> QED BY <1>1, TameDone, TameRemove

(***************************************************************************)
(* What can be on a disk and on its way there.                              *)
(***************************************************************************)

\* Journal j is that of volume v, and is recognised if that one was.
JournalFit(v, j) == SameLog(j, v[JournalSuper]) /\ (Bogus(j) => Bogus(v[JournalSuper]))
SuperFit(v, sb) ==
  /\ DOMAIN sb = DOMAIN NoSuper /\ sb.journal = v[Super].journal
  /\ RecoverOn(sb) => RecoverOn(v[Super])

\* x may be at place a of a disk that was v at the start.
Fit(v, a, x) ==
  /\ a = Super => SuperFit(v, x)
  /\ a = JournalSuper => JournalFit(v, x)
  /\ \A i \in Inodes : a = InodeAt(i) => InodeOK(x)
  /\ \A b \in Blocks : a = DataAt(b) => BlockOK(x)

DiskFit(v, d) == DOMAIN d = Addresses /\ \A a \in Addresses : Fit(v, a, d[a])
QueueFit(v, w) == IsSeq(w) /\ \A n \in 1 .. Len(w) : Fit(v, w[n][1], w[n][2])

LEMMA DiskFitFacts ==
  ASSUME NEW v \in Volumes, NEW d, DiskFit(v, d)
  PROVE  /\ VolumeOK(d) /\ Sane(d)
         /\ SuperFit(v, d[Super]) /\ JournalFit(v, d[JournalSuper])
<1>1. \A i \in Inodes : InodeAt(i) \in Addresses BY Zenon DEF Addresses
<1>2. SuperFit(v, d[Super]) /\ JournalFit(v, d[JournalSuper]) BY Places DEF DiskFit, Fit
<1>3. VolumeOK(d) BY <1>1, Places DEF DiskFit, Fit, VolumeOK
<1>4. WellFormed(v[JournalSuper]) BY VolumeSane
<1>5. WellFormed(d[JournalSuper]) BY <1>2, <1>4, SameWellFormed DEF JournalFit
<1>6. Sane(d) BY <1>2, <1>5, Places DEF Sane, DiskFit, SuperFit, JournalFit, SameLog
<1> QED BY <1>2, <1>3, <1>6

LEMMA TypedInode == ASSUME NEW x \in AnInode PROVE InodeOK(x)
<1>1. DOMAIN x = DOMAIN NoInode BY DEF AnInode, NoInode
<1>2. x.deep \in Seq(Nat) /\ x.runs \in Seq([first : Nat, start : Nat, count : Nat]) BY DEF AnInode
<1> DEFINE q == x.runs
<1> DEFINE R == [first : Nat, start : Nat, count : Nat]
<1>3. q \in Seq(R) BY <1>2
<1>5. \A r \in R : RunOK(r) BY DEF RunOK
<1> HIDE DEF q, R
<1>4. \A n \in 1 .. Len(q) : RunOK(q[n])
  <2>1. \A n \in 1 .. Len(q) : q[n] \in R BY <1>3
  <2> QED BY <1>5, <2>1
<1>6. IsSeq(q) /\ IsSeq(x.deep) BY <1>2, <1>3 DEF IsSeq
<1>8. x.size \in Nat BY DEF AnInode
<1>7. RunsOK(x.runs) BY <1>4, <1>6 DEF RunsOK, q
<1> QED BY <1>1, <1>6, <1>7, <1>8 DEF InodeOK

LEMMA TypedBlock == ASSUME NEW x, Readable(x) PROVE BlockOK(x)
  BY DEF Readable, BlockOK, IsSeq

LEMMA FirstFit == ASSUME NEW v \in Volumes PROVE DiskFit(v, v)
<1>1. \A i \in Inodes : InodeOK(v[InodeAt(i)]) BY VolumeAssumption, TypedInode
<1>2. \A b \in Blocks : BlockOK(v[DataAt(b)]) BY VolumeAssumption, TypedBlock
<1>3. SuperFit(v, v[Super]) /\ JournalFit(v, v[JournalSuper])
  BY VolumeSane DEF SuperFit, JournalFit, SameLog
<1> QED BY <1>1, <1>2, <1>3, VolumeSane DEF DiskFit, Fit

LEMMA FitStored ==
  ASSUME NEW v, NEW d, DiskFit(v, d), NEW a, NEW x, Fit(v, a, x), NEW e, Stored(d, e, a, x)
  PROVE  DiskFit(v, e)
<1>1. DOMAIN e = Addresses /\ \A y \in Addresses : e[y] = IF y = a THEN x ELSE d[y]
  BY DEF Stored, DiskFit
<1>2. \A y \in Addresses : Fit(v, y, e[y]) BY <1>1 DEF DiskFit
<1> QED BY <1>1, <1>2 DEF DiskFit

LEMMA FitEmpty == ASSUME NEW v PROVE QueueFit(v, <<>>)
<1> DEFINE u == <<>>
<1>1. IsSeq(u) /\ Len(u) = 0 BY EmptySeqFacts
<1> HIDE DEF u
<1>2. QueueFit(v, u) BY <1>1 DEF QueueFit
<1> QED BY <1>2 DEF u

LEMMA FitAppend ==
  ASSUME NEW v, NEW w, QueueFit(v, w), NEW a, NEW x, Fit(v, a, x)
  PROVE  QueueFit(v, Append(w, <<a, x>>))
<1> DEFINE e == <<a, x>>
<1>0. e[1] = a /\ e[2] = x OBVIOUS
<1> HIDE DEF e
<1>1. IsSeq(w) BY DEF QueueFit
<1>2. /\ IsSeq(Append(w, e)) /\ Len(Append(w, e)) = Len(w) + 1
      /\ Append(w, e)[Len(w) + 1] = e /\ \A n \in 1 .. Len(w) : Append(w, e)[n] = w[n]
  BY <1>1, AppendFacts
<1>3. Len(w) \in Nat BY <1>1, SeqFacts
<1>4. ASSUME NEW n \in 1 .. Len(w) + 1 PROVE Fit(v, Append(w, e)[n][1], Append(w, e)[n][2])
  <2>1. CASE n \in 1 .. Len(w) BY <1>2, <2>1 DEF QueueFit
  <2>2. CASE n = Len(w) + 1 BY <1>0, <1>2, <2>2
  <2> QED BY <1>3, <2>1, <2>2
<1>5. QueueFit(v, Append(w, e)) BY <1>2, <1>4 DEF QueueFit
<1> QED BY <1>5 DEF e

LEMMA FitTail ==
  ASSUME NEW v, NEW w, QueueFit(v, w), w # <<>>
  PROVE  QueueFit(v, Tail(w)) /\ Fit(v, w[1][1], w[1][2])
<1> DEFINE u == Tail(w)
<1>0. IsSeq(w) BY DEF QueueFit
<1>1. /\ IsSeq(u) /\ Len(u) = Len(w) - 1 /\ Len(w) \in Nat \ {0}
      /\ \A n \in 1 .. Len(w) - 1 : u[n] = w[n + 1]
  BY <1>0, TailFacts
<1> HIDE DEF u
<1>2. ASSUME NEW n \in 1 .. Len(u) PROVE Fit(v, u[n][1], u[n][2])
  <2>1. n + 1 \in 1 .. Len(w) /\ u[n] = w[n + 1] BY <1>1
  <2> QED BY <2>1 DEF QueueFit
<1>3. 1 \in 1 .. Len(w) BY <1>1
<1> QED BY <1>1, <1>2, <1>3 DEF QueueFit, u

LEMMA TameFits ==
  ASSUME NEW v, NEW k, k.journal = v[Super].journal, RecoverOn(k) => RecoverOn(v[Super]),
         NEW w, TameWrites(w, k)
  PROVE  QueueFit(v, w)
<1>1. \A a, x : TameWrite(a, x, k) => Fit(v, a, x) BY DEF TameWrite, Fit, SuperFit, Features, RecoverOn
<1> QED BY <1>1 DEF TameWrites, QueueFit

\* The writes of a mount.
LEMMA LoggedFit ==
  ASSUME NEW v \in Volumes, NEW e \in Logged(v[JournalSuper]) PROVE Fit(v, e[1], e[2])
<1> DEFINE j == v[JournalSuper]
<1>1. PICK x \in LiveTags(j) : e = WriteOf(j, x) BY DEF Logged
<1>2. e[1] = x[2].to /\ e[2] = LoggedContent(j, x) BY <1>1 DEF WriteOf
<1>3. WellFormed(j) /\ Loggable(v, e[1], e[2]) BY <1>2, VolumeAssumption
<1>4. e[1] # JournalSuper BY <1>2, <1>3, LiveTagOf
<1>5. e[1] = Super => SuperFit(v, e[2])
  <2>1. {"journal", "incompat"} \subseteq DOMAIN NoSuper \ {"blocks", "inodes"} BY DEF NoSuper
  <2> QED BY <1>3, <2>1 DEF Loggable, SuperFit, RecoverOn
<1>6. \A i \in Inodes : e[1] = InodeAt(i) => InodeOK(e[2]) BY <1>3, TypedInode DEF Loggable
<1>7. \A b \in Blocks : e[1] = DataAt(b) => BlockOK(e[2]) BY <1>3, TypedBlock DEF Loggable
<1> QED BY <1>4, <1>5, <1>6, <1>7 DEF Fit

LEMMA SuperFits == ASSUME NEW v, NEW sb, SuperFit(v, sb) PROVE Fit(v, Super, sb)
  BY DEF Fit, Super, JournalSuper, InodeAt, DataAt

LEMMA JournalFits == ASSUME NEW v, NEW j, JournalFit(v, j) PROVE Fit(v, JournalSuper, j)
  BY DEF Fit, Super, JournalSuper, InodeAt, DataAt

LEMMA ReplayFits ==
  ASSUME NEW v \in Volumes, NEW d, DiskFit(v, d), NEW u, Replayed(d[JournalSuper], u)
  PROVE  QueueFit(v, u)
<1>1. SameLog(d[JournalSuper], v[JournalSuper]) BY DiskFitFacts DEF JournalFit
<1>2. Replayed(v[JournalSuper], u) BY <1>1, SameReplayed
<1>3. u \in Seq(Logged(v[JournalSuper])) BY <1>2 DEF Replayed
<1>4. IsSeq(u) /\ \A n \in 1 .. Len(u) : u[n] \in Logged(v[JournalSuper]) BY <1>3 DEF IsSeq
<1> QED BY <1>4, LoggedFit DEF QueueFit

LEMMA MountFits ==
  ASSUME NEW v \in Volumes, NEW d, DiskFit(v, d), NEW w, MountWrites(d, w)
  PROVE  QueueFit(v, w)
<1>0. SuperFit(v, d[Super]) /\ JournalFit(v, d[JournalSuper]) /\ Sane(d) BY DiskFitFacts
<1>1. CASE SyncOnly(d, w)
  <2>1. w = Append(<<>>, <<Super, d[Super]>>) BY <1>1 DEF SyncOnly
  <2>2. QueueFit(v, Append(<<>>, <<Super, d[Super]>>)) BY <1>0, FitEmpty, SuperFits, FitAppend
  <2> QED BY <2>1, <2>2, Zenon
<1>2. CASE ReplayOnly(d, w)
  <2>1. PICK u : Replayed(d[JournalSuper], u) /\ w = Append(u, <<Super, d[Super]>>)
    BY <1>2, Zenon DEF ReplayOnly
  <2>2. QueueFit(v, u) BY <2>1, ReplayFits
  <2>3. QueueFit(v, Append(u, <<Super, d[Super]>>)) BY <1>0, <2>2, SuperFits, FitAppend
  <2> QED BY <2>1, <2>3, Zenon
<1>3. CASE ReplayAndReset(d, w)
  <2>1. PICK u, x, sb : /\ Replayed(d[JournalSuper], u) /\ DidReset(u, d[JournalSuper], x, sb)
                        /\ DOMAIN sb = DOMAIN NoSuper /\ ~RecoverOn(sb) /\ sb.journal = d[Super].journal
                        /\ w = Append(x, <<Super, sb>>)
    BY <1>3, Zenon DEF ReplayAndReset
  <2>2. PICK k : /\ SameLog(k, d[JournalSuper]) /\ k.order = d[JournalSuper].order /\ k.start = 0
                 /\ x = Append(Append(u, <<JournalSuper, k>>), <<Super, sb>>)
    BY <2>1, Zenon DEF DidReset
  <2>3. SuperFit(v, sb) BY <1>0, <2>1 DEF SuperFit
  <2>4. JournalFit(v, k)
    <3>1. SameLog(k, v[JournalSuper]) BY <1>0, <2>2 DEF JournalFit, SameLog
    <3>2. Len(d[JournalSuper].log) \in Nat BY <1>0 DEF Sane, WellFormed
    <3>3. Bogus(k) => Bogus(d[JournalSuper]) BY <2>2, <3>2 DEF Bogus, SameLog
    <3> QED BY <1>0, <3>1, <3>3 DEF JournalFit
  <2>5. QueueFit(v, u) BY <2>1, ReplayFits
  <2>6. QueueFit(v, Append(u, <<JournalSuper, k>>)) BY <2>4, <2>5, JournalFits, FitAppend
  <2>7. QueueFit(v, Append(Append(u, <<JournalSuper, k>>), <<Super, sb>>))
    <3> DEFINE y == Append(u, <<JournalSuper, k>>)
    <3>1. QueueFit(v, y) BY <2>6
    <3> HIDE DEF y
    <3>2. QueueFit(v, Append(y, <<Super, sb>>)) BY <2>3, <3>1, SuperFits, FitAppend
    <3> QED BY <3>2 DEF y
  <2>8. QueueFit(v, x) BY <2>2, <2>7, Zenon
  <2>9. QueueFit(v, Append(x, <<Super, sb>>)) BY <2>3, <2>8, SuperFits, FitAppend
  <2> QED BY <2>1, <2>9, Zenon
<1> QED BY <1>1, <1>2, <1>3 DEF MountWrites

\* The superblock on the disk has, or will have once the writes are done, the
\* features of sb.
InStep(d, w, sb) ==
  \/ /\ d[Super].incompat = sb.incompat
     /\ \A n \in 1 .. Len(w) : w[n][1] = Super => w[n][2].incompat = sb.incompat
  \/ w # <<>> /\ w[Len(w)] = <<Super, sb>>

LEMMA InStepTail ==
  ASSUME NEW d, Super \in DOMAIN d, NEW w, IsSeq(w), w # <<>>, NEW sb, InStep(d, w, sb),
         NEW e, Stored(d, e, w[1][1], w[1][2])
  PROVE  InStep(e, Tail(w), sb)
<1> DEFINE u == Tail(w)
<1>1. /\ IsSeq(u) /\ Len(u) = Len(w) - 1 /\ Len(w) \in Nat \ {0}
      /\ \A n \in 1 .. Len(w) - 1 : u[n] = w[n + 1]
  BY TailFacts
<1>2. e[Super] = IF Super = w[1][1] THEN w[1][2] ELSE d[Super] BY DEF Stored
<1> HIDE DEF u
<1>3. CASE /\ d[Super].incompat = sb.incompat
           /\ \A n \in 1 .. Len(w) : w[n][1] = Super => w[n][2].incompat = sb.incompat
  <2>1. e[Super].incompat = sb.incompat BY <1>1, <1>2, <1>3
  <2>2. ASSUME NEW n \in 1 .. Len(u), u[n][1] = Super PROVE u[n][2].incompat = sb.incompat
    <3>1. n + 1 \in 1 .. Len(w) /\ u[n] = w[n + 1] BY <1>1
    <3> QED BY <1>3, <2>2, <3>1
  <2> QED BY <2>1, <2>2 DEF InStep, u
<1>4. CASE w[Len(w)] = <<Super, sb>> /\ Len(w) = 1
  <2> DEFINE f == <<Super, sb>>
  <2>0. f[1] = Super /\ f[2] = sb OBVIOUS
  <2> HIDE DEF f
  <2>1. w[1] = f BY <1>4 DEF f
  <2>2. e[Super] = sb BY <1>2, <2>0, <2>1
  <2>3. Len(u) = 0 BY <1>1, <1>4
  <2>4. \A n \in 1 .. Len(u) : FALSE BY <2>3
  <2> QED BY <2>2, <2>4 DEF InStep, u
<1>5. CASE w[Len(w)] = <<Super, sb>> /\ Len(w) # 1
  <2> DEFINE f == <<Super, sb>>
  <2> HIDE DEF f
  <2>0. w[Len(w)] = f BY <1>5 DEF f
  <2>1. Len(u) \in 1 .. Len(w) - 1 /\ Len(u) + 1 = Len(w) BY <1>1, <1>5
  <2>2. u[Len(u)] = f BY <1>1, <2>0, <2>1
  <2>3. u # <<>> BY <2>1, EmptySeqFacts
  <2> QED BY <2>2, <2>3 DEF InStep, u, f
<1> QED BY <1>3, <1>4, <1>5 DEF InStep

(***************************************************************************)
(* A mounted volume has no journal left.                                    *)
(***************************************************************************)

\* Why RECOVER may be on in a mounted volume: a mount met a fault, or the
\* journal cannot be read or is not there.
Excused ==
  \/ hist.skipped \/ call.fault \in {"replay", "reset"}
  \/ Bogus(first[JournalSuper]) \/ ~first[Super].journal

Mounted == e4.dev
MemoryOK == DOMAIN e4 = {"dev", "writable", "sb", "gd"} /\ DOMAIN e4.sb = DOMAIN NoSuper

\* What is on the disk and on its way there fits the volume of the start; the
\* features in memory are those the disk has or will have; and RECOVER is on in
\* memory only for one of the reasons above.
MountInv ==
  /\ first \in Volumes /\ DOMAIN hist = HistFields
  /\ DiskFit(first, disk) /\ QueueFit(first, wq) /\ MemoryOK
  /\ Idle => wq = <<>> /\ call.fault = NONE
  /\ Mounted => /\ e4.sb.journal = first[Super].journal
                /\ InStep(disk, wq, e4.sb)
                /\ RecoverOn(e4.sb) => Excused

LEMMA UnmountedFacts ==
  /\ DOMAIN Unmounted = {"dev", "writable", "sb", "gd"} /\ DOMAIN Unmounted.sb = DOMAIN NoSuper
  /\ Unmounted.dev = FALSE
<1>1. DOMAIN Unmounted = {"dev", "writable", "sb", "gd"} /\ Unmounted.sb = NoSuper BY DEF Unmounted
<1>2. Unmounted.dev = FALSE BY Zenon DEF Unmounted
<1> QED BY <1>1, <1>2

LEMMA MountInit == Init => MountInv
<1> SUFFICES ASSUME Init PROVE MountInv OBVIOUS
<1>1. disk \in Volumes /\ first = disk /\ call = NoCall /\ wq = <<>> /\ e4 = Unmounted BY DEF Init
<1>2. DOMAIN hist = HistFields BY DEF Init, HistFields
<1>3. call.fault = NONE BY <1>1 DEF NoCall
<1>4. MemoryOK BY <1>1, UnmountedFacts DEF MemoryOK
<1>5. ~Mounted BY <1>1, UnmountedFacts DEF Mounted
<1>6. DiskFit(first, disk) /\ QueueFit(first, wq) BY <1>1, FirstFit, FitEmpty
<1> QED BY <1>1, <1>2, <1>3, <1>4, <1>5, <1>6 DEF MountInv

\* The state in which a call begins.
LEMMA NowTame == ASSUME MountInv PROVE Tame(Now, e4.sb)
<1> DEFINE n == Now
<1>1. /\ DOMAIN n = StateFields /\ n.d = disk /\ n.m = e4 /\ n.w = <<>>
      /\ n.in = NoInode /\ n.runs = <<>>
  BY DEF Now, StateFields
<1> HIDE DEF n
<1>2. MemoryOK BY DEF MountInv
<1>3. IsState(n) BY <1>1, <1>2, EmptySeqFacts DEF IsState, StateFields, MemoryOK
<1>4. Features(n.m.sb, e4.sb) BY <1>1, <1>2 DEF Features, MemoryOK
<1>5. VolumeOK(n.d) BY <1>1, DiskFitFacts DEF MountInv
<1>6. TameWrites(n.w, e4.sb)
  <2> DEFINE u == <<>>
  <2>1. IsSeq(u) /\ Len(u) = 0 /\ n.w = u BY <1>1, EmptySeqFacts
  <2> HIDE DEF u
  <2> QED BY <2>1 DEF TameWrites
<1>7. InodeOK(n.in) /\ RunsOK(n.runs) BY <1>1, NewInodes, EmptyRuns
<1>8. Tame(n, e4.sb) BY <1>3, <1>4, <1>5, <1>6, <1>7 DEF Tame
<1> QED BY <1>8 DEF n

\* A call that changes files, as it begins.
LEMMA CallKeeps ==
  ASSUME MountInv, NEW s, Tame(Now, e4.sb) => Tame(s, e4.sb), NEW c,
         Begin(s, c), Mounted, call'.op # NONE
  PROVE  MountInv'
<1>0. first \in Volumes /\ DOMAIN hist = HistFields /\ DiskFit(first, disk) BY DEF MountInv
<1>1. e4' = s.m /\ wq' = s.w /\ disk' = disk /\ first' = first /\ Idle BY DEF Begin
<1>2. DOMAIN hist' = DOMAIN hist /\ hist'.skipped = hist.skipped
  BY <1>0 DEF Begin, HistFields
<1>3. Tame(Now, e4.sb) BY NowTame
<1>4. Tame(s, e4.sb) BY <1>3
<1>5. /\ e4.sb.journal = first[Super].journal /\ InStep(disk, wq, e4.sb)
      /\ RecoverOn(e4.sb) => Excused
  BY <1>1 DEF MountInv
<1>6. IsState(s) /\ Features(s.m.sb, e4.sb) /\ TameWrites(s.w, e4.sb) BY <1>4 DEF Tame
<1>7. QueueFit(first, s.w)
  <2>0. wq = <<>> BY <1>1 DEF MountInv
  <2>1. disk[Super].incompat = e4.sb.incompat BY <1>5, <2>0 DEF InStep
  <2>2. RecoverOn(e4.sb) => RecoverOn(first[Super]) BY <1>0, <2>1, DiskFitFacts DEF SuperFit, RecoverOn
  <2> QED BY <1>5, <1>6, <2>2, TameFits
<1>8. MemoryOK' BY <1>1, <1>6 DEF MemoryOK, IsState
<1>9. s.m.sb.journal = first[Super].journal /\ s.m.sb.incompat = e4.sb.incompat
  BY <1>5, <1>6 DEF Features
<1>10. InStep(disk, s.w, s.m.sb)
  <2>1. wq = <<>> BY <1>1 DEF MountInv
  <2>2. disk[Super].incompat = e4.sb.incompat BY <1>5, <2>1 DEF InStep
  <2>3. \A n \in 1 .. Len(s.w) : s.w[n][1] = Super => s.w[n][2].incompat = e4.sb.incompat
    BY <1>6 DEF TameWrites, TameWrite, Features
  <2> QED BY <1>9, <2>2, <2>3 DEF InStep
<1>11. RecoverOn(s.m.sb) => hist.skipped \/ Bogus(first[JournalSuper]) \/ ~first[Super].journal
  <2>1. RecoverOn(s.m.sb) => RecoverOn(e4.sb) BY <1>9 DEF RecoverOn
  <2> QED BY <1>1, <1>5, <2>1 DEF Excused, NONE, MountInv
<1>12. RecoverOn(e4'.sb) => Excused' BY <1>1, <1>2, <1>11 DEF Excused
<1>13. ~Idle' BY DEF Idle
<1> QED BY <1>0, <1>1, <1>2, <1>7, <1>8, <1>9, <1>10, <1>12, <1>13 DEF MountInv

LEMMA MountStep == ASSUME MountInv, Mount PROVE MountInv'
<1>0. first \in Volumes /\ DOMAIN hist = HistFields /\ DiskFit(first, disk) /\ MemoryOK BY DEF MountInv
<1>1. PICK f \in MountFaults :
        Begin(Ext4Mount(Now, f), [NoCall EXCEPT !.op = "mount", !.fault = f])
  BY Zenon DEF Mount
<1> DEFINE r == Ext4Mount(Now, f)
<1>2. e4' = r.m /\ wq' = r.w /\ disk' = disk /\ first' = first /\ Idle BY <1>1 DEF Begin
<1>3. call'.op = "mount" /\ call'.fault = f
  <2> DEFINE c == [NoCall EXCEPT !.op = "mount", !.fault = f]
  <2>1. DOMAIN c = DOMAIN NoCall /\ c.op = "mount" /\ c.fault = f BY DEF NoCall
  <2> HIDE DEF c, r
  <2>2. Begin(r, c) BY <1>1 DEF r, c
  <2>3. call' = [c EXCEPT !.rc = r.rc] BY <2>2 DEF Begin
  <2> QED BY <2>1, <2>3 DEF NoCall
<1>4. DOMAIN hist' = DOMAIN hist /\ hist'.skipped = hist.skipped
  BY <1>0, <1>1 DEF Begin, HistFields
<1>5. ~Idle' BY <1>3 DEF Idle, NONE
<1>6. DOMAIN Now = StateFields /\ Now.w = <<>> /\ Now.d = disk /\ Now.m = e4 BY DEF Now, StateFields
<1>7. Sane(disk) /\ SuperFit(first, disk[Super]) /\ JournalFit(first, disk[JournalSuper])
  BY <1>0, DiskFitFacts
<1> HIDE DEF r
<1>8. \/ HasDevice(Now) /\ r.m = e4 /\ r.w = <<>>
      \/ r.m = Unmounted /\ r.w = <<>>
      \/ MountedAs(disk, f, r)
  <2>1. r = Ext4Mount(Now, f) BY DEF r
  <2> QED BY <1>6, <1>7, <2>1, MountFacts
<1>9. wq = <<>> /\ call.fault = NONE BY <1>2 DEF MountInv
<1>10. CASE HasDevice(Now) /\ r.m = e4 /\ r.w = <<>>
  <2>1. Mounted BY <1>6, <1>10 DEF HasDevice, Mounted
  <2>2. e4' = e4 /\ wq' = wq BY <1>2, <1>9, <1>10
  <2>3. e4.sb.journal = first[Super].journal /\ InStep(disk, wq, e4.sb) /\ (RecoverOn(e4.sb) => Excused)
    BY <2>1 DEF MountInv
  <2>4. Excused => Excused' BY <1>2, <1>4, <1>9 DEF Excused, NONE
  <2>5. MemoryOK' /\ QueueFit(first, wq) BY <1>0, <2>2 DEF MemoryOK, MountInv
  <2> QED BY <1>0, <1>2, <1>4, <1>5, <2>2, <2>3, <2>4, <2>5 DEF MountInv
<1>11. CASE r.m = Unmounted /\ r.w = <<>>
  <2>1. ~Mounted' /\ MemoryOK' BY <1>2, <1>11, UnmountedFacts DEF Mounted, MemoryOK
  <2>2. QueueFit(first, wq') BY <1>2, <1>11, FitEmpty
  <2> QED BY <1>0, <1>2, <1>4, <1>5, <2>1, <2>2 DEF MountInv
<1>12. CASE MountedAs(disk, f, r)
  <2>1. MountWrites(disk, r.w) /\ SyncedLast(r) /\ IsState(r) /\ r.m.sb.journal = disk[Super].journal
    BY <1>12 DEF MountedAs
  <2>2. QueueFit(first, r.w) BY <1>0, <2>1, MountFits
  <2>3. MemoryOK' BY <1>2, <2>1 DEF MemoryOK, IsState
  <2>4. r.m.sb.journal = first[Super].journal BY <1>7, <2>1 DEF SuperFit
  <2>5. InStep(disk, r.w, r.m.sb)
    <3> DEFINE e == <<Super, r.m.sb>>
    <3> HIDE DEF e
    <3>1. PICK u : IsSeq(u) /\ r.w = Append(u, e) BY <2>1, Zenon DEF SyncedLast, e
    <3>2. Len(u) \in Nat /\ Len(r.w) = Len(u) + 1 /\ r.w[Len(u) + 1] = e BY <3>1, AppendFacts, SeqFacts
    <3>3. r.w # <<>> /\ r.w[Len(r.w)] = e BY <3>2, EmptySeqFacts
    <3> QED BY <3>3, Zenon DEF InStep, e
  <2>6. RecoverOn(r.m.sb) =>
          f \in {"replay", "reset"} \/ Bogus(first[JournalSuper]) \/ ~first[Super].journal
    BY <1>7, <1>12 DEF MountedAs, SuperFit, JournalFit
  <2>7. RecoverOn(e4'.sb) => Excused' BY <1>2, <1>3, <2>6 DEF Excused
  <2> QED BY <1>0, <1>2, <1>4, <1>5, <2>2, <2>3, <2>4, <2>5, <2>7 DEF MountInv
<1> QED BY <1>8, <1>10, <1>11, <1>12

LEMMA MountNext == MountInv /\ [Next]_vars => MountInv'
<1> SUFFICES ASSUME MountInv, [Next]_vars PROVE MountInv' OBVIOUS
<1>0. /\ first \in Volumes /\ DOMAIN hist = HistFields
      /\ DiskFit(first, disk) /\ QueueFit(first, wq) /\ MemoryOK
  BY DEF MountInv
<1>1. CASE Mount BY <1>1, MountStep
<1>2. CASE Write
  <2>1. PICK p \in Paths, c \in Contents, heap \in BOOLEAN :
          Begin(Ext4Write(Now, p, c, heap), Writing(p, c, ResolveFull(disk, p), heap))
    BY <1>2 DEF Write
  <2>2. call'.op # NONE BY <2>1, CallOps DEF Begin, NONE
  <2>3. Mounted BY <1>2 DEF Write, Mounted
  <2>4. Tame(Now, e4.sb) => Tame(Ext4Write(Now, p, c, heap), e4.sb) BY TameExt4Write
  <2> QED BY <2>1, <2>2, <2>3, <2>4, CallKeeps
<1>3. CASE Unlink
  <2>1. PICK p \in Paths, heap \in BOOLEAN :
          Begin(Ext4Unlink(Now, p, heap), Calling("unlink", p, ResolveFull(disk, p), heap))
    BY <1>3 DEF Unlink
  <2>2. call'.op # NONE BY <2>1, CallOps DEF Begin, NONE
  <2>3. Mounted BY <1>3 DEF Unlink, Mounted
  <2>4. Tame(Now, e4.sb) => Tame(Ext4Unlink(Now, p, heap), e4.sb) BY TameExt4Unlink
  <2> QED BY <2>1, <2>2, <2>3, <2>4, CallKeeps
<1>4. CASE WriteOut
  <2>1. /\ wq # <<>> /\ wq' = Tail(wq) /\ call' = call /\ first' = first /\ e4' = e4
    BY <1>4 DEF WriteOut
  <2>2. Stored(disk, disk', wq[1][1], wq[1][2]) BY <1>4 DEF WriteOut, Stored
  <2>3. DOMAIN hist' = DOMAIN hist /\ hist'.skipped = hist.skipped
    BY <1>0, <1>4 DEF WriteOut, HistFields
  <2>4. QueueFit(first, Tail(wq)) /\ Fit(first, wq[1][1], wq[1][2]) BY <1>0, <2>1, FitTail
  <2>5. DiskFit(first, disk') BY <1>0, <2>2, <2>4, FitStored
  <2>6. ~Idle /\ ~Idle' BY <2>1 DEF MountInv, Idle
  <2>7. MemoryOK' BY <1>0, <2>1 DEF MemoryOK
  <2>8. ASSUME Mounted PROVE InStep(disk', wq', e4.sb)
    <3>1. InStep(disk, wq, e4.sb) BY <2>8 DEF MountInv
    <3>2. IsSeq(wq) /\ Super \in DOMAIN disk BY <1>0, Places DEF QueueFit, DiskFit
    <3> QED BY <2>1, <2>2, <3>1, <3>2, InStepTail
  <2>9. Excused => Excused' BY <2>1, <2>3 DEF Excused
  <2>10. Mounted' <=> Mounted BY <2>1 DEF Mounted
  <2> QED BY <1>0, <2>1, <2>3, <2>4, <2>5, <2>6, <2>7, <2>8, <2>9, <2>10 DEF MountInv
<1>5. CASE Return
  <2>1. /\ disk' = disk /\ first' = first /\ call' = NoCall /\ wq = <<>> /\ wq' = wq /\ e4' = e4
    BY <1>5 DEF Return
  <2>2. /\ DOMAIN hist' = DOMAIN hist /\ (hist.skipped => hist'.skipped)
        /\ call.fault \in {"replay", "reset"} /\ RecoverOn(disk[Super]) => hist'.skipped
    BY <1>0, <1>5 DEF Return, HistFields, RecoverOn
  <2>3. call'.fault = NONE BY <2>1 DEF NoCall
  <2>4. MemoryOK' BY <1>0, <2>1 DEF MemoryOK
  <2>5. Mounted' <=> Mounted BY <2>1 DEF Mounted
  <2>6. ASSUME Mounted, RecoverOn(e4.sb) PROVE Excused'
    <3>1. InStep(disk, wq, e4.sb) /\ Excused BY <2>6 DEF MountInv
    <3>2. disk[Super].incompat = e4.sb.incompat BY <2>1, <3>1 DEF InStep
    <3>3. RecoverOn(disk[Super]) BY <2>6, <3>2 DEF RecoverOn
    <3> QED BY <2>1, <2>2, <3>1, <3>3 DEF Excused
  <2> QED BY <1>0, <2>1, <2>2, <2>3, <2>4, <2>5, <2>6 DEF MountInv
<1>6. CASE Cut
  <2>1. disk' = disk /\ first' = first /\ call' = NoCall /\ wq' = <<>> /\ e4' = Unmounted BY <1>6 DEF Cut
  <2>2. DOMAIN hist' = DOMAIN hist BY <1>0, <1>6 DEF Cut, HistFields
  <2>3. call'.fault = NONE BY <2>1 DEF NoCall
  <2>4. ~Mounted' /\ MemoryOK' BY <2>1, UnmountedFacts DEF Mounted, MemoryOK
  <2>5. QueueFit(first, wq') BY <2>1, FitEmpty
  <2> QED BY <1>0, <2>1, <2>2, <2>3, <2>4, <2>5 DEF MountInv
<1>7. CASE UNCHANGED vars
  BY <1>7 DEF vars, MountInv, MemoryOK, Idle, Mounted, Excused
<1> QED BY <1>1, <1>2, <1>3, <1>4, <1>5, <1>6, <1>7 DEF Next

LEMMA RecoversWhenInvariant == MountInv => MountRecovers
<1> SUFFICES ASSUME MountInv, Idle, Mounted, ~hist.skipped, first[Super].journal,
                    ~Bogus(first[JournalSuper]), RecoverOn(disk[Super])
    PROVE  FALSE
  BY Zenon DEF MountRecovers, Mounted, RecoverOn
<1>1. wq = <<>> /\ call.fault = NONE /\ InStep(disk, wq, e4.sb) /\ (RecoverOn(e4.sb) => Excused)
  BY DEF MountInv
<1>2. disk[Super].incompat = e4.sb.incompat BY <1>1 DEF InStep
<1>3. Excused BY <1>1, <1>2 DEF RecoverOn
<1> QED BY <1>1, <1>3 DEF Excused, NONE

\* Whatever is written, unlinked and cut, a volume that is mounted, from mounts
\* that met no fault, has no journal left to apply, if ext4_mount could read it
\* (e4_journal_replay and its reset; no call sets RECOVER again).
THEOREM MountedIsRecovered == Spec => []MountRecovers
<1>1. Spec => []MountInv BY MountInit, MountNext, PTL DEF Spec
<1> QED BY <1>1, RecoversWhenInvariant, PTL

(***************************************************************************)
(* Free counts.  d is a disk, n the number of power cuts it has seen.        *)
(***************************************************************************)

LEMMA GroupBounds ==
  /\ \A b \in Blocks : BlockGroup(b) \in Groups
  /\ \A i \in Inodes : InodeGroup(i) \in Groups
<1>1. ASSUME NEW P \in Nat \ {0}, NEW b \in 1 .. GroupCount * P PROVE (b - 1) \div P \in Groups
  <2> DEFINE q == (b - 1) \div P
  <2>0. GroupCount \in Nat \ {0} BY GeometryAssumption
  <2>1. b \in Int /\ b - 1 \in Nat /\ GroupCount * P \in Nat /\ b - 1 < GroupCount * P BY <2>0
  <2>2. q \in Nat /\ q * P <= b - 1 /\ q * P \in Nat BY <2>1
  <2> HIDE DEF q
  <2>3. ~ GroupCount <= q
    <3> SUFFICES ASSUME GroupCount <= q PROVE FALSE OBVIOUS
    <3>1. GroupCount * P <= q * P BY <2>0, <2>2
    <3> QED BY <2>1, <2>2, <3>1
  <2>4. q \in Groups BY <2>0, <2>2, <2>3 DEF Groups
  <2> QED BY <2>4 DEF q
<1> QED BY <1>1, GeometryAssumption DEF Blocks, Inodes, BlockGroup, InodeGroup

LEMMA GroupsFromIn == ASSUME NEW h \in Int, NEW i \in 1 .. GroupCount PROVE GroupsFrom(h)[i] \in Groups
<1>0. GroupCount \in Nat \ {0} BY GeometryAssumption
<1>1. GroupsFrom(h)[i] = (h + i - 1) % GroupCount BY DEF GroupsFrom
<1> QED BY <1>0, <1>1 DEF Groups

\* A non-empty set of blocks, inodes or positions has a first element.
LEMMA LeastIn == ASSUME NEW S, S \subseteq Nat, S # {} PROVE Min(S) \in S
<1>1. \E m \in S : \A x \in S : ~ x < m
  <2> DEFINE less == {ss \in Nat \X Nat : ss[1] < ss[2]}
  <2>1. IsWellFoundedOn(less, Nat) BY NatLessThanWellFounded DEF OpToRel
  <2>2. \A x, m \in Nat : x < m => <<x, m>> \in less OBVIOUS
  <2> HIDE DEF less
  <2>3. \E m \in S : \A x \in S : <<x, m>> \notin less BY <2>1, WFMin, Zenon
  <2> QED BY <2>2, <2>3
<1>2. \E m \in S : \A x \in S : m <= x BY <1>1
<1> QED BY <1>2 DEF Min

\* What is free on disk d, by its bitmaps.
BlockRoom(d, g) == {b \in Blocks : BlockGroup(b) = g} \ d[BlockBitmap(g)]
AllBlockRoom(d) == {b \in Blocks : b \in BlockRoom(d, BlockGroup(b))}
Bits(d, g) ==
  IF ~d[Desc(g)].uninit THEN d[InodeBitmap(g)] ELSE IF g = 0 THEN 1 .. FirstIno - 1 ELSE {}
RoomForInodes(d, g) == {i \in Inodes : InodeGroup(i) = g} \ Bits(d, g)
AllInodeRoom(d) == {i \in Inodes : i \in RoomForInodes(d, InodeGroup(i))}

LEMMA RoomFinite ==
  ASSUME NEW d, NEW g
  PROVE  /\ IsFiniteSet(BlockRoom(d, g)) /\ IsFiniteSet(AllBlockRoom(d))
         /\ IsFiniteSet(RoomForInodes(d, g)) /\ IsFiniteSet(AllInodeRoom(d))
<1>1. GroupCount * BlocksPerGroup \in Int /\ GroupCount * InodesPerGroup \in Int BY GeometryAssumption
<1>2. IsFiniteSet(Blocks) /\ IsFiniteSet(Inodes) BY <1>1, FS_Interval DEF Blocks, Inodes
<1>3. /\ BlockRoom(d, g) \subseteq Blocks /\ AllBlockRoom(d) \subseteq Blocks
      /\ RoomForInodes(d, g) \subseteq Inodes /\ AllInodeRoom(d) \subseteq Inodes
  BY DEF BlockRoom, AllBlockRoom, RoomForInodes, AllInodeRoom
<1> QED BY <1>2, <1>3, FS_Subset

\* One element more or less.
LEMMA OneLess ==
  ASSUME NEW S, IsFiniteSet(S), NEW T, NEW x \in S, T = S \ {x}
  PROVE  Cardinality(T) = Cardinality(S) - 1 /\ Cardinality(S) \in Nat \ {0} /\ Cardinality(T) \in Nat
<1>1. Cardinality(S \ {x}) = Cardinality(S) - 1 BY FS_RemoveElement
<1>2. IsFiniteSet(T) BY FS_RemoveElement
<1>3. Cardinality(S) \in Nat /\ Cardinality(T) \in Nat BY <1>2, FS_CardinalityType
<1> QED BY <1>1, <1>3

LEMMA OneMore ==
  ASSUME NEW S, IsFiniteSet(S), NEW T, NEW x, x \notin S, T = S \cup {x}
  PROVE  Cardinality(T) = Cardinality(S) + 1 /\ Cardinality(S) \in Nat /\ Cardinality(T) \in Nat
<1>1. Cardinality(S \cup {x}) = Cardinality(S) + 1 BY FS_AddElement
<1>2. Cardinality(S) \in Nat BY FS_CardinalityType
<1> QED BY <1>1, <1>2

\* The descriptors of disk d are within n of the block bitmaps.
NearGroup(d, g, n) ==
  /\ DOMAIN d[Desc(g)] = DOMAIN NoDesc /\ d[Desc(g)].blocks \in Nat
  /\ Cardinality(BlockRoom(d, g)) - n <= d[Desc(g)].blocks
  /\ d[Desc(g)].blocks <= Cardinality(BlockRoom(d, g)) + n
Near(d, n) == DOMAIN d = Addresses /\ \A g \in Groups : NearGroup(d, g, n)

\* A directory names inodes of groups that have been used.
EntryUsed(d, e) == "ino" \in DOMAIN e /\ (e.ino \in Inodes => ~d[Desc(InodeGroup(e.ino))].uninit)
EntriesUsed(d, q) == IsSeq(q) /\ \A n \in 1 .. Len(q) : EntryUsed(d, q[n])
BlockUsed(d, x) == x.k = "dir" => EntriesUsed(d, x.e)

\* The other counts, which are exact as long as no power was cut.
Totals(sb, d) ==
  /\ sb.blocks = Cardinality(AllBlockRoom(d)) /\ sb.inodes = Cardinality(AllInodeRoom(d))
  /\ \A g \in Groups : d[Desc(g)].inodes = Cardinality(RoomForInodes(d, g))
  /\ \A b \in Blocks : BlockUsed(d, d[DataAt(b)])

\* Superblock sb and descriptors gd in memory, and disk d, between two steps.
Exact(sb, gd, d, n) ==
  /\ gd = [g \in Groups |-> d[Desc(g)]] /\ Near(d, n)
  /\ n = 0 => Totals(sb, d)

\* The writes w lead from disk d to disk e, and every disk on the way is near.
Trail(d, w, e, n) ==
  /\ IsSeq(w)
  /\ \E f : /\ Stages("store", d, w, Len(w), f) /\ f[Len(w)] = e
            /\ \A i \in 0 .. Len(w) : Near(f[i], n)

LEMMA RoomCounts ==
  ASSUME NEW d, NEW g
  PROVE  /\ Cardinality(BlockRoom(d, g)) \in Nat /\ Cardinality(AllBlockRoom(d)) \in Nat
         /\ Cardinality(RoomForInodes(d, g)) \in Nat /\ Cardinality(AllInodeRoom(d)) \in Nat
  BY RoomFinite, FS_CardinalityType

LEMMA NearMore == ASSUME NEW d, NEW n \in Nat, Near(d, n) PROVE Near(d, n + 1)
  BY RoomCounts DEF Near, NearGroup

LEMMA TrailStart == ASSUME NEW d, NEW n, Near(d, n) PROVE Trail(d, <<>>, d, n)
<1> DEFINE w == <<>>
<1> DEFINE f == [i \in {0} |-> d]
<1>1. IsSeq(w) /\ Len(w) = 0 BY EmptySeqFacts
<1>2. f[0] = d OBVIOUS
<1> HIDE DEF f, w
<1>3. Stages("store", d, w, Len(w), f) BY <1>1, <1>2 DEF Stages
<1>4. \A i \in 0 .. Len(w) : Near(f[i], n) BY <1>1, <1>2
<1>5. Trail(d, w, d, n) BY <1>1, <1>2, <1>3, <1>4 DEF Trail
<1> QED BY <1>5 DEF w

LEMMA TrailAppend ==
  ASSUME NEW d, NEW w, NEW e, NEW n, Trail(d, w, e, n),
         NEW a, NEW v, NEW x, x = [e EXCEPT ![a] = v], Near(x, n)
  PROVE  Trail(d, Append(w, <<a, v>>), x, n)
<1> DEFINE p == <<a, v>>
<1> DEFINE u == Append(w, p)
<1> DEFINE m == Len(w)
<1>0. p[1] = a /\ p[2] = v OBVIOUS
<1> HIDE DEF p
<1>1. IsSeq(w) BY DEF Trail
<1>2. m \in Nat /\ IsSeq(u) /\ Len(u) = m + 1 /\ u[m + 1] = p /\ \A i \in 1 .. m : u[i] = w[i]
  BY <1>1, AppendFacts, SeqFacts
<1>3. PICK f : /\ Stages("store", d, w, m, f) /\ f[m] = e
               /\ \A i \in 0 .. m : Near(f[i], n)
  BY DEF Trail
<1> HIDE DEF m, u
<1> DEFINE h == [i \in 0 .. m + 1 |-> IF i = m + 1 THEN x ELSE f[i]]
<1>4. h[m + 1] = x /\ \A i \in 0 .. m : h[i] = f[i] BY <1>2
<1> HIDE DEF h
<1>5. \A y, z : Step("store", y, z) = [y EXCEPT ![z[1]] = z[2]] BY DEF Step
<1>6. ASSUME NEW i \in 1 .. m + 1 PROVE h[i] = Step("store", h[i - 1], u[i])
  <2>1. CASE i \in 1 .. m
    <3>1. h[i] = f[i] /\ h[i - 1] = f[i - 1] /\ u[i] = w[i] BY <1>2, <1>4, <2>1
    <3>2. f[i] = Step("store", f[i - 1], w[i]) BY <1>3, <2>1 DEF Stages
    <3> QED BY <3>1, <3>2
  <2>2. CASE i = m + 1
    <3>1. h[i] = x /\ h[i - 1] = e /\ u[i] = p BY <1>2, <1>3, <1>4, <2>2
    <3> QED BY <1>0, <1>5, <3>1
  <2> QED BY <1>2, <2>1, <2>2
<1>7. Stages("store", d, u, Len(u), h)
  <2>1. h[0] = d BY <1>2, <1>3, <1>4 DEF Stages
  <2> QED BY <1>2, <1>6, <2>1 DEF Stages
<1>8. ASSUME NEW i \in 0 .. Len(u) PROVE Near(h[i], n)
  <2>1. CASE i \in 0 .. m BY <1>3, <1>4, <2>1
  <2>2. CASE i = m + 1 BY <1>4, <2>2
  <2> QED BY <1>2, <2>1, <2>2
<1>9. h[Len(u)] = x BY <1>2, <1>4
<1>10. Trail(d, u, x, n) BY <1>2, <1>7, <1>8, <1>9 DEF Trail
<1> QED BY <1>10 DEF u, p

LEMMA TrailTail ==
  ASSUME NEW d, NEW w, NEW e, NEW n, Trail(d, w, e, n), w # <<>>,
         NEW x, x = [d EXCEPT ![w[1][1]] = w[1][2]]
  PROVE  Trail(x, Tail(w), e, n)
<1> DEFINE u == Tail(w)
<1> DEFINE m == Len(u)
<1>1. IsSeq(w) BY DEF Trail
<1>2. m \in Nat /\ IsSeq(u) /\ Len(w) = m + 1 /\ \A i \in 1 .. m : u[i] = w[i + 1]
  BY <1>1, TailFacts
<1>3. PICK f : /\ Stages("store", d, w, m + 1, f) /\ f[m + 1] = e
               /\ \A i \in 0 .. m + 1 : Near(f[i], n)
  BY <1>2 DEF Trail
<1> DEFINE h == [i \in 0 .. m |-> f[i + 1]]
<1> HIDE DEF m
<1>4. \A i \in 0 .. m : h[i] = f[i + 1] OBVIOUS
<1> HIDE DEF h, u
<1>5. h[0] = x
  <2>1. f[1] = Step("store", f[0], w[1]) /\ f[0] = d BY <1>2, <1>3 DEF Stages
  <2>2. Step("store", d, w[1]) = x BY DEF Step
  <2> QED BY <1>2, <1>4, <2>1, <2>2
<1>6. ASSUME NEW i \in 1 .. m PROVE h[i] = Step("store", h[i - 1], u[i])
  <2>1. f[i + 1] = Step("store", f[i], w[i + 1]) BY <1>2, <1>3 DEF Stages
  <2>2. h[i] = f[i + 1] /\ h[i - 1] = f[i] BY <1>2, <1>4
  <2> QED BY <1>2, <2>1, <2>2
<1>7. Stages("store", x, u, m, h) BY <1>5, <1>6 DEF Stages
<1>8. \A i \in 0 .. m : Near(h[i], n) BY <1>2, <1>3, <1>4
<1>9. h[m] = e BY <1>2, <1>3, <1>4
<1>10. m = Len(u) BY DEF m, u
<1>11. Trail(x, u, e, n) BY <1>2, <1>7, <1>8, <1>9, <1>10 DEF Trail
<1> QED BY <1>11 DEF u

LEMMA TrailEnds ==
  ASSUME NEW d, NEW w, NEW e, NEW n, Trail(d, w, e, n)
  PROVE  Near(d, n) /\ Near(e, n) /\ (w = <<>> => e = d)
<1>1. PICK f : /\ Stages("store", d, w, Len(w), f) /\ f[Len(w)] = e
               /\ \A i \in 0 .. Len(w) : Near(f[i], n)
  BY DEF Trail
<1>2. Len(w) \in Nat BY SeqFacts DEF Trail
<1>3. f[0] = d BY <1>1 DEF Stages
<1>4. w = <<>> => Len(w) = 0 BY EmptySeqFacts
<1> QED BY <1>1, <1>2, <1>3, <1>4

(***************************************************************************)
(* Writes that do not touch the books: descriptors and bitmaps.              *)
(***************************************************************************)

\* Not a descriptor and not a bitmap.
Neutral(a) == \A g \in Groups : a # Desc(g) /\ a # BlockBitmap(g) /\ a # InodeBitmap(g)

SameBooks(d, e) ==
  /\ DOMAIN e = DOMAIN d
  /\ \A g \in Groups : /\ e[Desc(g)] = d[Desc(g)] /\ e[BlockBitmap(g)] = d[BlockBitmap(g)]
                       /\ e[InodeBitmap(g)] = d[InodeBitmap(g)]

LEMMA BookPlaces ==
  /\ \A g \in Groups : {Desc(g), BlockBitmap(g), InodeBitmap(g)} \subseteq Addresses
  /\ \A i \in Inodes : InodeAt(i) \in Addresses
  /\ \A b \in Blocks : DataAt(b) \in Addresses
<1>1. \A g \in Groups : Desc(g) \in Addresses BY Zenon DEF Addresses
<1>2. \A g \in Groups : BlockBitmap(g) \in Addresses BY Zenon DEF Addresses
<1>3. \A g \in Groups : InodeBitmap(g) \in Addresses BY Zenon DEF Addresses
<1>4. \A i \in Inodes : InodeAt(i) \in Addresses BY Zenon DEF Addresses
<1> QED BY <1>1, <1>2, <1>3, <1>4, Places

LEMMA Distinct ==
  /\ \A g, h : /\ Desc(g) # BlockBitmap(h) /\ Desc(g) # InodeBitmap(h) /\ BlockBitmap(g) # InodeBitmap(h)
               /\ Desc(g) # DataAt(h) /\ BlockBitmap(g) # DataAt(h) /\ InodeBitmap(g) # DataAt(h)
               /\ Desc(g) # InodeAt(h) /\ BlockBitmap(g) # InodeAt(h) /\ InodeBitmap(g) # InodeAt(h)
               /\ DataAt(g) # InodeAt(h)
  /\ \A g, h : /\ Desc(g) = Desc(h) => g = h
               /\ BlockBitmap(g) = BlockBitmap(h) => g = h
               /\ InodeBitmap(g) = InodeBitmap(h) => g = h
  /\ \A g : /\ Super # Desc(g) /\ Super # BlockBitmap(g) /\ Super # InodeBitmap(g) /\ Super # DataAt(g)
            /\ JournalSuper # Desc(g) /\ JournalSuper # BlockBitmap(g)
            /\ JournalSuper # InodeBitmap(g) /\ JournalSuper # DataAt(g)
  BY DEF Desc, BlockBitmap, InodeBitmap, DataAt, InodeAt, Super, JournalSuper

LEMMA NeutralPlaces ==
  Neutral(Super) /\ Neutral(JournalSuper) /\ \A x : Neutral(DataAt(x)) /\ Neutral(InodeAt(x))
  BY Distinct DEF Neutral

LEMMA SameBooksSameRoom ==
  ASSUME NEW d, NEW e, SameBooks(d, e)
  PROVE  /\ \A g \in Groups : BlockRoom(e, g) = BlockRoom(d, g) /\ RoomForInodes(e, g) = RoomForInodes(d, g)
         /\ AllBlockRoom(e) = AllBlockRoom(d) /\ AllInodeRoom(e) = AllInodeRoom(d)
<1>1. \A g \in Groups : BlockRoom(e, g) = BlockRoom(d, g) BY DEF SameBooks, BlockRoom
<1>2. \A g \in Groups : RoomForInodes(e, g) = RoomForInodes(d, g) BY DEF SameBooks, RoomForInodes, Bits
<1>3. AllBlockRoom(e) = AllBlockRoom(d) BY <1>1, GroupBounds DEF AllBlockRoom
<1>4. AllInodeRoom(e) = AllInodeRoom(d) BY <1>2, GroupBounds DEF AllInodeRoom
<1> QED BY <1>1, <1>2, <1>3, <1>4

LEMMA SameBooksNear ==
  ASSUME NEW d, NEW e, SameBooks(d, e), NEW n, Near(d, n) PROVE Near(e, n)
<1>1. \A g \in Groups : BlockRoom(e, g) = BlockRoom(d, g) BY SameBooksSameRoom
<1>2. \A g \in Groups : e[Desc(g)] = d[Desc(g)] BY DEF SameBooks
<1>3. DOMAIN e = DOMAIN d BY DEF SameBooks
<1> QED BY <1>1, <1>2, <1>3 DEF Near, NearGroup

LEMMA SameBooksUsed ==
  ASSUME NEW d, NEW e, SameBooks(d, e), NEW x, BlockUsed(d, x) PROVE BlockUsed(e, x)
<1>1. \A i \in Inodes : e[Desc(InodeGroup(i))] = d[Desc(InodeGroup(i))] BY GroupBounds DEF SameBooks
<1>2. \A y : EntryUsed(d, y) => EntryUsed(e, y) BY <1>1 DEF EntryUsed
<1>3. \A q : EntriesUsed(d, q) => EntriesUsed(e, q) BY <1>2 DEF EntriesUsed
<1> QED BY <1>3 DEF BlockUsed

LEMMA SameBooksExact ==
  ASSUME NEW sb, NEW gd, NEW d, NEW n, Exact(sb, gd, d, n), NEW e, SameBooks(d, e),
         n = 0 => \A b \in Blocks : BlockUsed(d, e[DataAt(b)])
  PROVE  Exact(sb, gd, e, n)
<1>1. Near(e, n) BY SameBooksNear DEF Exact
<1>2. gd = [g \in Groups |-> e[Desc(g)]] BY DEF Exact, SameBooks
<1>3. ASSUME n = 0 PROVE Totals(sb, e)
  <2>1. Totals(sb, d) BY <1>3 DEF Exact
  <2>2. \A b \in Blocks : BlockUsed(e, e[DataAt(b)]) BY <1>3, SameBooksUsed
  <2>3. \A g \in Groups : e[Desc(g)] = d[Desc(g)] BY DEF SameBooks
  <2> QED BY <2>1, <2>2, <2>3, SameBooksSameRoom DEF Totals
<1> QED BY <1>1, <1>2, <1>3 DEF Exact

\* A write elsewhere; one to a block leaves it with used names.
LEMMA NeutralStored ==
  ASSUME NEW sb, NEW gd, NEW d, NEW n, Exact(sb, gd, d, n), NEW a, Neutral(a), NEW v,
         n = 0 => \A b \in Blocks : a = DataAt(b) => BlockUsed(d, v),
         NEW e, e = [d EXCEPT ![a] = v]
  PROVE  Exact(sb, gd, e, n) /\ SameBooks(d, e)
<1>0. DOMAIN d = Addresses BY DEF Exact, Near
<1>1. DOMAIN e = Addresses /\ \A x \in Addresses : e[x] = IF x = a THEN v ELSE d[x] BY <1>0
<1>2. SameBooks(d, e) BY <1>0, <1>1, BookPlaces DEF SameBooks, Neutral
<1>3. ASSUME n = 0, NEW b \in Blocks PROVE BlockUsed(d, e[DataAt(b)])
  <2>1. BlockUsed(d, d[DataAt(b)]) BY <1>3 DEF Exact, Totals
  <2> QED BY <1>1, <1>3, <2>1, BookPlaces
<1> QED BY <1>2, <1>3, SameBooksExact

(***************************************************************************)
(* Descriptor and bitmap: the two writes with which a block or an inode       *)
(* changes hands.  Between them the descriptor is one off.                   *)
(***************************************************************************)

\* Disk e is d with the descriptor of group g replaced by x.
DescMoved(d, e, g, x) ==
  /\ DOMAIN e = Addresses /\ e[Desc(g)] = x
  /\ \A h \in Groups : h # g => e[Desc(h)] = d[Desc(h)]
  /\ \A h \in Groups : e[BlockBitmap(h)] = d[BlockBitmap(h)] /\ e[InodeBitmap(h)] = d[InodeBitmap(h)]
  /\ \A b \in Blocks : e[DataAt(b)] = d[DataAt(b)]

LEMMA DescStored ==
  ASSUME NEW d, DOMAIN d = Addresses, NEW g \in Groups, NEW x, NEW e, e = [d EXCEPT ![Desc(g)] = x]
  PROVE  DescMoved(d, e, g, x)
<1>1. DOMAIN e = Addresses /\ \A y \in Addresses : e[y] = IF y = Desc(g) THEN x ELSE d[y] OBVIOUS
<1> QED BY <1>1, BookPlaces, Distinct DEF DescMoved

BlockBitsMoved(d, e, g, x) ==
  /\ DOMAIN e = Addresses /\ e[BlockBitmap(g)] = x
  /\ \A h \in Groups : h # g => e[BlockBitmap(h)] = d[BlockBitmap(h)]
  /\ \A h \in Groups : e[Desc(h)] = d[Desc(h)] /\ e[InodeBitmap(h)] = d[InodeBitmap(h)]
  /\ \A b \in Blocks : e[DataAt(b)] = d[DataAt(b)]

LEMMA BlockBitsStored ==
  ASSUME NEW d, DOMAIN d = Addresses, NEW g \in Groups, NEW x, NEW e, e = [d EXCEPT ![BlockBitmap(g)] = x]
  PROVE  BlockBitsMoved(d, e, g, x)
<1>1. DOMAIN e = Addresses /\ \A y \in Addresses : e[y] = IF y = BlockBitmap(g) THEN x ELSE d[y] OBVIOUS
<1> QED BY <1>1, BookPlaces, Distinct DEF BlockBitsMoved

InodeBitsMoved(d, e, g, x) ==
  /\ DOMAIN e = Addresses /\ e[InodeBitmap(g)] = x
  /\ \A h \in Groups : h # g => e[InodeBitmap(h)] = d[InodeBitmap(h)]
  /\ \A h \in Groups : e[Desc(h)] = d[Desc(h)] /\ e[BlockBitmap(h)] = d[BlockBitmap(h)]
  /\ \A b \in Blocks : e[DataAt(b)] = d[DataAt(b)]

LEMMA InodeBitsStored ==
  ASSUME NEW d, DOMAIN d = Addresses, NEW g \in Groups, NEW x, NEW e, e = [d EXCEPT ![InodeBitmap(g)] = x]
  PROVE  InodeBitsMoved(d, e, g, x)
<1>1. DOMAIN e = Addresses /\ \A y \in Addresses : e[y] = IF y = InodeBitmap(g) THEN x ELSE d[y] OBVIOUS
<1> QED BY <1>1, BookPlaces, Distinct DEF InodeBitsMoved

\* Counters that do not go below zero, next to a set that grows or shrinks by one.
LEMMA StillNear ==
  ASSUME NEW c \in Nat, NEW r \in Nat, NEW n \in Nat, r - n <= c, c <= r + n,
         NEW y \in {-1, 1}, r + y \in Nat, NEW x, x = AtLeastZero(c + y)
  PROVE  /\ x \in Nat
         /\ r - (n + 1) <= x /\ x <= r + (n + 1)
         /\ (r + y) - n <= x /\ x <= (r + y) + n
  BY DEF AtLeastZero

LEMMA StillExact ==
  ASSUME NEW r \in Nat, NEW y \in {-1, 1}, r + y \in Nat PROVE AtLeastZero(r + y) = r + y
  BY DEF AtLeastZero

\* What blocks are free, disk by disk.
LEMMA BlockRoomOf ==
  ASSUME NEW d, NEW e, NEW h, e[BlockBitmap(h)] = d[BlockBitmap(h)] PROVE BlockRoom(e, h) = BlockRoom(d, h)
  BY DEF BlockRoom

LEMMA InodeRoomOf ==
  ASSUME NEW d, NEW e, NEW h, e[InodeBitmap(h)] = d[InodeBitmap(h)],
         e[Desc(h)].uninit = d[Desc(h)].uninit
  PROVE  RoomForInodes(e, h) = RoomForInodes(d, h)
  BY DEF RoomForInodes, Bits

LEMMA GroupNearMore ==
  ASSUME NEW d, NEW g, NEW n \in Nat, NearGroup(d, g, n) PROVE NearGroup(d, g, n + 1)
  BY RoomCounts DEF NearGroup

LEMMA NearGroupOf ==
  ASSUME NEW d, NEW e, NEW g, NEW n, NearGroup(d, g, n), e[Desc(g)] = d[Desc(g)],
         BlockRoom(e, g) = BlockRoom(d, g)
  PROVE  NearGroup(e, g, n)
  BY DEF NearGroup

\* Groups stay used.
LEMMA StillUsed ==
  ASSUME NEW d, NEW e, \A g \in Groups : ~d[Desc(g)].uninit => ~e[Desc(g)].uninit,
         NEW x, BlockUsed(d, x) PROVE BlockUsed(e, x)
<1>1. \A y : EntryUsed(d, y) => EntryUsed(e, y) BY GroupBounds DEF EntryUsed
<1>2. \A q : EntriesUsed(d, q) => EntriesUsed(e, q) BY <1>1 DEF EntriesUsed
<1> QED BY <1>2 DEF BlockUsed

\* Place c of disk d is given x, and then place a is given v: disks e and f.
PairOf(d, c, x, a, v, e, f) == e = [d EXCEPT ![c] = x] /\ f = [e EXCEPT ![a] = v]

\* The block bitmap of group g becomes bits, and its room changes by y.
BlockMoves(d, e, g, y) ==
  /\ Cardinality(BlockRoom(e, g)) = Cardinality(BlockRoom(d, g)) + y
  /\ Cardinality(AllBlockRoom(e)) = Cardinality(AllBlockRoom(d)) + y

BlockDesc(o, x, y) == x = [o EXCEPT !.blocks = AtLeastZero(@ + y)]

LEMMA BlockBooks ==
  ASSUME NEW sb, NEW gd, NEW d, NEW n \in Nat, Exact(sb, gd, d, n), NEW g \in Groups, NEW y \in {-1, 1},
         NEW x, BlockDesc(d[Desc(g)], x, y), NEW bits, NEW e, NEW f,
         PairOf(d, Desc(g), x, BlockBitmap(g), bits, e, f), BlockMoves(d, f, g, y),
         NEW sc, sc.blocks = AtLeastZero(sb.blocks + y), sc.inodes = sb.inodes
  PROVE  /\ Near(e, n + 1) /\ Exact(sc, [gd EXCEPT ![g] = x], f, n)
         /\ \A h \in Groups : f[Desc(h)].uninit = d[Desc(h)].uninit
<1>0. DOMAIN d = Addresses /\ (\A h \in Groups : NearGroup(d, h, n)) /\ gd = [h \in Groups |-> d[Desc(h)]]
  BY DEF Exact, Near
<1>1. /\ DOMAIN e = Addresses /\ e[Desc(g)] = x
      /\ \A h \in Groups : h # g => e[Desc(h)] = d[Desc(h)]
      /\ \A h \in Groups : e[BlockBitmap(h)] = d[BlockBitmap(h)] /\ e[InodeBitmap(h)] = d[InodeBitmap(h)]
      /\ \A b \in Blocks : e[DataAt(b)] = d[DataAt(b)]
  <2>1. DescMoved(d, e, g, x) BY <1>0, DescStored, Zenon DEF PairOf
  <2> QED BY <2>1 DEF DescMoved
<1>2. /\ DOMAIN f = Addresses
      /\ \A h \in Groups : h # g => f[BlockBitmap(h)] = e[BlockBitmap(h)]
      /\ \A h \in Groups : f[Desc(h)] = e[Desc(h)] /\ f[InodeBitmap(h)] = e[InodeBitmap(h)]
      /\ \A b \in Blocks : f[DataAt(b)] = e[DataAt(b)]
  <2>1. BlockBitsMoved(e, f, g, bits) BY <1>1, BlockBitsStored, Zenon DEF PairOf
  <2> QED BY <2>1 DEF BlockBitsMoved
<1>3. DOMAIN d[Desc(g)] = DOMAIN NoDesc /\ d[Desc(g)].blocks \in Nat BY <1>0 DEF NearGroup
<1>4. /\ DOMAIN x = DOMAIN NoDesc /\ x.blocks = AtLeastZero(d[Desc(g)].blocks + y)
      /\ x.inodes = d[Desc(g)].inodes /\ x.uninit = d[Desc(g)].uninit
  BY <1>3 DEF NoDesc, BlockDesc
<1> DEFINE r == Cardinality(BlockRoom(d, g))
<1> DEFINE c == d[Desc(g)].blocks
<1>5. r \in Nat /\ c \in Nat /\ r - n <= c /\ c <= r + n BY <1>0, RoomCounts DEF NearGroup
<1>6. Cardinality(BlockRoom(f, g)) = r + y /\ r + y \in Nat BY RoomCounts DEF BlockMoves
<1>7. x.blocks = AtLeastZero(c + y) BY <1>4
<1> HIDE DEF r, c
<1>8. /\ x.blocks \in Nat /\ r - (n + 1) <= x.blocks /\ x.blocks <= r + (n + 1)
      /\ (r + y) - n <= x.blocks /\ x.blocks <= (r + y) + n
  BY <1>5, <1>6, <1>7, StillNear
<1>9. ASSUME NEW h \in Groups PROVE NearGroup(e, h, n + 1)
  <2>1. BlockRoom(e, h) = BlockRoom(d, h) BY <1>1, BlockRoomOf
  <2>2. CASE h = g BY <1>1, <1>4, <1>8, <2>1, <2>2 DEF NearGroup, r
  <2>3. CASE h # g
    <3>1. NearGroup(d, h, n + 1) BY <1>0, GroupNearMore
    <3>2. e[Desc(h)] = d[Desc(h)] BY <1>1, <2>3
    <3> QED BY <2>1, <3>1, <3>2, NearGroupOf
  <2> QED BY <2>2, <2>3
<1>10. ASSUME NEW h \in Groups PROVE NearGroup(f, h, n)
  <2>1. CASE h = g BY <1>1, <1>2, <1>4, <1>6, <1>8, <2>1 DEF NearGroup
  <2>2. CASE h # g
    <3>0. f[BlockBitmap(h)] = d[BlockBitmap(h)] BY <1>1, <1>2, <2>2
    <3>1. BlockRoom(f, h) = BlockRoom(d, h) BY <3>0, BlockRoomOf
    <3>2. NearGroup(d, h, n) /\ f[Desc(h)] = d[Desc(h)] BY <1>0, <1>1, <1>2, <2>2
    <3> QED BY <3>1, <3>2, NearGroupOf
  <2> QED BY <2>1, <2>2
<1>11. [gd EXCEPT ![g] = x] = [h \in Groups |-> f[Desc(h)]] BY <1>0, <1>1, <1>2
<1>12. \A h \in Groups : f[Desc(h)].uninit = d[Desc(h)].uninit /\ f[Desc(h)].inodes = d[Desc(h)].inodes
  BY <1>1, <1>2, <1>4
<1>13. ASSUME n = 0 PROVE Totals(sc, f)
  <2>1. Totals(sb, d) BY <1>13 DEF Exact
  <2>2. ASSUME NEW h \in Groups PROVE RoomForInodes(f, h) = RoomForInodes(d, h)
    <3>1. f[InodeBitmap(h)] = d[InodeBitmap(h)] BY <1>1, <1>2
    <3> QED BY <1>12, <3>1, InodeRoomOf
  <2>3. AllInodeRoom(f) = AllInodeRoom(d) BY <2>2, GroupBounds DEF AllInodeRoom
  <2>4. sc.blocks = Cardinality(AllBlockRoom(f))
    <3>1. Cardinality(AllBlockRoom(f)) = Cardinality(AllBlockRoom(d)) + y BY DEF BlockMoves
    <3>2. Cardinality(AllBlockRoom(f)) \in Nat /\ Cardinality(AllBlockRoom(d)) \in Nat BY RoomCounts
    <3>3. sb.blocks = Cardinality(AllBlockRoom(d)) BY <2>1 DEF Totals
    <3> QED BY <3>1, <3>2, <3>3, StillExact
  <2>5. ASSUME NEW b \in Blocks PROVE BlockUsed(f, f[DataAt(b)])
    <3>1. BlockUsed(d, d[DataAt(b)]) BY <2>1 DEF Totals
    <3>2. f[DataAt(b)] = d[DataAt(b)] BY <1>1, <1>2
    <3> QED BY <1>12, <3>1, <3>2, StillUsed
  <2>6. sc.inodes = Cardinality(AllInodeRoom(f)) BY <2>1, <2>3 DEF Totals
  <2>7. \A h \in Groups : f[Desc(h)].inodes = Cardinality(RoomForInodes(f, h))
    BY <1>12, <2>1, <2>2 DEF Totals
  <2> QED BY <2>4, <2>5, <2>6, <2>7 DEF Totals
<1> QED BY <1>1, <1>2, <1>9, <1>10, <1>11, <1>12, <1>13 DEF Near, Exact

\* The inode bitmap of group g, which is in use then, and its room changes by y.
InodeMoves(d, e, g, y) ==
  /\ Cardinality(RoomForInodes(e, g)) = Cardinality(RoomForInodes(d, g)) + y
  /\ Cardinality(AllInodeRoom(e)) = Cardinality(AllInodeRoom(d)) + y

LEMMA InodeBooks ==
  ASSUME NEW sb, NEW gd, NEW d, NEW n \in Nat, Exact(sb, gd, d, n), NEW g \in Groups, NEW y \in {-1, 1},
         NEW x, DOMAIN x = DOMAIN NoDesc, x.blocks = d[Desc(g)].blocks,
         x.inodes = AtLeastZero(d[Desc(g)].inodes + y), ~d[Desc(g)].uninit => ~x.uninit,
         NEW bits, NEW e, NEW f, PairOf(d, Desc(g), x, InodeBitmap(g), bits, e, f),
         n = 0 => InodeMoves(d, f, g, y),
         NEW sc, sc.inodes = AtLeastZero(sb.inodes + y), sc.blocks = sb.blocks
  PROVE  /\ Near(e, n + 1) /\ Exact(sc, [gd EXCEPT ![g] = x], f, n)
         /\ \A h \in Groups : ~d[Desc(h)].uninit => ~f[Desc(h)].uninit
         /\ f[Desc(g)] = x
<1>0. DOMAIN d = Addresses /\ (\A h \in Groups : NearGroup(d, h, n)) /\ gd = [h \in Groups |-> d[Desc(h)]]
  BY DEF Exact, Near
<1>1. /\ DOMAIN e = Addresses /\ e[Desc(g)] = x
      /\ \A h \in Groups : h # g => e[Desc(h)] = d[Desc(h)]
      /\ \A h \in Groups : e[BlockBitmap(h)] = d[BlockBitmap(h)] /\ e[InodeBitmap(h)] = d[InodeBitmap(h)]
      /\ \A b \in Blocks : e[DataAt(b)] = d[DataAt(b)]
  <2>1. DescMoved(d, e, g, x) BY <1>0, DescStored, Zenon DEF PairOf
  <2> QED BY <2>1 DEF DescMoved
<1>2. /\ DOMAIN f = Addresses
      /\ \A h \in Groups : h # g => f[InodeBitmap(h)] = e[InodeBitmap(h)]
      /\ \A h \in Groups : f[Desc(h)] = e[Desc(h)] /\ f[BlockBitmap(h)] = e[BlockBitmap(h)]
      /\ \A b \in Blocks : f[DataAt(b)] = e[DataAt(b)]
  <2>1. InodeBitsMoved(e, f, g, bits) BY <1>1, InodeBitsStored, Zenon DEF PairOf
  <2> QED BY <2>1 DEF InodeBitsMoved
<1>3. ASSUME NEW h \in Groups
      PROVE  NearGroup(e, h, n) /\ NearGroup(f, h, n) /\ BlockRoom(f, h) = BlockRoom(d, h)
  <2>1. BlockRoom(e, h) = BlockRoom(d, h) BY <1>1, BlockRoomOf
  <2>2. f[BlockBitmap(h)] = d[BlockBitmap(h)] BY <1>1, <1>2
  <2>3. BlockRoom(f, h) = BlockRoom(d, h) BY <2>2, BlockRoomOf
  <2>4. NearGroup(d, h, n) /\ f[Desc(h)] = e[Desc(h)] BY <1>0, <1>2
  <2>5. NearGroup(e, h, n)
    <3>1. CASE h = g BY <1>1, <2>1, <2>4, <3>1 DEF NearGroup
    <3>2. CASE h # g
      <4>1. e[Desc(h)] = d[Desc(h)] BY <1>1, <3>2
      <4> QED BY <2>1, <2>4, <4>1, NearGroupOf
    <3> QED BY <3>1, <3>2
  <2>6. BlockRoom(f, h) = BlockRoom(e, h) BY <2>1, <2>3
  <2>7. NearGroup(f, h, n) BY <2>4, <2>5, <2>6, NearGroupOf
  <2> QED BY <2>3, <2>5, <2>7
<1>4. [gd EXCEPT ![g] = x] = [h \in Groups |-> f[Desc(h)]] BY <1>0, <1>1, <1>2
<1>5. \A h \in Groups : ~d[Desc(h)].uninit => ~f[Desc(h)].uninit BY <1>1, <1>2
<1>6. ASSUME n = 0 PROVE Totals(sc, f)
  <2>1. Totals(sb, d) BY <1>6 DEF Exact
  <2>2. AllBlockRoom(f) = AllBlockRoom(d) BY <1>3, GroupBounds DEF AllBlockRoom
  <2>3. InodeMoves(d, f, g, y) BY <1>6
  <2>4. sc.inodes = Cardinality(AllInodeRoom(f))
    <3>1. Cardinality(AllInodeRoom(f)) = Cardinality(AllInodeRoom(d)) + y BY <2>3 DEF InodeMoves
    <3>2. Cardinality(AllInodeRoom(f)) \in Nat /\ Cardinality(AllInodeRoom(d)) \in Nat BY RoomCounts
    <3>3. sb.inodes = Cardinality(AllInodeRoom(d)) BY <2>1 DEF Totals
    <3> QED BY <3>1, <3>2, <3>3, StillExact
  <2>5. ASSUME NEW b \in Blocks PROVE BlockUsed(f, f[DataAt(b)])
    <3>1. BlockUsed(d, d[DataAt(b)]) BY <2>1 DEF Totals
    <3>2. f[DataAt(b)] = d[DataAt(b)] BY <1>1, <1>2
    <3> QED BY <1>5, <3>1, <3>2, StillUsed
  <2>6. sc.blocks = Cardinality(AllBlockRoom(f)) BY <2>1, <2>2 DEF Totals
  <2>7. ASSUME NEW h \in Groups PROVE f[Desc(h)].inodes = Cardinality(RoomForInodes(f, h))
    <3>1. CASE h = g
      <4>1. Cardinality(RoomForInodes(f, g)) = Cardinality(RoomForInodes(d, g)) + y BY <2>3 DEF InodeMoves
      <4>2. Cardinality(RoomForInodes(f, g)) \in Nat /\ Cardinality(RoomForInodes(d, g)) \in Nat BY RoomCounts
      <4>3. d[Desc(g)].inodes = Cardinality(RoomForInodes(d, g)) BY <2>1 DEF Totals
      <4>4. f[Desc(g)].inodes = AtLeastZero(Cardinality(RoomForInodes(d, g)) + y) BY <1>1, <1>2, <4>3
      <4> QED BY <3>1, <4>1, <4>2, <4>4, StillExact
    <3>2. CASE h # g
      <4>1. f[InodeBitmap(h)] = d[InodeBitmap(h)] /\ f[Desc(h)] = d[Desc(h)] BY <1>1, <1>2, <3>2
      <4>2. RoomForInodes(f, h) = RoomForInodes(d, h) BY <4>1, InodeRoomOf
      <4> QED BY <2>1, <4>1, <4>2 DEF Totals
    <3> QED BY <3>1, <3>2
  <2> QED BY <2>4, <2>5, <2>6, <2>7 DEF Totals
<1>7. Near(e, n + 1)
  <2>1. Near(e, n) BY <1>1, <1>3 DEF Near
  <2> QED BY <2>1, NearMore
<1> QED BY <1>1, <1>2, <1>3, <1>4, <1>5, <1>6, <1>7 DEF Near, Exact

\* One block or inode taken or given back, as the bitmaps see it.
LEMMA BlockTaken ==
  ASSUME NEW d, NEW g \in Groups, NEW b \in BlockRoom(d, g), NEW e,
         e[BlockBitmap(g)] = d[BlockBitmap(g)] \cup {b},
         \A h \in Groups : h # g => e[BlockBitmap(h)] = d[BlockBitmap(h)]
  PROVE  BlockMoves(d, e, g, -1)
<1>1. b \in Blocks /\ BlockGroup(b) = g BY DEF BlockRoom
<1>2. BlockRoom(e, g) = BlockRoom(d, g) \ {b} BY DEF BlockRoom
<1>3. AllBlockRoom(e) = AllBlockRoom(d) \ {b}
  <2>1. ASSUME NEW c \in Blocks PROVE c \in AllBlockRoom(e) <=> c \in AllBlockRoom(d) /\ c # b
    <3>1. CASE BlockGroup(c) = g BY <1>2, <3>1 DEF AllBlockRoom
    <3>2. CASE BlockGroup(c) # g
      <4>1. BlockRoom(e, BlockGroup(c)) = BlockRoom(d, BlockGroup(c)) BY <3>2, GroupBounds, BlockRoomOf
      <4> QED BY <1>1, <3>2, <4>1 DEF AllBlockRoom
    <3> QED BY <3>1, <3>2
  <2>2. AllBlockRoom(e) \subseteq Blocks /\ AllBlockRoom(d) \subseteq Blocks BY DEF AllBlockRoom
  <2> QED BY <2>1, <2>2
<1>4. b \in AllBlockRoom(d) BY <1>1 DEF AllBlockRoom
<1>5. Cardinality(BlockRoom(e, g)) = Cardinality(BlockRoom(d, g)) - 1 BY <1>2, OneLess, RoomFinite
<1>6. Cardinality(AllBlockRoom(e)) = Cardinality(AllBlockRoom(d)) - 1 BY <1>3, <1>4, OneLess, RoomFinite
<1>7. Cardinality(BlockRoom(d, g)) \in Nat /\ Cardinality(AllBlockRoom(d)) \in Nat BY RoomCounts
<1> QED BY <1>5, <1>6, <1>7 DEF BlockMoves

LEMMA BlockGiven ==
  ASSUME NEW d, NEW g \in Groups, NEW b \in Blocks, BlockGroup(b) = g, b \in d[BlockBitmap(g)], NEW e,
         e[BlockBitmap(g)] = d[BlockBitmap(g)] \ {b},
         \A h \in Groups : h # g => e[BlockBitmap(h)] = d[BlockBitmap(h)]
  PROVE  BlockMoves(d, e, g, 1)
<1>1. b \notin BlockRoom(d, g) BY DEF BlockRoom
<1>2. BlockRoom(e, g) = BlockRoom(d, g) \cup {b} BY DEF BlockRoom
<1>3. AllBlockRoom(e) = AllBlockRoom(d) \cup {b}
  <2>1. ASSUME NEW c \in Blocks PROVE c \in AllBlockRoom(e) <=> c \in AllBlockRoom(d) \/ c = b
    <3>1. CASE BlockGroup(c) = g BY <1>2, <3>1 DEF AllBlockRoom
    <3>2. CASE BlockGroup(c) # g
      <4>1. BlockRoom(e, BlockGroup(c)) = BlockRoom(d, BlockGroup(c)) BY <3>2, GroupBounds, BlockRoomOf
      <4> QED BY <1>1, <3>2, <4>1 DEF AllBlockRoom
    <3> QED BY <3>1, <3>2
  <2>2. AllBlockRoom(e) \subseteq Blocks /\ AllBlockRoom(d) \subseteq Blocks BY DEF AllBlockRoom
  <2> QED BY <2>1, <2>2
<1>4. b \notin AllBlockRoom(d) BY <1>1 DEF AllBlockRoom
<1>5. Cardinality(BlockRoom(e, g)) = Cardinality(BlockRoom(d, g)) + 1 BY <1>1, <1>2, OneMore, RoomFinite
<1>6. Cardinality(AllBlockRoom(e)) = Cardinality(AllBlockRoom(d)) + 1 BY <1>3, <1>4, OneMore, RoomFinite
<1> QED BY <1>5, <1>6 DEF BlockMoves

LEMMA InodeTaken ==
  ASSUME NEW d, NEW g \in Groups, NEW i \in RoomForInodes(d, g), NEW e,
         e[InodeBitmap(g)] = Bits(d, g) \cup {i}, ~e[Desc(g)].uninit,
         \A h \in Groups : h # g => /\ e[InodeBitmap(h)] = d[InodeBitmap(h)]
                                    /\ e[Desc(h)] = d[Desc(h)]
  PROVE  InodeMoves(d, e, g, -1)
<1>1. i \in Inodes /\ InodeGroup(i) = g BY DEF RoomForInodes
<1>0. Bits(e, g) = Bits(d, g) \cup {i} BY Zenon DEF Bits
<1>2. RoomForInodes(e, g) = RoomForInodes(d, g) \ {i} BY <1>0 DEF RoomForInodes
<1>3. AllInodeRoom(e) = AllInodeRoom(d) \ {i}
  <2>1. ASSUME NEW c \in Inodes PROVE c \in AllInodeRoom(e) <=> c \in AllInodeRoom(d) /\ c # i
    <3>1. CASE InodeGroup(c) = g BY <1>2, <3>1 DEF AllInodeRoom
    <3>2. CASE InodeGroup(c) # g
      <4>1. RoomForInodes(e, InodeGroup(c)) = RoomForInodes(d, InodeGroup(c)) BY <3>2, GroupBounds, InodeRoomOf
      <4> QED BY <1>1, <3>2, <4>1 DEF AllInodeRoom
    <3> QED BY <3>1, <3>2
  <2>2. AllInodeRoom(e) \subseteq Inodes /\ AllInodeRoom(d) \subseteq Inodes BY DEF AllInodeRoom
  <2> QED BY <2>1, <2>2
<1>4. i \in AllInodeRoom(d) BY <1>1 DEF AllInodeRoom
<1>5. Cardinality(RoomForInodes(e, g)) = Cardinality(RoomForInodes(d, g)) - 1 BY <1>2, OneLess, RoomFinite
<1>6. Cardinality(AllInodeRoom(e)) = Cardinality(AllInodeRoom(d)) - 1 BY <1>3, <1>4, OneLess, RoomFinite
<1>7. Cardinality(RoomForInodes(d, g)) \in Nat /\ Cardinality(AllInodeRoom(d)) \in Nat BY RoomCounts
<1> QED BY <1>5, <1>6, <1>7 DEF InodeMoves

LEMMA InodeGiven ==
  ASSUME NEW d, NEW g \in Groups, NEW i \in Inodes, InodeGroup(i) = g, i \in d[InodeBitmap(g)], NEW e,
         e[InodeBitmap(g)] = d[InodeBitmap(g)] \ {i}, ~d[Desc(g)].uninit, ~e[Desc(g)].uninit,
         \A h \in Groups : h # g => /\ e[InodeBitmap(h)] = d[InodeBitmap(h)]
                                    /\ e[Desc(h)] = d[Desc(h)]
  PROVE  InodeMoves(d, e, g, 1)
<1>0. Bits(e, g) = d[InodeBitmap(g)] \ {i} /\ Bits(d, g) = d[InodeBitmap(g)] BY Zenon DEF Bits
<1>1. i \notin RoomForInodes(d, g) BY <1>0 DEF RoomForInodes
<1>2. RoomForInodes(e, g) = RoomForInodes(d, g) \cup {i} BY <1>0 DEF RoomForInodes
<1>3. AllInodeRoom(e) = AllInodeRoom(d) \cup {i}
  <2>1. ASSUME NEW c \in Inodes PROVE c \in AllInodeRoom(e) <=> c \in AllInodeRoom(d) \/ c = i
    <3>1. CASE InodeGroup(c) = g BY <1>2, <3>1 DEF AllInodeRoom
    <3>2. CASE InodeGroup(c) # g
      <4>1. RoomForInodes(e, InodeGroup(c)) = RoomForInodes(d, InodeGroup(c)) BY <3>2, GroupBounds, InodeRoomOf
      <4> QED BY <1>1, <3>2, <4>1 DEF AllInodeRoom
    <3> QED BY <3>1, <3>2
  <2>2. AllInodeRoom(e) \subseteq Inodes /\ AllInodeRoom(d) \subseteq Inodes BY DEF AllInodeRoom
  <2> QED BY <2>1, <2>2
<1>4. i \notin AllInodeRoom(d) BY <1>1 DEF AllInodeRoom
<1>5. Cardinality(RoomForInodes(e, g)) = Cardinality(RoomForInodes(d, g)) + 1 BY <1>1, <1>2, OneMore, RoomFinite
<1>6. Cardinality(AllInodeRoom(e)) = Cardinality(AllInodeRoom(d)) + 1 BY <1>3, <1>4, OneMore, RoomFinite
<1> QED BY <1>5, <1>6 DEF InodeMoves

(***************************************************************************)
(* A state s of a call that began on disk z.d, after z.n power cuts, with     *)
(* the features of z.sb: its counts are exact, and every disk that its        *)
(* writes pass through is near.  The groups of U are in use.                 *)
(***************************************************************************)

Kept(s, z, U) ==
  /\ Tame(s, z.sb) /\ CanWrite(s) /\ z.n \in Nat
  /\ Trail(z.d, s.w, s.d, z.n + 1)
  /\ Exact(s.m.sb, s.m.gd, s.d, z.n)
  /\ \A g \in U : g \in Groups /\ ~s.d[Desc(g)].uninit

LEMMA KeptSame ==
  ASSUME NEW s, NEW z, NEW U, Kept(s, z, U), NEW t, Tame(t, z.sb), t.d = s.d, t.m = s.m, t.w = s.w
  PROVE  Kept(t, z, U)
  BY DEF Kept, CanWrite

LEMMA KeptDone == ASSUME NEW s, NEW z, NEW U, Kept(s, z, U) PROVE Kept(Done(s), z, U) /\ Kept(Fail(s), z, U)
<1>1. Tame(s, z.sb) /\ IsState(s) BY DEF Kept, Tame
<1>2. Tame(Done(s), z.sb) /\ Tame(Fail(s), z.sb) BY <1>1, TameDone
<1>3. /\ Done(s).m = s.m /\ Done(s).w = s.w /\ Done(s).d = s.d
      /\ Fail(s).m = s.m /\ Fail(s).w = s.w /\ Fail(s).d = s.d
  BY <1>1, DoneFacts
<1>4. Kept(Done(s), z, U)
  <2> DEFINE t == Done(s)
  <2> HIDE DEF t
  <2>1. Tame(t, z.sb) /\ t.m = s.m /\ t.w = s.w /\ t.d = s.d BY <1>2, <1>3 DEF t
  <2>2. Kept(t, z, U) BY <2>1, KeptSame
  <2> QED BY <2>2 DEF t
<1>5. Kept(Fail(s), z, U)
  <2> DEFINE t == Fail(s)
  <2> HIDE DEF t
  <2>1. Tame(t, z.sb) /\ t.m = s.m /\ t.w = s.w /\ t.d = s.d BY <1>2, <1>3 DEF t
  <2>2. Kept(t, z, U) BY <2>1, KeptSame
  <2> QED BY <2>2 DEF t
<1> QED BY <1>4, <1>5

LEMMA KeptOut == ASSUME NEW s, NEW z, NEW U, Kept(s, z, U), NEW x PROVE Kept([s EXCEPT !.out = x], z, U)
<1> DEFINE t == [s EXCEPT !.out = x]
<1>0. Tame(s, z.sb) BY DEF Kept
<1>1. Tame(t, z.sb) BY <1>0, TameOut
<1>2. t.d = s.d /\ t.m = s.m /\ t.w = s.w BY <1>0 DEF Tame, IsState
<1> HIDE DEF t
<1>3. Kept(t, z, U) BY <1>1, <1>2, KeptSame
<1> QED BY <1>3 DEF t

LEMMA KeptIn ==
  ASSUME NEW s, NEW z, NEW U, Kept(s, z, U), NEW x, InodeOK(x) PROVE Kept([s EXCEPT !.in = x], z, U)
<1> DEFINE t == [s EXCEPT !.in = x]
<1>0. Tame(s, z.sb) BY DEF Kept
<1>1. Tame(t, z.sb) BY <1>0, TameIn
<1>2. t.d = s.d /\ t.m = s.m /\ t.w = s.w BY <1>0 DEF Tame, IsState
<1> HIDE DEF t
<1>3. Kept(t, z, U) BY <1>1, <1>2, KeptSame
<1> QED BY <1>3 DEF t

LEMMA KeptRuns ==
  ASSUME NEW s, NEW z, NEW U, Kept(s, z, U), NEW x, RunsOK(x) PROVE Kept([s EXCEPT !.runs = x], z, U)
<1> DEFINE t == [s EXCEPT !.runs = x]
<1>0. Tame(s, z.sb) BY DEF Kept
<1>1. Tame(t, z.sb) BY <1>0, TameRuns
<1>2. t.d = s.d /\ t.m = s.m /\ t.w = s.w BY <1>0 DEF Tame, IsState
<1> HIDE DEF t
<1>3. Kept(t, z, U) BY <1>1, <1>2, KeptSame
<1> QED BY <1>3 DEF t

LEMMA KeptFewer ==
  ASSUME NEW s, NEW z, NEW U, Kept(s, z, U), NEW V, V \subseteq U PROVE Kept(s, z, V)
  BY DEF Kept

\* State t is s after a write of v to a.
Wrote(s, a, v, t) ==
  /\ t.d = [s.d EXCEPT ![a] = v] /\ t.w = Append(s.w, <<a, v>>) /\ t.m = s.m
  /\ t.rc = 0 /\ t.out = s.out /\ DOMAIN t = DOMAIN s

LEMMA WroteDisk ==
  ASSUME NEW s, IsState(s), CanWrite(s), NEW a, NEW v PROVE Wrote(s, a, v, WriteBlock(s, a, v))
<1>1. WriteBlock(s, a, v) = Done([s EXCEPT !.d[a] = v, !.w = Append(@, <<a, v>>)])
  BY DEF WriteBlock, CanWrite
<1> DEFINE t == [s EXCEPT !.d[a] = v, !.w = Append(@, <<a, v>>)]
<1>2. /\ DOMAIN t = DOMAIN s /\ t.m = s.m /\ t.w = Append(s.w, <<a, v>>)
      /\ t.d = [s.d EXCEPT ![a] = v] /\ t.out = s.out
  BY DEF IsState
<1> HIDE DEF t
<1>3. /\ Done(t).m = t.m /\ Done(t).w = t.w /\ Done(t).d = t.d /\ DOMAIN Done(t) = DOMAIN t
      /\ Done(t).rc = 0 /\ Done(t).out = t.out
  BY <1>2 DEF Done, IsState
<1>4. Wrote(s, a, v, Done(t)) BY <1>2, <1>3 DEF Wrote
<1> QED BY <1>1, <1>4 DEF t

LEMMA SyncedDisk ==
  ASSUME NEW s, IsState(s), HasDevice(s)
  PROVE  /\ SyncSuperblock(s).d = [s.d EXCEPT ![Super] = s.m.sb]
         /\ SyncSuperblock(s).w = Append(s.w, <<Super, s.m.sb>>)
         /\ SyncSuperblock(s).m = s.m
<1>1. SyncSuperblock(s) = Done([s EXCEPT !.d[Super] = s.m.sb, !.w = Append(@, <<Super, s.m.sb>>)])
  BY DEF SyncSuperblock, HasDevice
<1> DEFINE t == [s EXCEPT !.d[Super] = s.m.sb, !.w = Append(@, <<Super, s.m.sb>>)]
<1>2. /\ DOMAIN t = DOMAIN s /\ t.m = s.m /\ t.w = Append(s.w, <<Super, s.m.sb>>)
      /\ t.d = [s.d EXCEPT ![Super] = s.m.sb]
  BY DEF IsState
<1> HIDE DEF t
<1>3. Done(t).m = t.m /\ Done(t).w = t.w /\ Done(t).d = t.d BY <1>2 DEF Done, IsState
<1> QED BY <1>1, <1>2, <1>3 DEF t

\* A write outside the books, carried out on a state or on its disk.
LEMMA KeptNeutral ==
  ASSUME NEW s, NEW z, NEW U, Kept(s, z, U), NEW a, Neutral(a), NEW v,
         z.n = 0 => \A b \in Blocks : a = DataAt(b) => BlockUsed(s.d, v),
         NEW t, Tame(t, z.sb), t.d = [s.d EXCEPT ![a] = v], t.w = Append(s.w, <<a, v>>), t.m = s.m
  PROVE  Kept(t, z, U)
<1>0. /\ CanWrite(s) /\ z.n \in Nat /\ Trail(z.d, s.w, s.d, z.n + 1)
      /\ Exact(s.m.sb, s.m.gd, s.d, z.n)
  BY DEF Kept
<1>1. Exact(s.m.sb, s.m.gd, t.d, z.n) /\ SameBooks(s.d, t.d)
  <2> DEFINE sb == s.m.sb
  <2> DEFINE gd == s.m.gd
  <2> DEFINE d == s.d
  <2> DEFINE e == t.d
  <2> DEFINE n == z.n
  <2>1. Exact(sb, gd, d, n) /\ e = [d EXCEPT ![a] = v] BY <1>0
  <2>2. n = 0 => \A b \in Blocks : a = DataAt(b) => BlockUsed(d, v) OBVIOUS
  <2> HIDE DEF sb, gd, d, e, n
  <2>3. Exact(sb, gd, e, n) /\ SameBooks(d, e) BY <2>1, <2>2, NeutralStored
  <2> QED BY <2>3 DEF sb, gd, d, e, n
<1>2. Near(t.d, z.n + 1) BY <1>0, <1>1, NearMore DEF Exact
<1>3. Trail(z.d, Append(s.w, <<a, v>>), t.d, z.n + 1) BY <1>0, <1>2, TrailAppend, Zenon
<1>4. Trail(z.d, t.w, t.d, z.n + 1) BY <1>3, Zenon
<1>5. ASSUME NEW g \in U PROVE g \in Groups /\ ~t.d[Desc(g)].uninit
  BY <1>1 DEF Kept, SameBooks
<1> QED BY <1>0, <1>1, <1>4, <1>5 DEF Kept, CanWrite

LEMMA KeptWrite ==
  ASSUME NEW s, NEW z, NEW U, Kept(s, z, U), NEW a, Neutral(a), NEW v, TameWrite(a, v, z.sb),
         z.n = 0 => \A b \in Blocks : a = DataAt(b) => BlockUsed(s.d, v)
  PROVE  Kept(WriteBlock(s, a, v), z, U)
<1> DEFINE t == WriteBlock(s, a, v)
<1>1. Tame(s, z.sb) /\ IsState(s) /\ CanWrite(s) BY DEF Kept, Tame
<1>2. Tame(t, z.sb) BY <1>1, TameWriteBlock
<1>5. Wrote(s, a, v, t) BY <1>1, WroteDisk
<1> HIDE DEF t
<1>3. t.d = [s.d EXCEPT ![a] = v] /\ t.w = Append(s.w, <<a, v>>) /\ t.m = s.m BY <1>5, Zenon DEF Wrote
<1>4. Kept(t, z, U) BY <1>2, <1>3, KeptNeutral, Zenon
<1> QED BY <1>4 DEF t

LEMMA KeptSync == ASSUME NEW s, NEW z, NEW U, Kept(s, z, U) PROVE Kept(SyncSuperblock(s), z, U)
<1> DEFINE t == SyncSuperblock(s)
<1> DEFINE v == s.m.sb
<1>1. Tame(s, z.sb) /\ IsState(s) /\ HasDevice(s) BY DEF Kept, Tame, CanWrite, HasDevice
<1>2. Tame(t, z.sb) BY <1>1, TameSync
<1>3. t.d = [s.d EXCEPT ![Super] = v] /\ t.w = Append(s.w, <<Super, v>>) /\ t.m = s.m BY <1>1, SyncedDisk
<1>4. Neutral(Super) /\ \A b \in Blocks : Super # DataAt(b) BY NeutralPlaces, Distinct
<1> HIDE DEF t, v
<1>5. Kept(t, z, U) BY <1>2, <1>3, <1>4, KeptNeutral, Zenon
<1> QED BY <1>5 DEF t

\* Blocks of files and directories.
LEMMA KeptData ==
  ASSUME NEW s, NEW z, NEW U, Kept(s, z, U), NEW b, NEW v, BlockOK(v), z.n = 0 => BlockUsed(s.d, v)
  PROVE  Kept(WriteBlock(s, DataAt(b), v), z, U)
<1> DEFINE a == DataAt(b)
<1>1. Neutral(a) /\ TameWrite(a, v, z.sb) BY NeutralPlaces, TamePlaces
<1> HIDE DEF a
<1>2. Kept(WriteBlock(s, a, v), z, U) BY <1>1, KeptWrite
<1> QED BY <1>2 DEF a

LEMMA KeptInode == ASSUME NEW s, NEW z, NEW U, Kept(s, z, U), NEW i PROVE Kept(WriteInode(s, i), z, U)
<1> DEFINE a == InodeAt(i)
<1>1. InodeOK(s.in) BY DEF Kept, Tame
<1>2. Neutral(a) /\ TameWrite(a, s.in, z.sb) /\ \A b \in Blocks : a # DataAt(b)
  BY <1>1, NeutralPlaces, TamePlaces, Distinct
<1> HIDE DEF a
<1>3. Kept(WriteBlock(s, a, s.in), z, U) BY <1>2, KeptWrite
<1> QED BY <1>3 DEF WriteInode, a

\* A descriptor that is on the disk already.
LEMMA KeptSyncGd == ASSUME NEW s, NEW z, NEW U, Kept(s, z, U), NEW g PROVE Kept(SyncGd(s, g), z, U)
<1> DEFINE v == s.m.gd[g]
<1> DEFINE a == Desc(g)
<1> DEFINE t == WriteBlock(s, a, v)
<1>0. SyncGd(s, g) = t BY DEF SyncGd
<1>1. /\ Tame(s, z.sb) /\ IsState(s) /\ CanWrite(s) /\ z.n \in Nat /\ Trail(z.d, s.w, s.d, z.n + 1)
      /\ Exact(s.m.sb, s.m.gd, s.d, z.n)
  BY DEF Kept, Tame
<1>2. TameWrite(a, v, z.sb) BY TamePlaces
<1>3. CASE g \notin Groups
  <2>1. Neutral(a) /\ \A b \in Blocks : a # DataAt(b) BY <1>3, Distinct DEF Neutral
  <2> HIDE DEF a, v
  <2> QED BY <1>0, <1>2, <2>1, KeptWrite
<1>4. CASE g \in Groups
  <2>1. v = s.d[a] BY <1>1, <1>4 DEF Exact
  <2> HIDE DEF a, v
  <2>0. Wrote(s, a, v, t) BY <1>1, WroteDisk
  <2>3. Tame(t, z.sb) BY <1>1, <1>2, TameWriteBlock
  <2> HIDE DEF t
  <2>2. t.d = [s.d EXCEPT ![a] = v] /\ t.w = Append(s.w, <<a, v>>) /\ t.m = s.m BY <2>0, Zenon DEF Wrote
  <2>4. DOMAIN t.d = DOMAIN s.d /\ \A x \in DOMAIN s.d : t.d[x] = s.d[x] BY <2>1, <2>2
  <2>5. DOMAIN s.d = Addresses BY <1>1 DEF Exact, Near
  <2>6. SameBooks(s.d, t.d) BY <2>4, <2>5, BookPlaces DEF SameBooks
  <2>7. ASSUME z.n = 0, NEW b \in Blocks PROVE BlockUsed(s.d, t.d[DataAt(b)])
    BY <1>1, <2>4, <2>5, <2>7, BookPlaces DEF Exact, Totals
  <2>9. Exact(s.m.sb, s.m.gd, t.d, z.n) BY <1>1, <2>6, <2>7, SameBooksExact
  <2>10. Near(t.d, z.n + 1) BY <1>1, <2>9, NearMore DEF Exact
  <2>11. Trail(z.d, Append(s.w, <<a, v>>), t.d, z.n + 1) BY <1>1, <2>2, <2>10, TrailAppend, Zenon
  <2>12. Trail(z.d, t.w, t.d, z.n + 1) BY <2>2, <2>11, Zenon
  <2>13. ASSUME NEW h \in U PROVE h \in Groups /\ ~t.d[Desc(h)].uninit BY <2>6 DEF Kept, SameBooks
  <2>8. Kept(t, z, U) BY <1>1, <2>2, <2>3, <2>9, <2>12, <2>13 DEF Kept, CanWrite
  <2> QED BY <1>0, <2>8
<1> QED BY <1>3, <1>4

\* The disk that the writes of state s have made.
HasDisk(s, f) == s.d = f

\* A descriptor changed in memory goes out, and then a bitmap.
LEMMA KeptPair ==
  ASSUME NEW s, NEW z, NEW U, Kept(s, z, U), NEW g,
         NEW t, Tame(t, z.sb), CanWrite(t), t.d = s.d, t.w = s.w,
         NEW a, NEW v, TameWrite(a, v, z.sb),
         NEW e, NEW f, PairOf(s.d, Desc(g), t.m.gd[g], a, v, e, f),
         Near(e, z.n + 1), Exact(t.m.sb, t.m.gd, f, z.n),
         \A h \in U : ~s.d[Desc(h)].uninit => ~f[Desc(h)].uninit
  PROVE  Kept(WriteBlock(SyncGd(t, g), a, v), z, U) /\ HasDisk(WriteBlock(SyncGd(t, g), a, v), f)
<1> DEFINE x == t.m.gd[g]
<1> DEFINE c == Desc(g)
<1> DEFINE u == WriteBlock(t, c, x)
<1> DEFINE w == WriteBlock(u, a, v)
<1>0. SyncGd(t, g) = u BY DEF SyncGd
<1>1. Trail(z.d, s.w, s.d, z.n + 1) /\ z.n \in Nat BY DEF Kept
<1>2. TameWrite(c, x, z.sb) BY TamePlaces
<1>3. e = [s.d EXCEPT ![c] = x] /\ f = [e EXCEPT ![a] = v] BY DEF PairOf
<1> HIDE DEF x, c
<1>4. IsState(t) BY DEF Tame
<1>5. Wrote(t, c, x, u) BY <1>4, WroteDisk
<1>6. Tame(u, z.sb) BY <1>2, TameWriteBlock
<1> HIDE DEF u
<1>7. u.d = e /\ u.m = t.m BY <1>3, <1>5, Zenon DEF Wrote
<1>8. u.w = Append(s.w, <<c, x>>) BY <1>5, Zenon DEF Wrote
<1>9. IsState(u) /\ CanWrite(u) BY <1>6, <1>7 DEF Tame, CanWrite
<1>10. Wrote(u, a, v, w) BY <1>9, WroteDisk
<1>11. Tame(w, z.sb) BY <1>6, TameWriteBlock
<1> HIDE DEF w
<1>12. w.d = f /\ w.m = t.m BY <1>3, <1>7, <1>10, Zenon DEF Wrote
<1>13. w.w = Append(u.w, <<a, v>>) BY <1>10, Zenon DEF Wrote
<1>14. Trail(z.d, Append(s.w, <<c, x>>), e, z.n + 1) BY <1>1, <1>3, TrailAppend, Zenon
<1>15. Trail(z.d, u.w, e, z.n + 1) BY <1>8, <1>14, Zenon
<1>16. Near(f, z.n + 1) BY <1>1, NearMore DEF Exact
<1>17. Trail(z.d, Append(u.w, <<a, v>>), f, z.n + 1) BY <1>3, <1>15, <1>16, TrailAppend, Zenon
<1>18. Trail(z.d, w.w, f, z.n + 1) BY <1>13, <1>17, Zenon
<1>19. \A h \in U : h \in Groups /\ ~w.d[Desc(h)].uninit BY <1>12 DEF Kept
<1>20. Kept(w, z, U) BY <1>1, <1>11, <1>12, <1>18, <1>19 DEF Kept, CanWrite
<1> QED BY <1>0, <1>12, <1>20 DEF w, HasDisk

\* State t is s with descriptor x for group g in memory.
Recounted(s, t, g, x) ==
  /\ DOMAIN t = DOMAIN s /\ t.d = s.d /\ t.w = s.w /\ CanWrite(t) /\ DOMAIN t.m = DOMAIN s.m
  /\ t.m.gd = [s.m.gd EXCEPT ![g] = x]

LEMMA BlocksRecounted ==
  ASSUME NEW s, IsState(s), CanWrite(s), NEW g, NEW y, NEW t, t = AdjustFreeBlocks(s, g, y)
  PROVE  /\ Recounted(s, t, g, [s.m.gd[g] EXCEPT !.blocks = AtLeastZero(@ + y)])
         /\ t.m.sb.blocks = AtLeastZero(s.m.sb.blocks + y) /\ t.m.sb.inodes = s.m.sb.inodes
<1> DEFINE x == [s.m.gd[g] EXCEPT !.blocks = AtLeastZero(@ + y)]
<1> DEFINE gd == [s.m.gd EXCEPT ![g] = x]
<1> DEFINE sb == [s.m.sb EXCEPT !.blocks = AtLeastZero(@ + y)]
<1> DEFINE m == [s.m EXCEPT !.gd = gd, !.sb = sb]
<1>1. t = [s EXCEPT !.m = m] BY DEF AdjustFreeBlocks, IsState
<1>2. sb.blocks = AtLeastZero(s.m.sb.blocks + y) /\ sb.inodes = s.m.sb.inodes BY DEF IsState, NoSuper
<1> HIDE DEF gd, sb
<1>3. m.gd = gd /\ m.sb = sb /\ m.dev = s.m.dev /\ m.writable = s.m.writable /\ DOMAIN m = DOMAIN s.m
  BY DEF IsState
<1> HIDE DEF m
<1>4. DOMAIN t = DOMAIN s /\ t.d = s.d /\ t.w = s.w /\ t.m = m BY <1>1 DEF IsState
<1>5. t.m.gd = [s.m.gd EXCEPT ![g] = x] BY <1>3, <1>4 DEF gd
<1> HIDE DEF x
<1>6. Recounted(s, t, g, x) BY <1>3, <1>4, <1>5 DEF Recounted, CanWrite
<1> QED BY <1>2, <1>3, <1>4, <1>6 DEF x

LEMMA InodesRecounted ==
  ASSUME NEW s, IsState(s), CanWrite(s), NEW g, NEW y, NEW t, t = AdjustFreeInodes(s, g, y)
  PROVE  /\ Recounted(s, t, g, [s.m.gd[g] EXCEPT !.inodes = AtLeastZero(@ + y)])
         /\ t.m.sb.inodes = AtLeastZero(s.m.sb.inodes + y) /\ t.m.sb.blocks = s.m.sb.blocks
<1> DEFINE x == [s.m.gd[g] EXCEPT !.inodes = AtLeastZero(@ + y)]
<1> DEFINE gd == [s.m.gd EXCEPT ![g] = x]
<1> DEFINE sb == [s.m.sb EXCEPT !.inodes = AtLeastZero(@ + y)]
<1> DEFINE m == [s.m EXCEPT !.gd = gd, !.sb = sb]
<1>1. t = [s EXCEPT !.m = m] BY DEF AdjustFreeInodes, IsState
<1>2. sb.inodes = AtLeastZero(s.m.sb.inodes + y) /\ sb.blocks = s.m.sb.blocks BY DEF IsState, NoSuper
<1> HIDE DEF gd, sb
<1>3. m.gd = gd /\ m.sb = sb /\ m.dev = s.m.dev /\ m.writable = s.m.writable /\ DOMAIN m = DOMAIN s.m
  BY DEF IsState
<1> HIDE DEF m
<1>4. DOMAIN t = DOMAIN s /\ t.d = s.d /\ t.w = s.w /\ t.m = m BY <1>1 DEF IsState
<1>5. t.m.gd = [s.m.gd EXCEPT ![g] = x] BY <1>3, <1>4 DEF gd
<1> HIDE DEF x
<1>6. Recounted(s, t, g, x) BY <1>3, <1>4, <1>5 DEF Recounted, CanWrite
<1> QED BY <1>2, <1>3, <1>4, <1>6 DEF x

\* What is on the disk after the two writes, and that the rest is as it was.
LEMMA BlockPairStored ==
  ASSUME NEW d, DOMAIN d = Addresses, NEW g \in Groups, NEW x, NEW v, NEW e, NEW f,
         PairOf(d, Desc(g), x, BlockBitmap(g), v, e, f)
  PROVE  /\ f[BlockBitmap(g)] = v
         /\ \A h \in Groups : h # g => f[BlockBitmap(h)] = d[BlockBitmap(h)]
<1>1. DescMoved(d, e, g, x) BY DescStored, Zenon DEF PairOf
<1>2. DOMAIN e = Addresses BY <1>1 DEF DescMoved
<1>3. BlockBitsMoved(e, f, g, v) BY <1>2, BlockBitsStored, Zenon DEF PairOf
<1> QED BY <1>1, <1>3 DEF DescMoved, BlockBitsMoved

LEMMA InodePairStored ==
  ASSUME NEW d, DOMAIN d = Addresses, NEW g \in Groups, NEW x, NEW v, NEW e, NEW f,
         PairOf(d, Desc(g), x, InodeBitmap(g), v, e, f)
  PROVE  /\ f[InodeBitmap(g)] = v /\ f[Desc(g)] = x
         /\ \A h \in Groups : h # g => f[InodeBitmap(h)] = d[InodeBitmap(h)] /\ f[Desc(h)] = d[Desc(h)]
<1>1. DescMoved(d, e, g, x) BY DescStored, Zenon DEF PairOf
<1>2. DOMAIN e = Addresses BY <1>1 DEF DescMoved
<1>3. InodeBitsMoved(e, f, g, v) BY <1>2, InodeBitsStored, Zenon DEF PairOf
<1> QED BY <1>1, <1>3 DEF DescMoved, InodeBitsMoved

\* A block changes hands: its bit is v, and its group has one more or one less.
LEMMA KeptBlockPair ==
  ASSUME NEW s, NEW z, NEW U, Kept(s, z, U), NEW g \in Groups, NEW y \in {-1, 1}, NEW v,
         \A f : /\ f[BlockBitmap(g)] = v
                /\ \A h \in Groups : h # g => f[BlockBitmap(h)] = s.d[BlockBitmap(h)]
                => BlockMoves(s.d, f, g, y)
  PROVE  Kept(WriteBlock(SyncGd(AdjustFreeBlocks(s, g, y), g), BlockBitmap(g), v), z, U)
<1> DEFINE t == AdjustFreeBlocks(s, g, y)
<1> DEFINE x == [s.m.gd[g] EXCEPT !.blocks = AtLeastZero(@ + y)]
<1> DEFINE c == Desc(g)
<1> DEFINE a == BlockBitmap(g)
<1> DEFINE e == [s.d EXCEPT ![c] = x]
<1> DEFINE f == [e EXCEPT ![a] = v]
<1>1. Tame(s, z.sb) /\ IsState(s) /\ CanWrite(s) /\ z.n \in Nat /\ Exact(s.m.sb, s.m.gd, s.d, z.n)
  BY DEF Kept, Tame
<1>2. /\ Recounted(s, t, g, x)
      /\ t.m.sb.blocks = AtLeastZero(s.m.sb.blocks + y) /\ t.m.sb.inodes = s.m.sb.inodes
  BY <1>1, BlocksRecounted
<1>3. Tame(t, z.sb) BY <1>1, TameAdjust
<1> HIDE DEF t
<1>4. s.m.gd = [h \in Groups |-> s.d[Desc(h)]] /\ DOMAIN s.d = Addresses BY <1>1 DEF Exact, Near
<1>5. BlockDesc(s.d[Desc(g)], x, y) BY <1>4 DEF BlockDesc
<1>7. PairOf(s.d, Desc(g), x, a, v, e, f) BY DEF PairOf
<1>12. TameWrite(a, v, z.sb) BY TamePlaces
<1> HIDE DEF x, e, f
<1>6. t.m.gd[g] = x /\ t.m.gd = [s.m.gd EXCEPT ![g] = x] BY <1>2, <1>4 DEF Recounted
<1>8. BlockMoves(s.d, f, g, y)
  <2>1. /\ f[BlockBitmap(g)] = v
        /\ \A h \in Groups : h # g => f[BlockBitmap(h)] = s.d[BlockBitmap(h)]
    BY <1>4, <1>7, BlockPairStored
  <2> QED BY <2>1
<1>9. /\ Near(e, z.n + 1) /\ Exact(t.m.sb, [s.m.gd EXCEPT ![g] = x], f, z.n)
      /\ \A h \in Groups : f[Desc(h)].uninit = s.d[Desc(h)].uninit
  <2> DEFINE d == s.d
  <2> DEFINE sb == s.m.sb
  <2> DEFINE sc == t.m.sb
  <2> DEFINE gd == s.m.gd
  <2> DEFINE n == z.n
  <2>1. /\ n \in Nat /\ Exact(sb, gd, d, n) /\ BlockDesc(d[Desc(g)], x, y)
        /\ PairOf(d, Desc(g), x, BlockBitmap(g), v, e, f) /\ BlockMoves(d, f, g, y)
        /\ sc.blocks = AtLeastZero(sb.blocks + y) /\ sc.inodes = sb.inodes
    BY <1>1, <1>2, <1>5, <1>7, <1>8
  <2> HIDE DEF d, sb, sc, gd, n
  <2>2. /\ Near(e, n + 1) /\ Exact(sc, [gd EXCEPT ![g] = x], f, n)
        /\ \A h \in Groups : f[Desc(h)].uninit = d[Desc(h)].uninit
    BY <2>1, BlockBooks
  <2> QED BY <2>2 DEF d, sb, sc, gd, n
<1>10. Exact(t.m.sb, t.m.gd, f, z.n) BY <1>6, <1>9
<1>11. \A h \in U : ~s.d[Desc(h)].uninit => ~f[Desc(h)].uninit BY <1>9 DEF Kept
<1>13. PairOf(s.d, Desc(g), t.m.gd[g], a, v, e, f) BY <1>6, <1>7
<1>15. CanWrite(t) /\ t.d = s.d /\ t.w = s.w BY <1>2 DEF Recounted
<1> HIDE DEF a
<1>16. Kept(WriteBlock(SyncGd(t, g), a, v), z, U)
  BY <1>3, <1>9, <1>10, <1>11, <1>12, <1>13, <1>15, KeptPair
<1> QED BY <1>16 DEF t, a

\* The bitmaps are as they were when a descriptor has gone out.
LEMMA BitsAsBefore ==
  ASSUME NEW s, NEW k, Tame(s, k), CanWrite(s), NEW g \in Groups, NEW y
  PROVE  /\ SyncGd(AdjustFreeBlocks(s, g, y), g).d[BlockBitmap(g)] = s.d[BlockBitmap(g)]
         /\ SyncGd(AdjustFreeInodes(s, g, y), g).d[InodeBitmap(g)] = s.d[InodeBitmap(g)]
<1>0. IsState(s) /\ DOMAIN s.d = Addresses BY DEF Tame, VolumeOK
<1>1. ASSUME NEW t, IsState(t), CanWrite(t), t.d = s.d
      PROVE  /\ SyncGd(t, g).d[BlockBitmap(g)] = s.d[BlockBitmap(g)]
             /\ SyncGd(t, g).d[InodeBitmap(g)] = s.d[InodeBitmap(g)]
  <2>1. Stored(t.d, WriteBlock(t, Desc(g), t.m.gd[g]).d, Desc(g), t.m.gd[g]) BY <1>1, WriteBlockFacts
  <2>2. Stored(s.d, SyncGd(t, g).d, Desc(g), t.m.gd[g]) BY <1>1, <2>1 DEF SyncGd
  <2> QED BY <1>0, <2>2, BookPlaces, Distinct DEF Stored
<1>2. ASSUME NEW t, t \in {AdjustFreeBlocks(s, g, y), AdjustFreeInodes(s, g, y)}
      PROVE  IsState(t) /\ CanWrite(t) /\ t.d = s.d
  <2>1. Tame(t, k) BY <1>2, TameAdjust
  <2>2. IsState(t) BY <2>1 DEF Tame
  <2>3. \E x : Recounted(s, t, g, x)
    <3>1. CASE t = AdjustFreeBlocks(s, g, y) BY <1>0, <3>1, BlocksRecounted, Zenon
    <3>2. CASE t = AdjustFreeInodes(s, g, y) BY <1>0, <3>2, InodesRecounted, Zenon
    <3> QED BY <1>2, <3>1, <3>2
  <2>4. CanWrite(t) /\ t.d = s.d BY <2>3 DEF Recounted
  <2> QED BY <2>2, <2>4
<1> QED BY <1>1, <1>2

LEMMA KeptTakeBlock ==
  ASSUME NEW s, NEW z, NEW U, Kept(s, z, U), NEW g \in Groups, NEW b \in FreeBlocksIn(s, g)
  PROVE  Kept(TakeBlock(s, g, b), z, U)
<1> DEFINE u == SyncGd(AdjustFreeBlocks(s, g, -1), g)
<1> DEFINE v == s.d[BlockBitmap(g)] \cup {b}
<1> DEFINE w == WriteBlock(u, BlockBitmap(g), v)
<1> DEFINE x == WriteBlock(w, DataAt(b), ZERO)
<1>1. Tame(s, z.sb) /\ CanWrite(s) BY DEF Kept
<1>2. u.d[BlockBitmap(g)] = s.d[BlockBitmap(g)] BY <1>1, BitsAsBefore
<1>3. b \in BlockRoom(s.d, g) BY DEF FreeBlocksIn, BlockRoom
<1>4. ASSUME NEW f, f[BlockBitmap(g)] = v,
             \A h \in Groups : h # g => f[BlockBitmap(h)] = s.d[BlockBitmap(h)]
      PROVE  BlockMoves(s.d, f, g, -1)
  BY <1>3, <1>4, BlockTaken
<1>5. TakeBlock(s, g, b) = [x EXCEPT !.out = b] BY <1>2 DEF TakeBlock, SetBit
<1> HIDE DEF v
<1>6. Kept(w, z, U) BY <1>4, KeptBlockPair
<1> HIDE DEF w, u
<1>7. Kept(x, z, U)
  <2>1. BlockOK(ZERO) BY TameBlocks
  <2>2. BlockUsed(w.d, ZERO) BY DEF BlockUsed, ZERO
  <2> QED BY <1>6, <2>1, <2>2, KeptData
<1> HIDE DEF x
<1> QED BY <1>5, <1>7, KeptOut

LEMMA KeptAllocBlock ==
  ASSUME NEW s, NEW z, NEW U, Kept(s, z, U), NEW h \in Int PROVE Kept(AllocBlockNear(s, h), z, U)
<1> DEFINE room == {i \in 1 .. GroupCount : FreeBlocksIn(s, GroupsFrom(h)[i]) # {}}
<1> DEFINE g == GroupsFrom(h)[Min(room)]
<1> DEFINE b == Min(FreeBlocksIn(s, g))
<1>1. \/ AllocBlockNear(s, h) = Fail(s)
      \/ room # {} /\ AllocBlockNear(s, h) = TakeBlock(s, g, b)
  BY Zenon DEF AllocBlockNear
<1>2. ASSUME room # {} PROVE g \in Groups /\ b \in FreeBlocksIn(s, g)
  <2>1. room \subseteq Nat OBVIOUS
  <2>2. \A i \in room : i \in 1 .. GroupCount /\ FreeBlocksIn(s, GroupsFrom(h)[i]) # {} OBVIOUS
  <2> HIDE DEF room
  <2>3. Min(room) \in room BY <1>2, <2>1, LeastIn
  <2>4. g \in Groups /\ FreeBlocksIn(s, g) # {} BY <2>2, <2>3, GroupsFromIn
  <2>5. FreeBlocksIn(s, g) \subseteq Nat BY GeometryAssumption DEF FreeBlocksIn, Blocks
  <2> HIDE DEF g
  <2> QED BY <2>4, <2>5, LeastIn
<1> HIDE DEF room, g, b
<1> QED BY <1>1, <1>2, KeptTakeBlock, KeptDone

LEMMA KeptFreeBlock ==
  ASSUME NEW s, NEW z, NEW U, Kept(s, z, U), NEW b PROVE Kept(FreeBlock(s, b), z, U)
<1> DEFINE g == BlockGroup(b)
<1> DEFINE u == SyncGd(AdjustFreeBlocks(s, g, 1), g)
<1> DEFINE v == s.d[BlockBitmap(g)] \ {b}
<1>1. \/ FreeBlock(s, b) = Fail(s)
      \/ /\ b \in Blocks /\ b \in s.d[BlockBitmap(g)]
         /\ FreeBlock(s, b) = ClearBit(u, BlockBitmap(g), b)
  BY Zenon DEF FreeBlock
<1>2. CASE b \in Blocks /\ b \in s.d[BlockBitmap(g)] /\ FreeBlock(s, b) = ClearBit(u, BlockBitmap(g), b)
  <2>0. g \in Groups BY <1>2, GroupBounds
  <2>1. Tame(s, z.sb) /\ CanWrite(s) BY DEF Kept
  <2>2. u.d[BlockBitmap(g)] = s.d[BlockBitmap(g)] BY <2>0, <2>1, BitsAsBefore
  <2>3. FreeBlock(s, b) = WriteBlock(u, BlockBitmap(g), v) BY <1>2, <2>2 DEF ClearBit
  <2>4. ASSUME NEW f, f[BlockBitmap(g)] = v,
               \A h \in Groups : h # g => f[BlockBitmap(h)] = s.d[BlockBitmap(h)]
        PROVE  BlockMoves(s.d, f, g, 1)
    BY <1>2, <2>0, <2>4, BlockGiven
  <2> HIDE DEF v, g
  <2>5. Kept(WriteBlock(u, BlockBitmap(g), v), z, U) BY <2>0, <2>4, KeptBlockPair
  <2> QED BY <2>3, <2>5
<1> QED BY <1>1, <1>2, KeptDone

\* An inode changes hands.
InodeDesc(o, x, y) ==
  /\ DOMAIN x = DOMAIN NoDesc /\ x.blocks = o.blocks /\ x.inodes = AtLeastZero(o.inodes + y)
  /\ ~o.uninit => ~x.uninit

\* Disk f is d but for the descriptor x and the inode bitmap v of group g.
InodePair(d, f, g, x, v) ==
  /\ f[InodeBitmap(g)] = v /\ f[Desc(g)] = x
  /\ \A h \in Groups : h # g => f[InodeBitmap(h)] = d[InodeBitmap(h)] /\ f[Desc(h)] = d[Desc(h)]

LEMMA KeptInodePair ==
  ASSUME NEW s, NEW z, NEW U, Kept(s, z, U), NEW g \in Groups, NEW y \in {-1, 1}, NEW x, NEW t,
         Tame(t, z.sb), Recounted(s, t, g, x), InodeDesc(s.d[Desc(g)], x, y),
         t.m.sb.inodes = AtLeastZero(s.m.sb.inodes + y), t.m.sb.blocks = s.m.sb.blocks, NEW v,
         z.n = 0 => \A f : InodePair(s.d, f, g, x, v) => InodeMoves(s.d, f, g, y)
  PROVE  /\ Kept(WriteBlock(SyncGd(t, g), InodeBitmap(g), v), z, U)
         /\ WriteBlock(SyncGd(t, g), InodeBitmap(g), v).d[Desc(g)] = x
<1> DEFINE c == Desc(g)
<1> DEFINE a == InodeBitmap(g)
<1> DEFINE e == [s.d EXCEPT ![c] = x]
<1> DEFINE f == [e EXCEPT ![a] = v]
<1>1. z.n \in Nat /\ Exact(s.m.sb, s.m.gd, s.d, z.n) BY DEF Kept
<1>4. s.m.gd = [h \in Groups |-> s.d[Desc(h)]] /\ DOMAIN s.d = Addresses BY <1>1 DEF Exact, Near
<1>7. PairOf(s.d, Desc(g), x, a, v, e, f) BY DEF PairOf
<1>12. TameWrite(a, v, z.sb) BY TamePlaces
<1> HIDE DEF e, f
<1>6. t.m.gd[g] = x /\ t.m.gd = [s.m.gd EXCEPT ![g] = x] BY <1>4 DEF Recounted
<1>8. z.n = 0 => InodeMoves(s.d, f, g, y)
  <2>1. InodePair(s.d, f, g, x, v) BY <1>4, <1>7, InodePairStored DEF InodePair
  <2> QED BY <2>1
<1>9. /\ Near(e, z.n + 1) /\ Exact(t.m.sb, [s.m.gd EXCEPT ![g] = x], f, z.n)
      /\ \A h \in Groups : ~s.d[Desc(h)].uninit => ~f[Desc(h)].uninit
      /\ f[Desc(g)] = x
  <2> DEFINE d == s.d
  <2> DEFINE sb == s.m.sb
  <2> DEFINE sc == t.m.sb
  <2> DEFINE gd == s.m.gd
  <2> DEFINE n == z.n
  <2>1. /\ n \in Nat /\ Exact(sb, gd, d, n) /\ DOMAIN x = DOMAIN NoDesc
        /\ x.blocks = d[Desc(g)].blocks /\ x.inodes = AtLeastZero(d[Desc(g)].inodes + y)
        /\ ~d[Desc(g)].uninit => ~x.uninit
        /\ PairOf(d, Desc(g), x, InodeBitmap(g), v, e, f) /\ (n = 0 => InodeMoves(d, f, g, y))
        /\ sc.inodes = AtLeastZero(sb.inodes + y) /\ sc.blocks = sb.blocks
    BY <1>1, <1>7, <1>8 DEF InodeDesc
  <2> HIDE DEF d, sb, sc, gd, n
  <2>2. /\ Near(e, n + 1) /\ Exact(sc, [gd EXCEPT ![g] = x], f, n)
        /\ \A h \in Groups : ~d[Desc(h)].uninit => ~f[Desc(h)].uninit
        /\ f[Desc(g)] = x
    BY <2>1, InodeBooks
  <2> QED BY <2>2 DEF d, sb, sc, gd, n
<1>10. Exact(t.m.sb, t.m.gd, f, z.n) BY <1>6, <1>9
<1>11. \A h \in U : ~s.d[Desc(h)].uninit => ~f[Desc(h)].uninit BY <1>9 DEF Kept
<1>13. PairOf(s.d, Desc(g), t.m.gd[g], a, v, e, f) BY <1>6, <1>7
<1>15. CanWrite(t) /\ t.d = s.d /\ t.w = s.w BY DEF Recounted
<1> HIDE DEF a
<1>14. Kept(s, z, U) /\ Tame(t, z.sb) /\ Near(e, z.n + 1) BY <1>9
<1> HIDE DEF c
<1>16. Kept(WriteBlock(SyncGd(t, g), a, v), z, U)
  BY <1>10, <1>11, <1>12, <1>13, <1>14, <1>15, KeptPair
<1>17. HasDisk(WriteBlock(SyncGd(t, g), a, v), f)
  BY <1>10, <1>11, <1>12, <1>13, <1>14, <1>15, KeptPair
<1> QED BY <1>9, <1>16, <1>17 DEF a, HasDisk

LEMMA KeptTakeInode ==
  ASSUME NEW s, NEW z, NEW U, Kept(s, z, U), NEW g \in Groups, NEW i \in FreeInodesIn(s, g)
  PROVE  Kept(TakeInode(s, g, i), z, U \cup {g}) /\ TakeInode(s, g, i).out = i
<1> DEFINE t == AdjustFreeInodes(s, g, -1)
<1> DEFINE u == [t EXCEPT !.m.gd[g].uninit = FALSE]
<1> DEFINE v == InodeBits(s, g) \cup {i}
<1> DEFINE w == WriteBlock(SyncGd(u, g), InodeBitmap(g), v)
<1> DEFINE o == s.m.gd[g]
<1> DEFINE p == [o EXCEPT !.inodes = AtLeastZero(@ + -1)]
<1> DEFINE x == [p EXCEPT !.uninit = FALSE]
<1>1. Tame(s, z.sb) /\ IsState(s) /\ CanWrite(s) /\ z.n \in Nat /\ Exact(s.m.sb, s.m.gd, s.d, z.n)
  BY DEF Kept, Tame
<1>2. s.m.gd = [h \in Groups |-> s.d[Desc(h)]] /\ NearGroup(s.d, g, z.n) BY <1>1 DEF Exact, Near
<1>3. o = s.d[Desc(g)] /\ DOMAIN o = DOMAIN NoDesc BY <1>2 DEF NearGroup
<1>4. TakeInode(s, g, i) = [w EXCEPT !.out = i] BY DEF TakeInode
<1>5. /\ Recounted(s, t, g, p) /\ t.m.sb.inodes = AtLeastZero(s.m.sb.inodes + -1)
      /\ t.m.sb.blocks = s.m.sb.blocks
  BY <1>1, InodesRecounted
<1>6. Tame(t, z.sb) BY <1>1, TameAdjust
<1>7. p.blocks = o.blocks /\ p.inodes = AtLeastZero(o.inodes + -1) /\ DOMAIN p = DOMAIN NoDesc
  BY <1>3 DEF NoDesc
<1> HIDE DEF t, p, v
<1>8. /\ x.blocks = o.blocks /\ x.inodes = AtLeastZero(o.inodes + -1) /\ DOMAIN x = DOMAIN NoDesc
      /\ ~x.uninit
  BY <1>7 DEF NoDesc
<1>9. InodeDesc(s.d[Desc(g)], x, -1) BY <1>3, <1>8 DEF InodeDesc
<1>10. Tame(u, z.sb) /\ Recounted(s, u, g, x) /\ u.m.sb = t.m.sb
  <2> DEFINE gd == [t.m.gd EXCEPT ![g].uninit = FALSE]
  <2> DEFINE m == [t.m EXCEPT !.gd = gd]
  <2>1. u = [t EXCEPT !.m.gd = gd] BY Zenon
  <2>2. u = [t EXCEPT !.m = m] BY Zenon
  <2>3. t.m.gd = [s.m.gd EXCEPT ![g] = p] /\ g \in DOMAIN s.m.gd BY <1>2, <1>5 DEF Recounted
  <2>4. gd = [s.m.gd EXCEPT ![g] = x] BY <1>2, <2>3
  <2> HIDE DEF gd, u, x
  <2>5. Tame(u, z.sb) BY <1>6, <2>1, TameDescriptors
  <2>6. /\ DOMAIN t = DOMAIN s /\ t.d = s.d /\ t.w = s.w /\ CanWrite(t) /\ DOMAIN t.m = DOMAIN s.m
    BY <1>5 DEF Recounted
  <2>7. DOMAIN m = DOMAIN s.m /\ m.gd = gd /\ m.sb = t.m.sb /\ m.dev = t.m.dev /\ m.writable = t.m.writable
    BY <1>1, <2>6 DEF IsState
  <2> HIDE DEF m
  <2>8. DOMAIN u = DOMAIN s /\ u.d = s.d /\ u.w = s.w /\ u.m = m BY <1>1, <2>2, <2>6 DEF IsState
  <2> QED BY <2>4, <2>5, <2>6, <2>7, <2>8 DEF Recounted, CanWrite
<1>11. Bits(s.d, g) = InodeBits(s, g) BY <1>3 DEF Bits, InodeBits
<1>12. i \in RoomForInodes(s.d, g) BY <1>11 DEF FreeInodesIn, Candidates, RoomForInodes
<1> HIDE DEF u, x
<1>13. ASSUME NEW f, InodePair(s.d, f, g, x, v) PROVE InodeMoves(s.d, f, g, -1)
  <2>1. /\ f[InodeBitmap(g)] = v /\ f[Desc(g)] = x
        /\ \A h \in Groups : h # g => f[InodeBitmap(h)] = s.d[InodeBitmap(h)] /\ f[Desc(h)] = s.d[Desc(h)]
    BY <1>13 DEF InodePair
  <2>2. f[InodeBitmap(g)] = Bits(s.d, g) \cup {i} /\ ~f[Desc(g)].uninit BY <1>8, <1>11, <2>1 DEF v
  <2> QED BY <1>12, <2>1, <2>2, InodeTaken
<1>14. u.m.sb.inodes = AtLeastZero(s.m.sb.inodes + -1) /\ u.m.sb.blocks = s.m.sb.blocks BY <1>5, <1>10
<1>15. Kept(w, z, U) /\ w.d[Desc(g)] = x BY <1>9, <1>10, <1>13, <1>14, KeptInodePair
<1>17. Kept(w, z, U \cup {g})
  <2> HIDE DEF w
  <2> QED BY <1>8, <1>15 DEF Kept
<1>18. "out" \in DOMAIN w
  <2> HIDE DEF w
  <2> QED BY <1>15 DEF Kept, Tame, IsState
<1> HIDE DEF w
<1>19. Kept([w EXCEPT !.out = i], z, U \cup {g}) BY <1>17, KeptOut
<1> QED BY <1>4, <1>18, <1>19

LEMMA KeptAllocInode ==
  ASSUME NEW s, NEW z, NEW U, Kept(s, z, U), NEW h \in Int
  PROVE  /\ Kept(AllocInode(s, h), z, U)
         /\ AllocInode(s, h).rc = 0 =>
              /\ AllocInode(s, h).out \in Inodes
              /\ Kept(AllocInode(s, h), z, U \cup {InodeGroup(AllocInode(s, h).out)})
<1> DEFINE room == {i \in 1 .. GroupCount : FreeInodesIn(s, GroupsFrom(h)[i]) # {}}
<1> DEFINE g == GroupsFrom(h)[Min(room)]
<1> DEFINE i == Min(FreeInodesIn(s, g))
<1> DEFINE a == AllocInode(s, h)
<1>1. a = Fail(s) \/ (room # {} /\ a = TakeInode(s, g, i)) BY Zenon DEF AllocInode
<1>2. ASSUME room # {} PROVE g \in Groups /\ i \in FreeInodesIn(s, g)
  <2>1. room \subseteq Nat OBVIOUS
  <2>2. \A j \in room : j \in 1 .. GroupCount /\ FreeInodesIn(s, GroupsFrom(h)[j]) # {} OBVIOUS
  <2> HIDE DEF room
  <2>3. Min(room) \in room BY <1>2, <2>1, LeastIn
  <2>4. g \in Groups /\ FreeInodesIn(s, g) # {} BY <2>2, <2>3, GroupsFromIn
  <2>5. FreeInodesIn(s, g) \subseteq Nat BY GeometryAssumption DEF FreeInodesIn, Candidates, Inodes
  <2> HIDE DEF g
  <2> QED BY <2>4, <2>5, LeastIn
<1> HIDE DEF room, g, i
<1>3. CASE a = Fail(s)
  <2>1. IsState(s) BY DEF Kept, Tame
  <2>2. Fail(s).rc # 0 BY <2>1 DEF Fail, IsState
  <2> HIDE DEF a
  <2>3. Kept(a, z, U) /\ a.rc # 0 BY <1>3, <2>2, KeptDone
  <2> QED BY <2>3 DEF a
<1>4. CASE room # {} /\ a = TakeInode(s, g, i)
  <2>1. Kept(TakeInode(s, g, i), z, U \cup {g}) /\ TakeInode(s, g, i).out = i BY <1>2, <1>4, KeptTakeInode
  <2>2. i \in Inodes /\ InodeGroup(i) = g BY <1>2, <1>4 DEF FreeInodesIn, Candidates
  <2> HIDE DEF a
  <2>3. Kept(a, z, U \cup {InodeGroup(a.out)}) /\ a.out \in Inodes BY <1>4, <2>1, <2>2
  <2>4. Kept(a, z, U) BY <2>3, KeptFewer
  <2> QED BY <2>3, <2>4 DEF a
<1> QED BY <1>1, <1>3, <1>4

LEMMA KeptFreeInode ==
  ASSUME NEW s, NEW z, NEW U, Kept(s, z, U), NEW i \in Inodes, z.n = 0 => InodeGroup(i) \in U
  PROVE  Kept(FreeInode(s, i), z, U)
<1> DEFINE g == InodeGroup(i)
<1> DEFINE t == AdjustFreeInodes(s, g, 1)
<1> DEFINE u == SyncGd(t, g)
<1> DEFINE v == s.d[InodeBitmap(g)] \ {i}
<1> DEFINE o == s.m.gd[g]
<1> DEFINE x == [o EXCEPT !.inodes = AtLeastZero(@ + 1)]
<1>1. \/ FreeInode(s, i) = Fail(s)
      \/ /\ i \in s.d[InodeBitmap(g)]
         /\ FreeInode(s, i) = ClearBit(u, InodeBitmap(g), i)
  BY Zenon DEF FreeInode
<1>2. CASE i \in s.d[InodeBitmap(g)] /\ FreeInode(s, i) = ClearBit(u, InodeBitmap(g), i)
  <2>0. g \in Groups BY GroupBounds
  <2>1. Tame(s, z.sb) /\ IsState(s) /\ CanWrite(s) /\ Exact(s.m.sb, s.m.gd, s.d, z.n) BY DEF Kept, Tame
  <2>2. u.d[InodeBitmap(g)] = s.d[InodeBitmap(g)] BY <2>0, <2>1, BitsAsBefore
  <2>3. FreeInode(s, i) = WriteBlock(u, InodeBitmap(g), v) BY <1>2, <2>2 DEF ClearBit
  <2>4. s.m.gd = [h \in Groups |-> s.d[Desc(h)]] /\ NearGroup(s.d, g, z.n) BY <2>0, <2>1 DEF Exact, Near
  <2>5. o = s.d[Desc(g)] /\ DOMAIN o = DOMAIN NoDesc BY <2>0, <2>4 DEF NearGroup
  <2>6. /\ Recounted(s, t, g, x) /\ t.m.sb.inodes = AtLeastZero(s.m.sb.inodes + 1)
        /\ t.m.sb.blocks = s.m.sb.blocks
    BY <2>1, InodesRecounted
  <2>7. Tame(t, z.sb) BY <2>1, TameAdjust
  <2>8. /\ x.blocks = o.blocks /\ x.inodes = AtLeastZero(o.inodes + 1) /\ DOMAIN x = DOMAIN NoDesc
        /\ x.uninit = o.uninit
    BY <2>5 DEF NoDesc
  <2>9. InodeDesc(s.d[Desc(g)], x, 1) BY <2>5, <2>8 DEF InodeDesc
  <2>10. ASSUME z.n = 0, NEW f, InodePair(s.d, f, g, x, v) PROVE InodeMoves(s.d, f, g, 1)
    <3>1. /\ f[InodeBitmap(g)] = v /\ f[Desc(g)] = x
          /\ \A h \in Groups : h # g => f[InodeBitmap(h)] = s.d[InodeBitmap(h)] /\ f[Desc(h)] = s.d[Desc(h)]
      BY <2>10 DEF InodePair
    <3>2. ~s.d[Desc(g)].uninit BY <2>10 DEF Kept
    <3>3. ~f[Desc(g)].uninit BY <2>5, <2>8, <3>1, <3>2
    <3> QED BY <1>2, <2>0, <3>1, <3>2, <3>3, InodeGiven
  <2> HIDE DEF v, x, t
  <2>11. z.n = 0 => \A f : InodePair(s.d, f, g, x, v) => InodeMoves(s.d, f, g, 1) BY <2>10
  <2>12. Kept(WriteBlock(u, InodeBitmap(g), v), z, U)
    <3> HIDE DEF g
    <3> QED BY <2>0, <2>6, <2>7, <2>9, <2>11, KeptInodePair
  <2> QED BY <2>3, <2>12
<1> QED BY <1>1, <1>2, KeptDone

----------------------------------------------------------------------------
\* The loops over blocks, and the calls, keep the counts.

KeepsCounts(j, q, z, U) ==
  \A s : \A i \in 1 .. Len(q) : Kept(s, z, U) => Kept(Step(j, s, q[i]), z, U)

LEMMA KeptFold ==
  ASSUME NEW j, NEW z, NEW U, NEW s, Kept(s, z, U), NEW q, IsSeq(q), KeepsCounts(j, q, z, U)
  PROVE  Kept(Folded(j, s, q), z, U)
<1> DEFINE n == Len(q)
<1>1. n \in Nat /\ DOMAIN q = 1 .. n BY SeqFacts
<1>2. \A t : \A i \in 1 .. n : Kept(t, z, U) => Kept(Step(j, t, q[i]), z, U) BY DEF KeepsCounts
<1> HIDE DEF n
<1>5. PICK f : Stages(j, s, q, n, f) /\ Folded(j, s, q) = f[n] BY <1>1, FoldSteps
<1> DEFINE S == {i \in 0 .. n : Kept(f[i], z, U)}
<1>6. 0 \in S BY <1>1, <1>5 DEF Stages
<1>7. ASSUME NEW i \in 1 .. n, i - 1 \in S PROVE i \in S
  <2>1. Kept(f[i - 1], z, U) BY <1>7
  <2>2. f[i] = Step(j, f[i - 1], q[i]) BY <1>5 DEF Stages
  <2>3. Kept(f[i], z, U) BY <1>2, <2>1, <2>2
  <2> QED BY <1>1, <2>3
<1>8. \A i \in S : Kept(f[i], z, U) OBVIOUS
<1> HIDE DEF S
<1>9. Climbs(S, n) BY <1>6, <1>7 DEF Climbs
<1>10. Kept(f[n], z, U) BY <1>1, <1>8, <1>9, Climb
<1> QED BY <1>5, <1>10

LEMMA KeptFreeBlocks ==
  ASSUME NEW s, NEW z, NEW U, Kept(s, z, U), NEW q, IsSeq(q) PROVE Kept(FreeBlocks(s, q), z, U)
<1>1. \A t, x : Step("free", t, x) = FreeBlock(t, x) BY DEF Step
<1>2. KeepsCounts("free", q, z, U) BY <1>1, KeptFreeBlock DEF KeepsCounts
<1>3. FreeBlocks(s, q) = Folded("free", s, q) BY FoldLeftFree DEF FreeBlocks
<1> QED BY <1>2, <1>3, KeptFold

LEMMA KeptExtentTree == ASSUME NEW s, NEW z, NEW U, Kept(s, z, U) PROVE Kept(FreeExtentTree(s), z, U)
<1> DEFINE q == IF s.in.deep = <<>> THEN RunBlocks(s.in.runs) ELSE s.in.deep
<1>1. RunsOK(s.in.runs) /\ IsSeq(s.in.deep) BY DEF Kept, Tame, InodeOK
<1>2. IsSeq(q) BY <1>1, RunBlocksSeq
<1>3. FreeExtentTree(s) = FreeBlocks(s, q) BY DEF FreeExtentTree
<1> HIDE DEF q
<1> QED BY <1>2, <1>3, KeptFreeBlocks

LEMMA KeptIndirectTree ==
  ASSUME NEW s, NEW z, NEW U, Kept(s, z, U), NEW b, NEW heap
  PROVE  Kept(FreeIndirectTree(s, b, heap), z, U)
<1> DEFINE q == Children(s.d, b)
<1>1. IsSeq(q)
  <2>1. CASE b \in Blocks /\ s.d[DataAt(b)].k = "ptrs"
    <3>1. BlockOK(s.d[DataAt(b)]) BY <2>1 DEF Kept, Tame, VolumeOK
    <3>2. q = s.d[DataAt(b)].p BY <2>1, Zenon DEF Children
    <3> QED BY <2>1, <3>1, <3>2 DEF BlockOK
  <2>2. CASE ~(b \in Blocks /\ s.d[DataAt(b)].k = "ptrs")
    <3>1. q = <<>> BY <2>2, Zenon DEF Children
    <3> QED BY <3>1, EmptySeqFacts
  <2> QED BY <2>1, <2>2
<1> DEFINE r == q \o <<b>>
<1>2. FreeIndirectTree(s, b, heap) \in {s, FreeBlocks(s, r)} BY Zenon DEF FreeIndirectTree
<1> HIDE DEF q
<1>3. IsSeq(r) BY <1>1, SingleSeq, ConcatSeq
<1> HIDE DEF r
<1> QED BY <1>2, <1>3, KeptFreeBlocks

LEMMA KeptTruncate ==
  ASSUME NEW s, NEW z, NEW U, Kept(s, z, U), NEW heap \in BOOLEAN PROVE Kept(Truncate(s, heap), z, U)
<1>0. PICK j \in TreeLoops : Truncate(s, heap) = Emptied(s, j) BY TruncateLoops
<1> DEFINE q == Reverse(RunBlocks(s.in.runs))
<1> DEFINE freed == IF s.in.ext THEN FreeExtentTree(s)
                    ELSE Folded(j, FreeBlocks(s, q), s.in.deep)
<1>1. RunsOK(s.in.runs) /\ IsSeq(s.in.deep) BY DEF Kept, Tame, InodeOK
<1>2. IsSeq(q) BY <1>1, RunBlocksSeq, ReverseSeq
<1>3. Truncate(s, heap) = Done([freed EXCEPT !.in.runs = <<>>, !.in.deep = <<>>, !.in.size = 0])
  BY <1>0, Zenon DEF Emptied
<1> HIDE DEF q
<1>4. Kept(freed, z, U)
  <2>1. CASE s.in.ext
    <3>1. freed = FreeExtentTree(s) BY <2>1
    <3> QED BY <3>1, KeptExtentTree
  <2>2. CASE ~s.in.ext
    <3> DEFINE u == FreeBlocks(s, q)
    <3>1. freed = Folded(j, u, s.in.deep) BY <2>2
    <3>2. Kept(u, z, U) BY <1>2, KeptFreeBlocks
    <3>4. KeepsCounts(j, s.in.deep, z, U) BY TreeStep, KeptIndirectTree DEF KeepsCounts
    <3> HIDE DEF u, freed
    <3> QED BY <1>1, <3>1, <3>2, <3>4, KeptFold
  <2> QED BY <2>1, <2>2
<1> HIDE DEF freed
<1> DEFINE x == [freed.in EXCEPT !.runs = <<>>, !.deep = <<>>, !.size = 0]
<1>5. [freed EXCEPT !.in.runs = <<>>, !.in.deep = <<>>, !.in.size = 0] = [freed EXCEPT !.in = x]
  BY <1>4 DEF Kept, Tame, IsState
<1>6. InodeOK(x)
  <2>1. DOMAIN freed.in = DOMAIN NoInode BY <1>4 DEF Kept, Tame, InodeOK
  <2>2. DOMAIN x = DOMAIN NoInode /\ x.runs = <<>> /\ x.deep = <<>> /\ x.size = 0 BY <2>1 DEF NoInode
  <2> HIDE DEF x
  <2> QED BY <2>2, EmptyRuns, EmptySeqFacts DEF InodeOK
<1> HIDE DEF x
<1>7. Kept([freed EXCEPT !.in = x], z, U) BY <1>4, <1>6, KeptIn
<1> QED BY <1>3, <1>5, <1>7, KeptDone

\* An inode in memory changes.
LEMMA KeptChanged ==
  ASSUME NEW s, NEW z, NEW U, Kept(s, z, U), NEW x
  PROVE  /\ IsSeq(x) => Kept([s EXCEPT !.in.deep = x], z, U)
         /\ RunsOK(x) => Kept([s EXCEPT !.in.runs = x], z, U)
         /\ x \in Nat => Kept([s EXCEPT !.in.size = x], z, U)
<1>0. Tame(s, z.sb) BY DEF Kept
<1>1. ASSUME NEW t, Tame(t, z.sb), NEW y, t = [s EXCEPT !.in = y] PROVE Kept(t, z, U)
  <2>1. t.d = s.d /\ t.m = s.m /\ t.w = s.w BY <1>0, <1>1 DEF Tame, IsState
  <2> QED BY <1>1, <2>1, KeptSame
<1>2. ASSUME IsSeq(x) PROVE Kept([s EXCEPT !.in.deep = x], z, U)
  <2> DEFINE t == [s EXCEPT !.in.deep = x]
  <2> DEFINE y == [s.in EXCEPT !.deep = x]
  <2>1. Tame(t, z.sb) BY <1>0, <1>2, TameInDeep
  <2>2. t = [s EXCEPT !.in = y] BY Zenon
  <2> HIDE DEF t, y
  <2>3. Kept(t, z, U) BY <1>1, <2>1, <2>2
  <2> QED BY <2>3 DEF t
<1>3. ASSUME RunsOK(x) PROVE Kept([s EXCEPT !.in.runs = x], z, U)
  <2> DEFINE t == [s EXCEPT !.in.runs = x]
  <2> DEFINE y == [s.in EXCEPT !.runs = x]
  <2>1. Tame(t, z.sb) BY <1>0, <1>3, TameInRuns
  <2>2. t = [s EXCEPT !.in = y] BY Zenon
  <2> HIDE DEF t, y
  <2>3. Kept(t, z, U) BY <1>1, <2>1, <2>2
  <2> QED BY <2>3 DEF t
<1>4. ASSUME x \in Nat PROVE Kept([s EXCEPT !.in.size = x], z, U)
  <2> DEFINE t == [s EXCEPT !.in.size = x]
  <2> DEFINE y == [s.in EXCEPT !.size = x]
  <2>1. Tame(t, z.sb) BY <1>0, <1>4, TameInSize
  <2>2. t = [s EXCEPT !.in = y] BY Zenon
  <2> HIDE DEF t, y
  <2>3. Kept(t, z, U) BY <1>1, <2>1, <2>2
  <2> QED BY <2>3 DEF t
<1> QED BY <1>2, <1>3, <1>4

\* Blocks that hold no directory name nothing.
LEMMA UsedBlocks ==
  ASSUME NEW d
  PROVE  /\ BlockUsed(d, ZERO) /\ BlockUsed(d, JUNK)
         /\ \A c, i : BlockUsed(d, FileData(c, i))
         /\ \A q : BlockUsed(d, Leaf(q))
         /\ \A q : EntriesUsed(d, q) => BlockUsed(d, Dirents(q))
  BY DEF BlockUsed, ZERO, JUNK, FileData, Leaf, Dirents

LEMMA ChecksumUsed == ASSUME NEW d, NEW s, NEW v, BlockUsed(d, v) PROVE BlockUsed(d, WithChecksum(s, v))
  BY UsedBlocks DEF WithChecksum

LEMMA KeptLeaf ==
  ASSUME NEW s, NEW z, NEW U, Kept(s, z, U), NEW part PROVE Kept(WriteLeaf(s, part), z, U)
<1> DEFINE a == AllocBlockNear(s, 0)
<1> DEFINE v == WithChecksum(a, Leaf(part))
<1> DEFINE u == WriteBlock(a, DataAt(a.out), v)
<1> DEFINE q == Append(u.in.deep, a.out)
<1>1. Kept(a, z, U) BY KeptAllocBlock
<1>2. WriteLeaf(s, part) \in {s, a, [u EXCEPT !.in.deep = q]} BY Zenon DEF WriteLeaf, Then
<1> HIDE DEF a
<1>3. BlockOK(v) /\ BlockUsed(a.d, v) BY TameBlocks, ChecksumOK, UsedBlocks, ChecksumUsed
<1> HIDE DEF v
<1>4. Kept(u, z, U) BY <1>1, <1>3, KeptData
<1>5. IsSeq(u.in.deep) BY <1>4 DEF Kept, Tame, InodeOK
<1> HIDE DEF u
<1>6. IsSeq(q) BY <1>5, AppendFacts
<1> HIDE DEF q
<1> DEFINE t == [u EXCEPT !.in.deep = q]
<1>7. Kept(t, z, U) BY <1>4, <1>6, KeptChanged
<1>8. WriteLeaf(s, part) \in {s, a, t} BY <1>2, Zenon
<1> HIDE DEF t
<1> QED BY <1>1, <1>7, <1>8

LEMMA KeptAppendBlock ==
  ASSUME NEW s, NEW z, NEW U, Kept(s, z, U), NEW c, NEW i \in Nat
  PROVE  Kept(AppendBlock(s, FileData(c, i)), z, U)
<1> DEFINE b == FileData(c, i)
<1> DEFINE a == AllocBlockNear(s, b.i \div BlocksPerGroup)
<1> DEFINE u == WriteBlock(a, DataAt(a.out), b)
<1> DEFINE q == AddToRuns(u.runs, b.i, a.out)
<1>0. b.i \div BlocksPerGroup \in Int
  <2>1. b.i = i BY DEF FileData
  <2>2. BlocksPerGroup \in Nat \ {0} BY GeometryAssumption
  <2> QED BY <2>1, <2>2
<1>1. Kept(a, z, U) BY <1>0, KeptAllocBlock
<1>2. AppendBlock(s, b) \in {s, a, [u EXCEPT !.runs = q]} BY Zenon DEF AppendBlock, Then
<1> HIDE DEF a
<1>3. BlockOK(b) /\ BlockUsed(a.d, b) BY TameBlocks, UsedBlocks
<1> HIDE DEF b
<1>4. Kept(u, z, U) BY <1>1, <1>3, KeptData
<1>5. RunsOK(u.runs) BY <1>4 DEF Kept, Tame
<1> HIDE DEF u
<1>6. RunsOK(q) BY <1>5, RunsAdded
<1> HIDE DEF q
<1> DEFINE t == [u EXCEPT !.runs = q]
<1>7. Kept(t, z, U) BY <1>4, <1>6, KeptRuns
<1>8. AppendBlock(s, b) \in {s, a, t} BY <1>2
<1> HIDE DEF t
<1>9. Kept(AppendBlock(s, b), z, U) BY <1>1, <1>7, <1>8
<1> QED BY <1>9 DEF b

LEMMA KeptTree == ASSUME NEW s, NEW z, NEW U, Kept(s, z, U) PROVE Kept(BuildTree(s), z, U)
<1> DEFINE n == Len(s.runs)
<1> DEFINE leaves == (n + LeafCap - 1) \div LeafCap
<1> DEFINE Part(l) == SubSeq(s.runs, (l - 1) * LeafCap + 1, Min({l * LeafCap, n}))
<1> DEFINE q == [l \in 1 .. leaves |-> Part(l)]
<1> DEFINE u == [s EXCEPT !.in.runs = s.runs]
<1>0. RunsOK(s.runs) BY DEF Kept, Tame
<1>1. BuildTree(s) \in {Done(u), Fail(s), FoldLeft(WriteLeaf, Done(s), q)} BY Zenon DEF BuildTree
<1>2. Kept(u, z, U) BY <1>0, KeptChanged
<1>3. leaves \in Nat
  <2>1. n \in Nat /\ LeafCap \in Nat \ {0} BY <1>0, SeqFacts, FsopsAssumption DEF RunsOK
  <2> HIDE DEF n
  <2>2. n + LeafCap - 1 \in Nat BY <2>1
  <2> QED BY <2>1, <2>2
<1>4. q = [l \in 1 .. leaves |-> q[l]] OBVIOUS
<1> HIDE DEF leaves, q, u
<1>5. IsSeq(q) BY <1>3, <1>4, FunctionSeq
<1>6. \A t, x : Step("leaf", t, x) = WriteLeaf(t, x) BY DEF Step
<1>7. KeepsCounts("leaf", q, z, U) BY <1>6, KeptLeaf DEF KeepsCounts
<1>8. Kept(Done(s), z, U) /\ Kept(Fail(s), z, U) /\ Kept(Done(u), z, U) BY <1>2, KeptDone
<1>9. Kept(Folded("leaf", Done(s), q), z, U) BY <1>5, <1>7, <1>8, KeptFold
<1>10. Kept(FoldLeft(WriteLeaf, Done(s), q), z, U) BY <1>9, FoldLeftLeaf
<1> QED BY <1>1, <1>8, <1>10

LEMMA KeptAppendBlocks ==
  ASSUME NEW s, NEW z, NEW U, Kept(s, z, U), NEW c, NEW n \in Nat, NEW heap
  PROVE  Kept(AppendBlocks(s, c, n, heap), z, U)
<1> DEFINE q == [i \in 1 .. n |-> FileData(c, i - 1)]
<1> DEFINE u == [s EXCEPT !.runs = <<>>]
<1> DEFINE f == FoldLeft(AppendBlock, Done(u), q)
<1>1. AppendBlocks(s, c, n, heap) \in {Fail(s), f, BuildTree(f)} BY Zenon DEF AppendBlocks, Then
<1>2. Kept(Done(u), z, U) BY EmptyRuns, KeptRuns, KeptDone
<1>3. q = [i \in 1 .. n |-> q[i]] /\ \A i \in 1 .. n : \E l \in Nat : q[i] = FileData(c, l) OBVIOUS
<1> HIDE DEF q, u
<1>4. IsSeq(q) BY <1>3, FunctionSeq
<1>5. Len(q) = n
  <2>1. Len(q) \in Nat /\ DOMAIN q = 1 .. Len(q) BY <1>4, SeqFacts
  <2>2. DOMAIN q = 1 .. n BY <1>3
  <2> QED BY <2>1, <2>2, SameLength
<1>6. \A t, x : Step("append", t, x) = AppendBlock(t, x) BY DEF Step
<1>7. KeepsCounts("append", q, z, U) BY <1>3, <1>5, <1>6, KeptAppendBlock DEF KeepsCounts
<1>8. f = Folded("append", Done(u), q) BY FoldLeftAppend
<1> HIDE DEF f
<1>9. Kept(f, z, U) BY <1>2, <1>4, <1>7, <1>8, KeptFold
<1> QED BY <1>1, <1>9, KeptDone, KeptTree

----------------------------------------------------------------------------
\* Directories name inodes of used groups, and go on doing so.

LEMMA UsedSingle == ASSUME NEW d, NEW e, EntryUsed(d, e) PROVE EntriesUsed(d, <<e>>)
<1>1. IsSeq(<<e>>) BY SingleSeq
<1>2. Len(<<e>>) = 1 /\ <<e>>[1] = e OBVIOUS
<1> QED BY <1>1, <1>2 DEF EntriesUsed

LEMMA UsedEmpty == ASSUME NEW d PROVE EntriesUsed(d, <<>>)
  BY EmptySeqFacts DEF EntriesUsed

LEMMA UsedAppend ==
  ASSUME NEW d, NEW q, EntriesUsed(d, q), NEW e, EntryUsed(d, e) PROVE EntriesUsed(d, Append(q, e))
<1>1. IsSeq(q) BY DEF EntriesUsed
<1>2. /\ IsSeq(Append(q, e)) /\ Len(Append(q, e)) = Len(q) + 1 /\ Append(q, e)[Len(q) + 1] = e
      /\ \A n \in 1 .. Len(q) : Append(q, e)[n] = q[n]
  BY <1>1, AppendFacts
<1>3. Len(q) \in Nat BY <1>1, SeqFacts
<1>4. ASSUME NEW n \in 1 .. Len(q) + 1 PROVE EntryUsed(d, Append(q, e)[n])
  <2>1. CASE n \in 1 .. Len(q) BY <1>2, <2>1 DEF EntriesUsed
  <2>2. CASE n = Len(q) + 1 BY <1>2, <2>2
  <2> QED BY <1>3, <2>1, <2>2
<1> QED BY <1>2, <1>4 DEF EntriesUsed

LEMMA UsedPut ==
  ASSUME NEW d, NEW q, EntriesUsed(d, q), NEW m, m \in DOMAIN q, NEW e, EntryUsed(d, e)
  PROVE  EntriesUsed(d, [q EXCEPT ![m] = e])
<1> DEFINE n == Len(q)
<1> DEFINE p == [q EXCEPT ![m] = e]
<1>1. IsSeq(q) BY DEF EntriesUsed
<1>2. n \in Nat /\ DOMAIN q = 1 .. n BY <1>1, SeqFacts
<1>7. \A i \in 1 .. n : EntryUsed(d, q[i]) BY DEF EntriesUsed
<1> HIDE DEF n
<1>6. p = [i \in 1 .. n |-> p[i]] /\ DOMAIN p = 1 .. n /\ \A i \in 1 .. n : p[i] = e \/ p[i] = q[i]
  BY <1>2
<1> HIDE DEF p
<1>8. IsSeq(p) BY <1>2, <1>6, FunctionSeq
<1>9. Len(p) = n
  <2>1. Len(p) \in Nat /\ DOMAIN p = 1 .. Len(p) BY <1>8, SeqFacts
  <2> QED BY <1>2, <1>6, <2>1, SameLength
<1>10. \A i \in 1 .. n : EntryUsed(d, p[i]) BY <1>6, <1>7
<1>11. EntriesUsed(d, p) BY <1>8, <1>9, <1>10 DEF EntriesUsed
<1> QED BY <1>11 DEF p

LEMMA UsedConcat ==
  ASSUME NEW d, NEW p, NEW q, EntriesUsed(d, p), EntriesUsed(d, q) PROVE EntriesUsed(d, p \o q)
<1>1. IsSeq(p) /\ IsSeq(q) BY DEF EntriesUsed
<1>2. IsSeq(p \o q) BY <1>1, ConcatSeq
<1>3. PICK S : p \in Seq(S) BY <1>1 DEF IsSeq
<1>4. PICK T : q \in Seq(T) BY <1>1 DEF IsSeq
<1>5. p \in Seq(S \cup T) /\ q \in Seq(S \cup T) BY <1>3, <1>4
<1>6. /\ Len(p \o q) = Len(p) + Len(q) /\ Len(p) \in Nat /\ Len(q) \in Nat
      /\ \A n \in 1 .. Len(p) + Len(q) : (p \o q)[n] = IF n <= Len(p) THEN p[n] ELSE q[n - Len(p)]
  BY <1>5
<1>7. ASSUME NEW n \in 1 .. Len(p) + Len(q) PROVE EntryUsed(d, (p \o q)[n])
  <2>1. CASE n <= Len(p)
    <3>1. n \in 1 .. Len(p) /\ (p \o q)[n] = p[n] BY <1>6, <2>1
    <3> QED BY <3>1 DEF EntriesUsed
  <2>2. CASE ~ n <= Len(p)
    <3>1. n - Len(p) \in 1 .. Len(q) /\ (p \o q)[n] = q[n - Len(p)] BY <1>6, <2>2
    <3> QED BY <3>1 DEF EntriesUsed
  <2> QED BY <2>1, <2>2
<1> QED BY <1>2, <1>6, <1>7 DEF EntriesUsed

LEMMA UsedBlock ==
  ASSUME NEW d, \A b \in Blocks : BlockUsed(d, d[DataAt(b)]), NEW b PROVE EntriesUsed(d, EntriesIn(d, b))
<1>1. \/ b \in Blocks /\ d[DataAt(b)].k = "dir" /\ EntriesIn(d, b) = d[DataAt(b)].e
      \/ EntriesIn(d, b) = <<>>
  BY Zenon DEF EntriesIn
<1> QED BY <1>1, UsedEmpty DEF BlockUsed

\* What a walk over a directory lists.
LEMMA UsedListing ==
  ASSUME NEW d, \A b \in Blocks : BlockUsed(d, d[DataAt(b)]), NEW dir \in Inodes, InodeOK(d[InodeAt(dir)])
  PROVE  EntriesUsed(d, IterateDir(d, dir))
<1> DEFINE in == d[InodeAt(dir)]
<1> DEFINE n == Min(Misread(in) \cup {in.size + 1}) - 1
<1> DEFINE q == [l \in 1 .. n |-> EntriesIn(d, Bmap(in, l - 1))]
<1> DEFINE e == <<>>
<1> DEFINE all == FoldLeft(Concat, e, q)
<1>1. IterateDir(d, dir) \in {e, FoldLeft(Listed, e, all)} BY Zenon DEF IterateDir, Walk
<1>2. n \in Nat
  <2> DEFINE M == Misread(in) \cup {in.size + 1}
  <2>1. in.size \in Nat BY DEF InodeOK
  <2>2. M \subseteq Nat \ {0} /\ M # {} BY <2>1 DEF Misread
  <2> HIDE DEF M
  <2>3. Min(M) \in M BY <2>2, LeastIn
  <2>4. \A m \in M : m - 1 \in Nat BY <2>2
  <2>5. Min(M) - 1 \in Nat BY <2>3, <2>4, Zenon
  <2> QED BY <2>5 DEF M
<1>3. q = [l \in 1 .. n |-> q[l]] /\ DOMAIN q = 1 .. n /\ \A l \in 1 .. n : EntriesUsed(d, q[l]) BY UsedBlock
<1>4. EntriesUsed(d, e) BY UsedEmpty
<1> HIDE DEF q, e, n
<1>5. IsSeq(q) BY <1>2, <1>3, FunctionSeq
<1>6. EntriesUsed(d, all)
  <2>1. all = Folded("concat", e, q) BY FoldLeftConcat
  <2>0. n \in Nat /\ DOMAIN q = 1 .. n BY <1>2, <1>3
  <2>2. PICK f : Stages("concat", e, q, n, f) /\ Folded("concat", e, q) = f[n] BY <2>0, FoldSteps
  <2> DEFINE S == {i \in 0 .. n : EntriesUsed(d, f[i])}
  <2>3. 0 \in S BY <1>2, <1>4, <2>2 DEF Stages
  <2>4. ASSUME NEW i \in 1 .. n, i - 1 \in S PROVE i \in S
    <3>1. EntriesUsed(d, f[i - 1]) BY <2>4
    <3>2. f[i] = f[i - 1] \o q[i] BY <2>2 DEF Stages, Step, Concat
    <3>3. EntriesUsed(d, f[i]) BY <1>3, <3>1, <3>2, UsedConcat
    <3> QED BY <1>2, <3>3
  <2>5. \A i \in S : EntriesUsed(d, f[i]) OBVIOUS
  <2> HIDE DEF S
  <2>6. Climbs(S, n) BY <2>3, <2>4 DEF Climbs
  <2>7. EntriesUsed(d, f[n]) BY <1>2, <2>5, <2>6, Climb
  <2> QED BY <2>1, <2>2, <2>7
<1> HIDE DEF all
<1> DEFINE m == Len(all)
<1>7. IsSeq(all) /\ m \in Nat /\ DOMAIN all = 1 .. m /\ \A i \in 1 .. m : EntryUsed(d, all[i])
  BY <1>6, SeqFacts DEF EntriesUsed
<1> HIDE DEF m
<1>8. EntriesUsed(d, FoldLeft(Listed, e, all))
  <2>1. FoldLeft(Listed, e, all) = Folded("list", e, all) BY FoldLeftListed
  <2>2. PICK f : Stages("list", e, all, m, f) /\ Folded("list", e, all) = f[m] BY <1>7, FoldSteps
  <2> DEFINE S == {i \in 0 .. m : EntriesUsed(d, f[i])}
  <2>3. 0 \in S BY <1>4, <1>7, <2>2 DEF Stages
  <2>4. ASSUME NEW i \in 1 .. m, i - 1 \in S PROVE i \in S
    <3>1. EntriesUsed(d, f[i - 1]) BY <2>4
    <3>2. f[i] = Listed(f[i - 1], all[i]) BY <2>2 DEF Stages, Step
    <3>3. f[i] = f[i - 1] \/ f[i] = Append(f[i - 1], all[i]) BY <3>2 DEF Listed
    <3>4. EntriesUsed(d, f[i]) BY <1>7, <3>1, <3>3, UsedAppend
    <3> QED BY <1>7, <3>4
  <2>5. \A i \in S : EntriesUsed(d, f[i]) OBVIOUS
  <2> HIDE DEF S
  <2>6. Climbs(S, m) BY <2>3, <2>4 DEF Climbs
  <2>7. EntriesUsed(d, f[m]) BY <1>7, <2>5, <2>6, Climb
  <2> QED BY <2>1, <2>2, <2>7
<1> QED BY <1>1, <1>4, <1>8

\* A name that is found is one of a used group.
LEMMA UsedLookup ==
  ASSUME NEW d, \A b \in Blocks : BlockUsed(d, d[DataAt(b)]), NEW dir \in Inodes, InodeOK(d[InodeAt(dir)]),
         NEW name, DirLookup(d, dir, name) \in Inodes
  PROVE  ~d[Desc(InodeGroup(DirLookup(d, dir, name)))].uninit
<1> DEFINE es == IterateDir(d, dir)
<1> DEFINE found == {n \in DOMAIN es : es[n].name = name}
<1> DEFINE i == DirLookup(d, dir, name)
<1>1. EntriesUsed(d, es) BY UsedListing
<1>2. i = 0 \/ (found # {} /\ i = es[Min(found)].ino) BY Zenon DEF DirLookup
<1>3. found \subseteq DOMAIN es OBVIOUS
<1>4. i # 0 BY GeometryAssumption DEF Inodes
<1> HIDE DEF es, found, i
<1>5. DOMAIN es = 1 .. Len(es) /\ Len(es) \in Nat BY <1>1, SeqFacts DEF EntriesUsed
<1>6. Min(found) \in found
  <2>1. found \subseteq Nat /\ found # {} BY <1>2, <1>3, <1>4, <1>5
  <2> QED BY <2>1, LeastIn
<1>7. EntryUsed(d, es[Min(found)]) BY <1>1, <1>3, <1>5, <1>6 DEF EntriesUsed
<1> QED BY <1>2, <1>4, <1>7 DEF EntryUsed, i

LEMMA UsedPutEntry ==
  ASSUME NEW d, NEW q, EntriesUsed(d, q), NEW e, EntryUsed(d, e) PROVE EntriesUsed(d, PutEntry(q, e))
<1> DEFINE free == {i \in DOMAIN q : q[i].ino = TOMBSTONE}
<1> DEFINE m == Min(free)
<1>1. \/ free # {} /\ PutEntry(q, e) = [q EXCEPT ![m] = e]
      \/ PutEntry(q, e) = Append(q, e)
  BY Zenon DEF PutEntry
<1>2. DOMAIN q = 1 .. Len(q) /\ Len(q) \in Nat BY SeqFacts DEF EntriesUsed
<1>3. free \subseteq DOMAIN q OBVIOUS
<1> HIDE DEF free
<1>4. free # {} => m \in DOMAIN q BY <1>2, <1>3, LeastIn
<1> HIDE DEF m
<1>5. free # {} => EntriesUsed(d, [q EXCEPT ![m] = e]) BY <1>4, UsedPut
<1>6. EntriesUsed(d, Append(q, e)) BY UsedAppend
<1> QED BY <1>1, <1>5, <1>6

LEMMA UsedClear ==
  ASSUME NEW d, NEW q, EntriesUsed(d, q), NEW m \in DOMAIN q
  PROVE  EntriesUsed(d, [q EXCEPT ![m].ino = TOMBSTONE])
<1> DEFINE e == [q[m] EXCEPT !.ino = TOMBSTONE]
<1>1. [q EXCEPT ![m].ino = TOMBSTONE] = [q EXCEPT ![m] = e] BY Zenon
<1>2. DOMAIN q = 1 .. Len(q) BY SeqFacts DEF EntriesUsed
<1>3. EntryUsed(d, q[m]) BY <1>2 DEF EntriesUsed
<1>4. 0 \notin Inodes BY GeometryAssumption DEF Inodes
<1>5. EntryUsed(d, e) BY <1>3, <1>4 DEF EntryUsed, TOMBSTONE
<1> HIDE DEF e
<1>6. EntriesUsed(d, [q EXCEPT ![m] = e]) BY <1>5, UsedPut
<1> QED BY <1>1, <1>6, Zenon

\* The entry of inode i of a used group.
LEMMA UsedEntry ==
  ASSUME NEW s, NEW z, NEW U, Kept(s, z, U), NEW name, NEW i, InodeGroup(i) \in U
  PROVE  EntryUsed(s.d, Entry(name, i))
<1> DEFINE e == Entry(name, i)
<1>1. "ino" \in DOMAIN e /\ e.ino = i BY DEF Entry
<1> HIDE DEF e
<1>2. ~s.d[Desc(InodeGroup(i))].uninit BY DEF Kept
<1>3. EntryUsed(s.d, e) BY <1>1, <1>2 DEF EntryUsed
<1> QED BY <1>3 DEF e

LEMMA KeptUsed ==
  ASSUME NEW s, NEW z, NEW U, Kept(s, z, U), z.n = 0
  PROVE  \A b \in Blocks : BlockUsed(s.d, s.d[DataAt(b)])
  BY DEF Kept, Exact, Totals

LEMMA KeptDirents ==
  ASSUME NEW s, NEW z, NEW U, Kept(s, z, U), NEW b, NEW q, z.n = 0 => EntriesUsed(s.d, q)
  PROVE  Kept(WriteBlock(s, DataAt(b), WithChecksum(s, Dirents(q))), z, U)
<1> DEFINE v == WithChecksum(s, Dirents(q))
<1>1. BlockOK(v) BY TameBlocks, ChecksumOK
<1>2. z.n = 0 => BlockUsed(s.d, v) BY UsedBlocks, ChecksumUsed
<1> HIDE DEF v
<1>3. Kept(WriteBlock(s, DataAt(b), v), z, U) BY <1>1, <1>2, KeptData
<1> QED BY <1>3 DEF v

LEMMA KeptAttach ==
  ASSUME NEW s, NEW z, NEW U, Kept(s, z, U), NEW dir, NEW in, InodeOK(in), NEW b
  PROVE  Kept(AttachDirBlock(s, dir, in, b), z, U)
<1> DEFINE y == [in EXCEPT !.runs = Append(@, Run(in.size, b, 1)), !.size = @ + 1]
<1> DEFINE u == [s EXCEPT !.in = y]
<1>1. AttachDirBlock(s, dir, in, b) \in {Fail(s), SyncGd(WriteInode(u, dir), BlockGroup(b))}
  BY Zenon DEF AttachDirBlock
<1>2. InodeOK(y)
  <2> DEFINE q == Append(in.runs, Run(in.size, b, 1))
  <2>1. RunsOK(q) BY OneRun, RunsAppend DEF InodeOK
  <2>2. DOMAIN y = DOMAIN NoInode /\ y.runs = q /\ y.deep = in.deep /\ y.size = in.size + 1 BY DEF InodeOK, NoInode
  <2> HIDE DEF y, q
  <2> QED BY <2>1, <2>2 DEF InodeOK
<1> HIDE DEF y
<1>3. Kept(u, z, U) BY <1>2, KeptIn
<1> HIDE DEF u
<1>4. Kept(SyncGd(WriteInode(u, dir), BlockGroup(b)), z, U) BY <1>3, KeptInode, KeptSyncGd
<1> QED BY <1>1, <1>4, KeptDone

LEMMA KeptAddDirBlock ==
  ASSUME NEW s, NEW z, NEW U, Kept(s, z, U), NEW dir \in Inodes, NEW in, InodeOK(in), NEW name, NEW i,
         z.n = 0 => InodeGroup(i) \in U
  PROVE  Kept(AddDirBlock(s, dir, in, Entry(name, i)), z, U)
<1> DEFINE e == Entry(name, i)
<1> DEFINE a == AllocBlockNear(s, InodeGroup(dir))
<1> DEFINE u == WriteBlock(a, DataAt(a.out), WithChecksum(a, Dirents(<<e>>)))
<1>1. AddDirBlock(s, dir, in, e) \in {Fail(s), a, AttachDirBlock(u, dir, in, a.out)}
  BY Zenon DEF AddDirBlock, Then
<1>2. Kept(a, z, U)
  <2>1. InodeGroup(dir) \in Int BY GroupBounds, GeometryAssumption DEF Groups
  <2> QED BY <2>1, KeptAllocBlock
<1> HIDE DEF a
<1>3. z.n = 0 => EntryUsed(a.d, e) BY <1>2, UsedEntry
<1> HIDE DEF e
<1>4. z.n = 0 => EntriesUsed(a.d, <<e>>) BY <1>3, UsedSingle
<1>5. Kept(u, z, U) BY <1>2, <1>4, KeptDirents
<1> HIDE DEF u
<1>6. Kept(AttachDirBlock(u, dir, in, a.out), z, U) BY <1>5, KeptAttach
<1>7. Kept(AddDirBlock(s, dir, in, e), z, U) BY <1>1, <1>2, <1>6, KeptDone
<1> QED BY <1>7 DEF e

LEMMA KeptDirAdd ==
  ASSUME NEW s, NEW z, NEW U, Kept(s, z, U), NEW dir \in Inodes, NEW name, NEW i,
         z.n = 0 => InodeGroup(i) \in U
  PROVE  Kept(DirAddEntry(s, dir, Entry(name, i)), z, U)
<1> DEFINE e == Entry(name, i)
<1> DEFINE in == ReadInode(s, dir)
<1>1. InodeOK(in) BY DEF ReadInode, Kept, Tame, VolumeOK
<1>2. \/ DirAddEntry(s, dir, e) = Fail(s)
      \/ \E b : DirAddEntry(s, dir, e) =
                  WriteBlock(s, DataAt(b), WithChecksum(s, Dirents(PutEntry(EntriesIn(s.d, b), e))))
      \/ DirAddEntry(s, dir, e) = AddDirBlock(s, dir, in, e)
  BY Zenon DEF DirAddEntry
<1> HIDE DEF in
<1>3. Kept(AddDirBlock(s, dir, in, e), z, U) BY <1>1, KeptAddDirBlock
<1>4. z.n = 0 => EntryUsed(s.d, e) BY UsedEntry
<1> HIDE DEF e
<1>5. ASSUME NEW b PROVE Kept(WriteBlock(s, DataAt(b), WithChecksum(s, Dirents(PutEntry(EntriesIn(s.d, b), e)))), z, U)
  <2> DEFINE q == EntriesIn(s.d, b)
  <2>1. z.n = 0 => EntriesUsed(s.d, q) BY KeptUsed, UsedBlock
  <2> HIDE DEF q
  <2> DEFINE p == PutEntry(q, e)
  <2>2. z.n = 0 => EntriesUsed(s.d, p) BY <1>4, <2>1, UsedPutEntry
  <2> HIDE DEF p
  <2>3. Kept(WriteBlock(s, DataAt(b), WithChecksum(s, Dirents(p))), z, U) BY <2>2, KeptDirents
  <2> QED BY <2>3 DEF p, q
<1>6. Kept(DirAddEntry(s, dir, e), z, U) BY <1>2, <1>3, <1>5, KeptDone
<1> QED BY <1>6 DEF e

LEMMA KeptDirRemove ==
  ASSUME NEW s, NEW z, NEW U, Kept(s, z, U), NEW dir, NEW name
  PROVE  Kept(DirRemoveEntry(s, dir, name), z, U)
<1>1. \/ DirRemoveEntry(s, dir, name) = Fail(s)
      \/ \E b, m : DirRemoveEntry(s, dir, name) =
           WriteBlock(s, DataAt(b), WithChecksum(s, Dirents([EntriesIn(s.d, b) EXCEPT ![m].ino = TOMBSTONE])))
  BY Zenon DEF DirRemoveEntry
<1>2. ASSUME NEW b, NEW m
      PROVE  Kept(WriteBlock(s, DataAt(b), WithChecksum(s, Dirents([EntriesIn(s.d, b) EXCEPT ![m].ino = TOMBSTONE]))), z, U)
  <2> DEFINE q == EntriesIn(s.d, b)
  <2>1. z.n = 0 => EntriesUsed(s.d, q) BY KeptUsed, UsedBlock
  <2> HIDE DEF q
  <2> DEFINE p == [q EXCEPT ![m].ino = TOMBSTONE]
  <2>2. z.n = 0 => EntriesUsed(s.d, p)
    <3>1. CASE m \in DOMAIN q BY <2>1, <3>1, UsedClear, Zenon
    <3>2. CASE m \notin DOMAIN q
      <4>1. z.n = 0 => p = q
        <5> SUFFICES ASSUME z.n = 0 PROVE p = q OBVIOUS
        <5>1. PICK S : q \in Seq(S) BY <2>1 DEF EntriesUsed, IsSeq
        <5>2. q = [j \in DOMAIN q |-> q[j]] BY <5>1
        <5> QED BY <3>2, <5>2
      <4> HIDE DEF p
      <4> QED BY <2>1, <4>1
    <3> QED BY <3>1, <3>2
  <2> HIDE DEF p
  <2>3. Kept(WriteBlock(s, DataAt(b), WithChecksum(s, Dirents(p))), z, U) BY <2>2, KeptDirents
  <2> QED BY <2>3 DEF p, q
<1> QED BY <1>1, <1>2, KeptDone

----------------------------------------------------------------------------
\* The calls.

LEMMA KeptReplace ==
  ASSUME NEW s, NEW z, NEW U, Kept(s, z, U), NEW i, NEW c \in Contents, NEW heap \in BOOLEAN
  PROVE  Kept(DoReplace(s, i, c, heap), z, U)
<1> DEFINE t == Fill(Truncate(s, heap), c, heap)
<1> DEFINE u == [t EXCEPT !.in.size = SizeOf(c)]
<1>1. DoReplace(s, i, c, heap) \in {Fail(s), t, WriteInode(u, i)} BY Zenon DEF DoReplace, Then
<1>2. t \in {Truncate(s, heap), AppendBlocks(Truncate(s, heap), c, SizeOf(c), heap)} BY Zenon DEF Fill
<1>3. SizeOf(c) \in Nat BY CallAssumption
<1>4. Kept(t, z, U)
  <2> HIDE DEF t
  <2> QED BY <1>2, <1>3, KeptTruncate, KeptAppendBlocks
<1> HIDE DEF t
<1>5. Kept(u, z, U) BY <1>3, <1>4, KeptChanged
<1> HIDE DEF u
<1> QED BY <1>1, <1>4, <1>5, KeptInode, KeptDone

LEMMA KeptReplaceFile ==
  ASSUME NEW s, NEW z, NEW U, Kept(s, z, U), NEW i, NEW c \in Contents, NEW heap \in BOOLEAN
  PROVE  Kept(ReplaceFile(s, i, c, heap), z, U)
<1> DEFINE t == [s EXCEPT !.in = ReadInode(s, i)]
<1> DEFINE u == DoReplace(t, i, c, heap)
<1>1. \/ ReplaceFile(s, i, c, heap) = Fail(s)
      \/ i \in Inodes /\ ReplaceFile(s, i, c, heap) \in {u, Done(SyncSuperblock(u))}
  BY Zenon DEF ReplaceFile, Then
<1>2. ASSUME i \in Inodes PROVE Kept(u, z, U)
  <2>1. InodeOK(ReadInode(s, i)) BY <1>2 DEF ReadInode, Kept, Tame, VolumeOK
  <2>2. Kept(t, z, U) BY <2>1, KeptIn
  <2> HIDE DEF t
  <2> QED BY <2>2, KeptReplace
<1> HIDE DEF u
<1> QED BY <1>1, <1>2, KeptDone, KeptSync

LEMMA KeptUndo ==
  ASSUME NEW s, NEW z, NEW U, Kept(s, z, U), NEW i \in Inodes, z.n = 0 => InodeGroup(i) \in U, NEW g
  PROVE  Kept(Undo(s, i, g), z, U)
<1>1. Kept(FreeInode(s, i), z, U) BY KeptFreeInode
<1>2. Kept(SyncGd(FreeInode(s, i), g), z, U) BY <1>1, KeptSyncGd
<1> QED BY <1>2, KeptDone DEF Undo

LEMMA KeptEnter ==
  ASSUME NEW s, NEW z, NEW U, Kept(s, z, U), NEW parent \in Inodes, NEW name,
         NEW i \in Inodes, z.n = 0 => InodeGroup(i) \in U, NEW in, InodeOK(in)
  PROVE  Kept(EnterName(s, parent, name, i, in), z, U)
<1> DEFINE e == DirAddEntry(s, parent, Entry(name, i))
<1> DEFINE t == [e EXCEPT !.in = in]
<1>1. EnterName(s, parent, name, i, in) \in
        {Undo(Truncate(t, TRUE), i, InodeGroup(parent)), Done(SyncSuperblock(e))}
  BY Zenon DEF EnterName
<1>2. Kept(e, z, U) BY KeptDirAdd
<1> HIDE DEF e
<1>3. Kept(t, z, U) BY <1>2, KeptIn
<1> HIDE DEF t
<1>4. Kept(Truncate(t, TRUE), z, U) BY <1>3, KeptTruncate
<1>5. Kept(Undo(Truncate(t, TRUE), i, InodeGroup(parent)), z, U) BY <1>4, KeptUndo
<1> QED BY <1>1, <1>2, <1>5, KeptDone, KeptSync

LEMMA KeptCreate ==
  ASSUME NEW s, NEW z, NEW U, Kept(s, z, U), NEW parent \in Inodes, NEW name, NEW c \in Contents, NEW heap \in BOOLEAN
  PROVE  Kept(CreateFile(s, parent, name, c, heap), z, U)
<1> DEFINE a == AllocInode(s, InodeGroup(parent))
<1> DEFINE i == a.out
<1> DEFINE t == [a EXCEPT !.in = NewFile]
<1> DEFINE r == DoReplace(t, i, c, heap)
<1> DEFINE V == U \cup {InodeGroup(i)}
<1>1. \/ CreateFile(s, parent, name, c, heap) = a
      \/ /\ a.rc = 0
         /\ CreateFile(s, parent, name, c, heap) \in
              {Undo(r, i, InodeGroup(parent)), EnterName(r, parent, name, i, r.in)}
  BY Zenon DEF CreateFile, Then
<1>2. Kept(a, z, U) /\ (a.rc = 0 => i \in Inodes /\ Kept(a, z, V))
  <2>1. InodeGroup(parent) \in Int BY GroupBounds, GeometryAssumption DEF Groups
  <2> QED BY <2>1, KeptAllocInode
<1>3. InodeGroup(i) \in V /\ U \subseteq V OBVIOUS
<1> HIDE DEF a, i, V
<1>4. ASSUME a.rc = 0
      PROVE  Kept(Undo(r, i, InodeGroup(parent)), z, V) /\ Kept(EnterName(r, parent, name, i, r.in), z, V)
  <2>1. Kept(t, z, V) BY <1>2, <1>4, NewInodes, KeptIn
  <2> HIDE DEF t
  <2>2. Kept(r, z, V) BY <2>1, KeptReplace
  <2> HIDE DEF r
  <2>3. InodeOK(r.in) BY <2>2 DEF Kept, Tame
  <2>4. Kept(Undo(r, i, InodeGroup(parent)), z, V) BY <1>2, <1>3, <1>4, <2>2, KeptUndo
  <2>5. Kept(EnterName(r, parent, name, i, r.in), z, V) BY <1>2, <1>3, <1>4, <2>2, <2>3, KeptEnter
  <2> QED BY <2>4, <2>5
<1> HIDE DEF r
<1>5. CASE CreateFile(s, parent, name, c, heap) = a BY <1>2, <1>5
<1>6. CASE a.rc = 0 /\ CreateFile(s, parent, name, c, heap) \in
              {Undo(r, i, InodeGroup(parent)), EnterName(r, parent, name, i, r.in)}
  <2>1. Kept(CreateFile(s, parent, name, c, heap), z, V) BY <1>4, <1>6
  <2> QED BY <1>3, <2>1, KeptFewer
<1> QED BY <1>1, <1>5, <1>6

LEMMA KeptExt4Write ==
  ASSUME NEW s, NEW z, NEW U, Kept(s, z, U), NEW path, NEW c \in Contents, NEW heap \in BOOLEAN
  PROVE  Kept(Ext4Write(s, path, c, heap), z, U)
<1> DEFINE p == ResolveParent(s.d, path)
<1> DEFINE i == DirLookup(s.d, p, Last(path))
<1>1. Ext4Write(s, path, c, heap) \in
        {Fail(s), IF p = 0 THEN Fail(s)
                  ELSE IF i # 0 THEN ReplaceFile(s, i, c, heap)
                  ELSE CreateFile(s, p, Last(path), c, heap)}
  BY Zenon DEF Ext4Write
<1>2. p = 0 \/ p \in Inodes BY Zenon DEF ResolveParent, IsDir
<1> HIDE DEF p, i
<1> QED BY <1>1, <1>2, KeptDone, KeptReplaceFile, KeptCreate

LEMMA KeptRemove ==
  ASSUME NEW s, NEW z, NEW U, Kept(s, z, U), NEW parent, NEW name, NEW i, NEW heap \in BOOLEAN,
         i \in Inodes => (z.n = 0 => InodeGroup(i) \in U)
  PROVE  Kept(RemoveFile(s, parent, name, i, heap), z, U)
<1> DEFINE t == DirRemoveEntry(s, parent, name)
<1> DEFINE u == [t EXCEPT !.in = ReadInode(s, i)]
<1> DEFINE f == FreeInode(Truncate(u, heap), i)
<1>1. \/ RemoveFile(s, parent, name, i, heap) = Fail(s)
      \/ i \in Inodes /\ RemoveFile(s, parent, name, i, heap) \in {t, Done(SyncSuperblock(SyncGd(f, InodeGroup(i))))}
  BY Zenon DEF RemoveFile, Then
<1>2. Kept(t, z, U) BY KeptDirRemove
<1> HIDE DEF t
<1>3. ASSUME i \in Inodes PROVE Kept(f, z, U)
  <2>1. InodeOK(ReadInode(s, i)) BY <1>3 DEF ReadInode, Kept, Tame, VolumeOK
  <2>2. Kept(u, z, U) BY <1>2, <2>1, KeptIn
  <2> HIDE DEF u
  <2>3. Kept(Truncate(u, heap), z, U) BY <2>2, KeptTruncate
  <2> QED BY <1>3, <2>3, KeptFreeInode
<1> HIDE DEF f
<1>4. ASSUME i \in Inodes PROVE Kept(Done(SyncSuperblock(SyncGd(f, InodeGroup(i)))), z, U)
  BY <1>3, <1>4, KeptSyncGd, KeptSync, KeptDone
<1> QED BY <1>1, <1>2, <1>4, KeptDone

LEMMA KeptExt4Unlink ==
  ASSUME NEW s, NEW z, Kept(s, z, {}), NEW path, NEW heap \in BOOLEAN
  PROVE  Kept(Ext4Unlink(s, path, heap), z, {})
<1> DEFINE p == ResolveParent(s.d, path)
<1> DEFINE i == DirLookup(s.d, p, Last(path))
<1> DEFINE U == IF i \in Inodes /\ z.n = 0 THEN {InodeGroup(i)} ELSE {}
<1>1. Ext4Unlink(s, path, heap) = Fail(s) \/ (p # 0 /\ Ext4Unlink(s, path, heap) = RemoveFile(s, p, Last(path), i, heap))
  BY Zenon DEF Ext4Unlink
<1>2. p = 0 \/ p \in Inodes BY Zenon DEF ResolveParent, IsDir
<1>3. ASSUME p \in Inodes, i \in Inodes, z.n = 0 PROVE ~s.d[Desc(InodeGroup(i))].uninit
  <2>1. \A b \in Blocks : BlockUsed(s.d, s.d[DataAt(b)]) BY <1>3, KeptUsed
  <2>2. InodeOK(s.d[InodeAt(p)]) BY <1>3 DEF Kept, Tame, VolumeOK
  <2> HIDE DEF p
  <2> QED BY <1>3, <2>1, <2>2, UsedLookup
<1> HIDE DEF p, i
<1>4. ASSUME p \in Inodes PROVE Kept(s, z, U) BY <1>3, <1>4, GroupBounds DEF Kept
<1>5. i \in Inodes => (z.n = 0 => InodeGroup(i) \in U) OBVIOUS
<1> HIDE DEF U
<1>6. ASSUME p \in Inodes PROVE Kept(RemoveFile(s, p, Last(path), i, heap), z, {})
  <2>1. Kept(RemoveFile(s, p, Last(path), i, heap), z, U) BY <1>4, <1>5, <1>6, KeptRemove
  <2> QED BY <2>1, KeptFewer
<1> QED BY <1>1, <1>2, <1>6, KeptDone

(***************************************************************************)
(* Mounting: unless the volume's journal logged them, a replay leaves         *)
(* descriptors and bitmaps alone.                                            *)
(***************************************************************************)

\* The write e leaves the books of disk d alone, after n power cuts.
QuietWrite(d, n, e) ==
  /\ Neutral(e[1])
  /\ n = 0 => \A b \in Blocks : e[1] = DataAt(b) => BlockUsed(d, e[2])
Quiet(d, n, w) == IsSeq(w) /\ \A i \in 1 .. Len(w) : QuietWrite(d, n, w[i])

LEMMA QuietStep ==
  ASSUME NEW sb, NEW gd, NEW n, NEW d, NEW e, Exact(sb, gd, e, n), SameBooks(d, e),
         NEW x, QuietWrite(d, n, x), NEW f, f = Step("store", e, x)
  PROVE  Exact(sb, gd, f, n) /\ SameBooks(d, f)
<1> DEFINE a == x[1]
<1> DEFINE v == x[2]
<1>1. f = [e EXCEPT ![a] = v] BY DEF Step
<1>2. Neutral(a) BY DEF QuietWrite
<1>3. n = 0 => \A b \in Blocks : a = DataAt(b) => BlockUsed(e, v) BY SameBooksUsed DEF QuietWrite
<1> HIDE DEF a, v
<1>4. Exact(sb, gd, f, n) /\ SameBooks(e, f) BY <1>1, <1>2, <1>3, NeutralStored
<1> QED BY <1>4 DEF SameBooks

LEMMA QuietTrail ==
  ASSUME NEW sb, NEW gd, NEW d, NEW n \in Nat, Exact(sb, gd, d, n), NEW w, Quiet(d, n, w)
  PROVE  \E e : Trail(d, w, e, n + 1) /\ Exact(sb, gd, e, n)
<1> DEFINE m == Len(w)
<1>1. IsSeq(w) /\ m \in Nat /\ DOMAIN w = 1 .. m BY SeqFacts DEF Quiet
<1>2. \A i \in 1 .. m : QuietWrite(d, n, w[i]) BY DEF Quiet
<1> HIDE DEF m
<1>3. PICK f : Stages("store", d, w, m, f) BY <1>1, FoldSteps
<1> DEFINE S == {i \in 0 .. m : \A k \in 0 .. i : Exact(sb, gd, f[k], n) /\ SameBooks(d, f[k])}
<1>4. 0 \in S
  <2>1. f[0] = d /\ SameBooks(d, d) BY <1>3 DEF Stages, SameBooks
  <2>2. \A k \in 0 .. 0 : k = 0 OBVIOUS
  <2> QED BY <1>1, <2>1, <2>2
<1>5. ASSUME NEW i \in 1 .. m, i - 1 \in S PROVE i \in S
  <2>1. \A k \in 0 .. i - 1 : Exact(sb, gd, f[k], n) /\ SameBooks(d, f[k]) BY <1>5
  <2>2. f[i] = Step("store", f[i - 1], w[i]) BY <1>3 DEF Stages
  <2>3. i - 1 \in 0 .. i - 1 BY <1>1
  <2>4. Exact(sb, gd, f[i], n) /\ SameBooks(d, f[i]) BY <1>2, <2>1, <2>2, <2>3, QuietStep
  <2>5. \A k \in 0 .. i : k \in 0 .. i - 1 \/ k = i BY <1>1
  <2> QED BY <1>1, <2>1, <2>4, <2>5
<1>6. \A i \in S : \A k \in 0 .. i : Exact(sb, gd, f[k], n) OBVIOUS
<1> HIDE DEF S
<1>7. Climbs(S, m) BY <1>4, <1>5 DEF Climbs
<1>8. \A k \in 0 .. m : Exact(sb, gd, f[k], n) BY <1>1, <1>6, <1>7, Climb
<1>9. \A k \in 0 .. m : Near(f[k], n + 1) BY <1>8, NearMore DEF Exact
<1>10. Trail(d, w, f[m], n + 1) BY <1>1, <1>3, <1>9 DEF Trail, m
<1>11. m \in 0 .. m BY <1>1
<1> QED BY <1>8, <1>10, <1>11

LEMMA QuietAppend ==
  ASSUME NEW d, NEW n, NEW w, Quiet(d, n, w), NEW a, a \in {Super, JournalSuper}, NEW x
  PROVE  Quiet(d, n, Append(w, <<a, x>>))
<1> DEFINE e == <<a, x>>
<1>0. e[1] = a /\ e[2] = x OBVIOUS
<1> HIDE DEF e
<1>5. QuietWrite(d, n, e)
  <2>1. Neutral(Super) /\ Neutral(JournalSuper)
    BY DEF Neutral, Super, JournalSuper, Desc, BlockBitmap, InodeBitmap
  <2>2. \A b \in Blocks : Super # DataAt(b) /\ JournalSuper # DataAt(b)
    BY DEF Super, JournalSuper, DataAt
  <2> QED BY <1>0, <2>1, <2>2 DEF QuietWrite
<1>1. IsSeq(w) BY DEF Quiet
<1>2. /\ IsSeq(Append(w, e)) /\ Len(Append(w, e)) = Len(w) + 1
      /\ Append(w, e)[Len(w) + 1] = e /\ \A i \in 1 .. Len(w) : Append(w, e)[i] = w[i]
  BY <1>1, AppendFacts
<1>3. Len(w) \in Nat BY <1>1, SeqFacts
<1>4. ASSUME NEW i \in 1 .. Len(w) + 1 PROVE QuietWrite(d, n, Append(w, e)[i])
  <2>1. CASE i \in 1 .. Len(w) BY <1>2, <2>1 DEF Quiet
  <2>2. CASE i = Len(w) + 1 BY <1>2, <1>5, <2>2
  <2> QED BY <1>3, <2>1, <2>2
<1>6. Quiet(d, n, Append(w, e)) BY <1>2, <1>4 DEF Quiet
<1> QED BY <1>6 DEF e

LEMMA QuietEmpty == ASSUME NEW d, NEW n PROVE Quiet(d, n, <<>>)
<1> DEFINE u == <<>>
<1>1. IsSeq(u) /\ Len(u) = 0 BY EmptySeqFacts
<1> HIDE DEF u
<1>2. Quiet(d, n, u) BY <1>1 DEF Quiet
<1> QED BY <1>2 DEF u

\* Directory blocks of a volume, on the disk and in its log.
LEMMA NamedUsed == ASSUME NEW v, NEW x, Readable(x), NamesUsed(v, x) PROVE BlockUsed(v, x)
<1> SUFFICES ASSUME x.k = "dir" PROVE EntriesUsed(v, x.e) BY DEF BlockUsed
<1> DEFINE q == x.e
<1>1. q \in Seq(ToSet(q)) /\ \A n \in DOMAIN q : q[n] = Entry(q[n].name, q[n].ino) BY DEF Readable
<1>2. \A n \in DOMAIN q : q[n].ino \in Inodes => ~v[Desc(InodeGroup(q[n].ino))].uninit BY DEF NamesUsed
<1> HIDE DEF q
<1>3. IsSeq(q) BY <1>1 DEF IsSeq
<1>4. DOMAIN q = 1 .. Len(q) BY <1>3, SeqFacts
<1>5. \A n \in DOMAIN q : "ino" \in DOMAIN q[n] BY <1>1 DEF Entry
<1>6. EntriesUsed(v, q) BY <1>2, <1>3, <1>4, <1>5 DEF EntriesUsed, EntryUsed
<1> QED BY <1>6 DEF q

LEMMA QuietLogged ==
  ASSUME NEW v \in Volumes, ~Stale(v), NEW d, DiskFit(v, d), RecoverOn(d[Super]),
         NEW n, n = 0 => d = v, NEW u, Replayed(d[JournalSuper], u)
  PROVE  Quiet(d, n, u)
<1> DEFINE j == v[JournalSuper]
<1>0. SameLog(d[JournalSuper], j) /\ RecoverOn(v[Super]) BY DiskFitFacts DEF JournalFit, SuperFit
<1>1. u \in Seq(Logged(j)) BY <1>0, SameReplayed DEF Replayed
<1>2. ASSUME NEW e \in Logged(j) PROVE QuietWrite(d, n, e)
  <2>1. PICK x \in LiveTags(j) : e = WriteOf(j, x) /\ x[2].to \notin Revoked(j) BY DEF Logged
  <2>2. e[1] = x[2].to /\ e[2] = LoggedContent(j, x) BY <2>1 DEF WriteOf
  <2>3. Neutral(e[1]) BY <1>0, <2>1, <2>2 DEF Stale, Books, RecoverOn, Neutral
  <2>4. ASSUME n = 0, NEW b \in Blocks, e[1] = DataAt(b) PROVE BlockUsed(d, e[2])
    <3>1. Readable(e[2]) BY <2>1, <2>2, <2>4, VolumeAssumption DEF Loggable
    <3>2. NamesUsed(v, e[2]) BY <2>1, <2>2, <2>4, CountAssumption
    <3> QED BY <2>4, <3>1, <3>2, NamedUsed
  <2> QED BY <2>3, <2>4 DEF QuietWrite
<1> HIDE DEF j
<1>3. IsSeq(u) /\ \A i \in 1 .. Len(u) : u[i] \in Logged(j) BY <1>1 DEF IsSeq
<1> QED BY <1>2, <1>3 DEF Quiet

LEMMA QuietMount ==
  ASSUME NEW v \in Volumes, ~Stale(v), NEW d, DiskFit(v, d), NEW n, n = 0 => d = v,
         NEW w, MountWrites(d, w)
  PROVE  Quiet(d, n, w)
<1>1. CASE SyncOnly(d, w)
  <2>1. w = Append(<<>>, <<Super, d[Super]>>) BY <1>1 DEF SyncOnly
  <2>2. Quiet(d, n, Append(<<>>, <<Super, d[Super]>>)) BY QuietEmpty, QuietAppend
  <2> QED BY <2>1, <2>2, Zenon
<1>2. CASE ReplayOnly(d, w)
  <2>1. PICK u : Replayed(d[JournalSuper], u) /\ w = Append(u, <<Super, d[Super]>>)
    BY <1>2, Zenon DEF ReplayOnly
  <2>2. Quiet(d, n, u) BY <1>2, <2>1, QuietLogged DEF ReplayOnly
  <2>3. Quiet(d, n, Append(u, <<Super, d[Super]>>)) BY <2>2, QuietAppend
  <2> QED BY <2>1, <2>3, Zenon
<1>3. CASE ReplayAndReset(d, w)
  <2>1. PICK u, x, sb : /\ Replayed(d[JournalSuper], u) /\ DidReset(u, d[JournalSuper], x, sb)
                        /\ w = Append(x, <<Super, sb>>)
    BY <1>3, Zenon DEF ReplayAndReset
  <2>2. PICK k : x = Append(Append(u, <<JournalSuper, k>>), <<Super, sb>>)
    BY <2>1, Zenon DEF DidReset
  <2>3. Quiet(d, n, u) BY <1>3, <2>1, QuietLogged DEF ReplayAndReset
  <2>4. Quiet(d, n, Append(u, <<JournalSuper, k>>)) BY <2>3, QuietAppend
  <2>5. Quiet(d, n, Append(Append(u, <<JournalSuper, k>>), <<Super, sb>>))
    <3> DEFINE y == Append(u, <<JournalSuper, k>>)
    <3>1. Quiet(d, n, y) BY <2>4
    <3> HIDE DEF y
    <3>2. Quiet(d, n, Append(y, <<Super, sb>>)) BY <3>1, QuietAppend
    <3> QED BY <3>2 DEF y
  <2>6. Quiet(d, n, x) BY <2>2, <2>5, Zenon
  <2>7. Quiet(d, n, Append(x, <<Super, sb>>)) BY <2>6, QuietAppend
  <2> QED BY <2>1, <2>7, Zenon
<1> QED BY <1>1, <1>2, <1>3 DEF MountWrites

(***************************************************************************)
(* The counts, in every state.                                             *)
(***************************************************************************)

\* What a state with the disk's descriptors in memory calls free.
LEMMA StateRoom ==
  ASSUME NEW s, s.m.gd = [g \in Groups |-> s.d[Desc(g)]]
  PROVE  /\ \A g \in Groups : FreeBlocksIn(s, g) = BlockRoom(s.d, g) /\ InodeRoom(s, g) = RoomForInodes(s.d, g)
         /\ BlockTotal(s) = Cardinality(AllBlockRoom(s.d))
         /\ InodeTotal(s) = Cardinality(AllInodeRoom(s.d))
<1>1. ASSUME NEW g \in Groups
      PROVE  FreeBlocksIn(s, g) = BlockRoom(s.d, g) /\ InodeRoom(s, g) = RoomForInodes(s.d, g)
  <2>1. InodeBits(s, g) = Bits(s.d, g) BY DEF InodeBits, Bits
  <2> QED BY <2>1 DEF FreeBlocksIn, BlockRoom, InodeRoom, RoomForInodes
<1>2. {b \in Blocks : b \in FreeBlocksIn(s, BlockGroup(b))} = AllBlockRoom(s.d)
  BY <1>1, GroupBounds DEF AllBlockRoom
<1>3. {i \in Inodes : i \in InodeRoom(s, InodeGroup(i))} = AllInodeRoom(s.d)
  BY <1>1, GroupBounds DEF AllInodeRoom
<1> QED BY <1>1, <1>2, <1>3 DEF BlockTotal, InodeTotal

\* The disks of the start.
LEMMA VolumeCounts == ASSUME NEW v \in Volumes PROVE Near(v, 0) /\ Totals(v[Super], v)
<1> DEFINE s == [d |-> v, m |-> [gd |-> [g \in Groups |-> v[Desc(g)]]]]
<1>1. /\ \A g \in Groups : /\ v[Desc(g)] \in ADesc
                           /\ v[Desc(g)].blocks = Cardinality(FreeBlocksIn(s, g))
      /\ TotalsMatch(s, v[Super])
      /\ \A b \in Blocks : NamesUsed(v, v[DataAt(b)])
  BY CountAssumption
<1>2. s.d = v /\ s.m.gd = [g \in Groups |-> v[Desc(g)]] OBVIOUS
<1> HIDE DEF s
<1>3. /\ \A g \in Groups : FreeBlocksIn(s, g) = BlockRoom(v, g) /\ InodeRoom(s, g) = RoomForInodes(v, g)
      /\ BlockTotal(s) = Cardinality(AllBlockRoom(v))
      /\ InodeTotal(s) = Cardinality(AllInodeRoom(v))
  <2>1. s.m.gd = [g \in Groups |-> s.d[Desc(g)]] BY <1>2
  <2> QED BY <1>2, <2>1, StateRoom
<1>4. ASSUME NEW g \in Groups PROVE NearGroup(v, g, 0)
  <2>1. DOMAIN v[Desc(g)] = DOMAIN NoDesc /\ v[Desc(g)].blocks \in Nat BY <1>1 DEF ADesc, NoDesc
  <2>2. v[Desc(g)].blocks = Cardinality(BlockRoom(v, g)) BY <1>1, <1>3
  <2> QED BY <2>1, <2>2 DEF NearGroup
<1>5. DOMAIN v = Addresses BY VolumeAssumption
<1>6. \A b \in Blocks : BlockUsed(v, v[DataAt(b)]) BY <1>1, VolumeAssumption, NamedUsed
<1>7. \A g \in Groups : v[Desc(g)].inodes = Cardinality(RoomForInodes(v, g))
  BY <1>1, <1>2, <1>3 DEF TotalsMatch
<1>8. v[Super].blocks = Cardinality(AllBlockRoom(v)) /\ v[Super].inodes = Cardinality(AllInodeRoom(v))
  BY <1>1, <1>3 DEF TotalsMatch
<1> QED BY <1>4, <1>5, <1>6, <1>7, <1>8 DEF Near, Totals

\* Memory m and the writes w that are left for disk d, after n power cuts.
OnTrack(d, w, m, n) ==
  /\ m.dev /\ m.writable
  /\ \E e : Trail(d, w, e, n + 1) /\ Exact(m.sb, m.gd, e, n)

OnCount ==
  /\ Mounted => OnTrack(disk, wq, e4, hist.cuts)
  /\ ~Mounted => wq = <<>> /\ Near(disk, hist.cuts) /\ (hist.cuts = 0 => disk = first)
CountInv == MountInv /\ hist.cuts \in Nat /\ (~Stale(first) => OnCount)

LEMMA CountInit == Init => CountInv
<1> SUFFICES ASSUME Init PROVE CountInv OBVIOUS
<1>1. disk \in Volumes /\ first = disk /\ wq = <<>> /\ e4 = Unmounted BY DEF Init
<1>2. hist.cuts = 0 BY DEF Init
<1>3. ~Mounted BY <1>1, UnmountedFacts DEF Mounted
<1>4. Near(disk, hist.cuts) BY <1>1, <1>2, VolumeCounts
<1> QED BY <1>1, <1>2, <1>3, <1>4, MountInit DEF CountInv, OnCount

\* Between two calls, what is in memory is on the disk.
LEMMA IdleExact ==
  ASSUME CountInv, Idle, Mounted, ~Stale(first)
  PROVE  e4.dev /\ e4.writable /\ Exact(e4.sb, e4.gd, disk, hist.cuts) /\ Near(disk, hist.cuts + 1)
<1>1. wq = <<>> /\ OnTrack(disk, wq, e4, hist.cuts) BY DEF CountInv, OnCount, MountInv
<1>2. PICK e : Trail(disk, wq, e, hist.cuts + 1) /\ Exact(e4.sb, e4.gd, e, hist.cuts) BY <1>1 DEF OnTrack
<1>3. e = disk BY <1>1, <1>2, TrailEnds
<1>4. Near(disk, hist.cuts + 1) BY <1>2, TrailEnds
<1> QED BY <1>1, <1>2, <1>3, <1>4 DEF OnTrack

\* A call that changes files.
LEMMA CallCounts ==
  ASSUME CountInv, ~Stale(first), NEW s, NEW z, z = [sb |-> e4.sb, d |-> disk, n |-> hist.cuts],
         Kept(Now, z, {}) => Kept(s, z, {}), NEW c, Begin(s, c), Mounted
  PROVE  OnCount'
<1>1. /\ e4' = s.m /\ wq' = s.w /\ disk' = disk /\ Idle BY DEF Begin
<1>2. hist'.cuts = hist.cuts BY DEF Begin, CountInv, MountInv, HistFields
<1>3. z.sb = e4.sb /\ z.d = disk /\ z.n = hist.cuts OBVIOUS
<1>4. hist.cuts \in Nat BY DEF CountInv
<1>5. Kept(Now, z, {})
  <2> DEFINE n == Now
  <2>1. n.d = disk /\ n.m = e4 /\ n.w = <<>> BY DEF Now
  <2>2. Tame(n, e4.sb) BY <1>1, NowTame DEF CountInv
  <2> HIDE DEF n
  <2>3. CanWrite(n) BY <1>1, <2>1, IdleExact DEF CanWrite
  <2>4. Trail(z.d, n.w, n.d, z.n + 1)
    <3>1. Near(disk, hist.cuts + 1) BY <1>1, IdleExact
    <3>2. Trail(disk, <<>>, disk, hist.cuts + 1) BY <3>1, TrailStart
    <3> QED BY <1>3, <2>1, <3>2
  <2>5. Exact(n.m.sb, n.m.gd, n.d, z.n) BY <1>1, <1>3, <2>1, IdleExact
  <2>6. Kept(n, z, {}) BY <1>3, <1>4, <2>2, <2>3, <2>4, <2>5 DEF Kept
  <2> QED BY <2>6 DEF n
<1>6. Kept(s, z, {}) BY <1>5
<1>7. CanWrite(s) /\ Trail(disk, s.w, s.d, hist.cuts + 1) /\ Exact(s.m.sb, s.m.gd, s.d, hist.cuts)
  BY <1>3, <1>6 DEF Kept
<1>8. OnTrack(disk, s.w, s.m, hist.cuts) BY <1>7 DEF OnTrack, CanWrite
<1>9. Mounted' BY <1>1, <1>7 DEF Mounted, CanWrite
<1> QED BY <1>1, <1>2, <1>8, <1>9 DEF OnCount

LEMMA MountCounts == ASSUME CountInv, ~Stale(first), Mount PROVE OnCount'
<1>0. first \in Volumes /\ DOMAIN hist = HistFields /\ DiskFit(first, disk) /\ hist.cuts \in Nat /\ OnCount
  BY DEF CountInv, MountInv
<1>1. PICK f \in MountFaults :
        Begin(Ext4Mount(Now, f), [NoCall EXCEPT !.op = "mount", !.fault = f])
  BY Zenon DEF Mount
<1> DEFINE r == Ext4Mount(Now, f)
<1>2. e4' = r.m /\ wq' = r.w /\ disk' = disk /\ first' = first /\ Idle BY <1>1 DEF Begin
<1>3. hist'.cuts = hist.cuts BY <1>0, <1>1 DEF Begin, HistFields
<1>4. DOMAIN Now = StateFields /\ Now.w = <<>> /\ Now.d = disk /\ Now.m = e4 BY DEF Now, StateFields
<1>5. Sane(disk) BY <1>0, DiskFitFacts
<1> HIDE DEF r
<1>6. \/ HasDevice(Now) /\ r.m = e4 /\ r.w = <<>>
      \/ ~HasDevice(Now) /\ r.m = Unmounted /\ r.w = <<>>
      \/ ~HasDevice(Now) /\ MountedAs(disk, f, r)
  <2>1. r = Ext4Mount(Now, f) BY DEF r
  <2>2. HasDevice(Now) => r = Done(Now) BY <2>1, Zenon DEF Ext4Mount, HasDevice
  <2>3. Done(Now).m = Now.m /\ Done(Now).w = Now.w BY <1>4 DEF Done, StateFields
  <2>4. HasDevice(Now) => r.m = e4 /\ r.w = <<>> BY <1>4, <2>2, <2>3
  <2>5. \/ HasDevice(Now) /\ r.m = Now.m /\ r.w = <<>>
        \/ r.m = Unmounted /\ r.w = <<>>
        \/ MountedAs(Now.d, f, r)
    BY <1>4, <1>5, <2>1, MountFacts
  <2> QED BY <1>4, <2>4, <2>5
<1>7. HasDevice(Now) <=> Mounted BY <1>4 DEF HasDevice, Mounted
<1>8. CASE HasDevice(Now) /\ r.m = e4 /\ r.w = <<>>
  <2>1. e4' = e4 /\ wq' = wq BY <1>2, <1>8 DEF CountInv, MountInv
  <2> QED BY <1>0, <1>2, <1>3, <2>1 DEF OnCount, Mounted
<1>9. CASE ~HasDevice(Now) /\ r.m = Unmounted /\ r.w = <<>>
  <2>1. ~Mounted' /\ wq' = <<>> BY <1>2, <1>9, UnmountedFacts DEF Mounted
  <2> QED BY <1>0, <1>2, <1>3, <1>7, <1>9, <2>1 DEF OnCount
<1>10. CASE ~HasDevice(Now) /\ MountedAs(disk, f, r)
  <2> DEFINE n == hist.cuts
  <2>1. Near(disk, n) /\ (n = 0 => disk = first) /\ n \in Nat BY <1>0, <1>7, <1>10 DEF OnCount
  <2>2. MountWrites(disk, r.w) /\ CanWrite(r) BY <1>10 DEF MountedAs
  <2>3. /\ r.m.gd = [g \in Groups |-> disk[Desc(g)]]
        /\ r.m.sb.blocks = disk[Super].blocks /\ r.m.sb.inodes = disk[Super].inodes
    BY <1>10 DEF MountedAs, SameCounts
  <2> HIDE DEF n
  <2>4. n = 0 => disk \in Volumes BY <1>0, <2>1
  <2>5. n = 0 => Totals(r.m.sb, disk)
    <3>1. n = 0 => Totals(disk[Super], disk) BY <2>4, VolumeCounts
    <3> QED BY <2>3, <3>1 DEF Totals
  <2>6. Exact(r.m.sb, r.m.gd, disk, n) BY <2>1, <2>3, <2>5 DEF Exact
  <2>7. Quiet(disk, n, r.w) BY <1>0, <2>1, <2>2, QuietMount
  <2>8. \E e : Trail(disk, r.w, e, n + 1) /\ Exact(r.m.sb, r.m.gd, e, n) BY <2>1, <2>6, <2>7, QuietTrail
  <2>9. OnTrack(disk, r.w, r.m, n) BY <2>2, <2>8 DEF OnTrack, CanWrite
  <2>10. OnTrack(disk', wq', e4', hist'.cuts) BY <1>2, <1>3, <2>9 DEF n
  <2>11. Mounted' BY <1>2, <2>2 DEF Mounted, CanWrite
  <2> QED BY <2>10, <2>11 DEF OnCount
<1> QED BY <1>6, <1>8, <1>9, <1>10

LEMMA CountNext == CountInv /\ [Next]_vars => CountInv'
<1> SUFFICES ASSUME CountInv, [Next]_vars PROVE CountInv' OBVIOUS
<1>0. DOMAIN hist = HistFields /\ hist.cuts \in Nat BY DEF CountInv, MountInv
<1>8. MountInv' BY MountNext DEF CountInv
<1>9. first' = first /\ hist'.cuts \in {hist.cuts, hist.cuts + 1}
  <2>1. CASE Mount BY <1>0, <2>1 DEF Mount, Begin, HistFields
  <2>2. CASE Write BY <1>0, <2>2 DEF Write, Begin, HistFields
  <2>3. CASE Unlink BY <1>0, <2>3 DEF Unlink, Begin, HistFields
  <2>4. CASE WriteOut BY <1>0, <2>4 DEF WriteOut, HistFields
  <2>5. CASE Return BY <1>0, <2>5 DEF Return, HistFields
  <2>6. CASE Cut BY <1>0, <2>6 DEF Cut, HistFields
  <2>7. CASE UNCHANGED vars BY <2>7 DEF vars
  <2> QED BY <2>1, <2>2, <2>3, <2>4, <2>5, <2>6, <2>7 DEF Next
<1>10. hist'.cuts \in Nat BY <1>0, <1>9
<1> SUFFICES ASSUME ~Stale(first) PROVE OnCount' BY <1>8, <1>9, <1>10 DEF CountInv
<1>11. OnCount BY DEF CountInv
<1> DEFINE z == [sb |-> e4.sb, d |-> disk, n |-> hist.cuts]
<1>1. CASE Mount BY <1>1, MountCounts
<1>2. CASE Write
  <2>1. PICK p \in Paths, c \in Contents, heap \in BOOLEAN :
          Begin(Ext4Write(Now, p, c, heap), Writing(p, c, ResolveFull(disk, p), heap))
    BY <1>2 DEF Write
  <2>3. Mounted BY <1>2 DEF Write, Mounted
  <2>4. Kept(Now, z, {}) => Kept(Ext4Write(Now, p, c, heap), z, {}) BY KeptExt4Write
  <2> QED BY <2>1, <2>3, <2>4, CallCounts
<1>3. CASE Unlink
  <2>1. PICK p \in Paths, heap \in BOOLEAN :
          Begin(Ext4Unlink(Now, p, heap), Calling("unlink", p, ResolveFull(disk, p), heap))
    BY <1>3 DEF Unlink
  <2>3. Mounted BY <1>3 DEF Unlink, Mounted
  <2>4. Kept(Now, z, {}) => Kept(Ext4Unlink(Now, p, heap), z, {}) BY KeptExt4Unlink
  <2> QED BY <2>1, <2>3, <2>4, CallCounts
<1>4. CASE WriteOut
  <2>1. wq # <<>> /\ wq' = Tail(wq) /\ e4' = e4 /\ disk' = [disk EXCEPT ![wq[1][1]] = wq[1][2]]
    BY <1>4 DEF WriteOut
  <2>2. hist'.cuts = hist.cuts BY <1>0, <1>4 DEF WriteOut, HistFields
  <2>3. Mounted /\ OnTrack(disk, wq, e4, hist.cuts) BY <1>11, <2>1 DEF OnCount
  <2>4. PICK e : Trail(disk, wq, e, hist.cuts + 1) /\ Exact(e4.sb, e4.gd, e, hist.cuts) BY <2>3 DEF OnTrack
  <2>5. Trail(disk', Tail(wq), e, hist.cuts + 1) BY <2>1, <2>4, TrailTail
  <2>6. OnTrack(disk', wq', e4, hist.cuts) BY <2>1, <2>3, <2>4, <2>5 DEF OnTrack
  <2>7. Mounted' BY <2>1, <2>3 DEF Mounted
  <2> QED BY <2>1, <2>2, <2>6, <2>7 DEF OnCount
<1>5. CASE Return
  <2>1. disk' = disk /\ first' = first /\ wq' = wq /\ e4' = e4 BY <1>5 DEF Return
  <2>2. hist'.cuts = hist.cuts BY <1>0, <1>5 DEF Return, HistFields
  <2> QED BY <1>11, <2>1, <2>2 DEF OnCount, Mounted
<1>6. CASE Cut
  <2>1. disk' = disk /\ wq' = <<>> /\ e4' = Unmounted BY <1>6 DEF Cut
  <2>2. hist'.cuts = hist.cuts + 1 BY <1>0, <1>6 DEF Cut, HistFields
  <2>3. ~Mounted' BY <2>1, UnmountedFacts DEF Mounted
  <2>4. Near(disk, hist.cuts + 1)
    <3>1. CASE Mounted
      <4>1. \E e : Trail(disk, wq, e, hist.cuts + 1) BY <1>11, <3>1 DEF OnCount, OnTrack
      <4> QED BY <4>1, TrailEnds
    <3>2. CASE ~Mounted BY <1>0, <3>2, <1>11, NearMore DEF OnCount
    <3> QED BY <3>1, <3>2
  <2>5. hist'.cuts \in Nat /\ hist'.cuts # 0 BY <1>0, <2>2
  <2> QED BY <2>1, <2>2, <2>3, <2>4, <2>5 DEF OnCount
<1>7. CASE UNCHANGED vars BY <1>7, <1>11 DEF vars, OnCount, Mounted
<1> QED BY <1>1, <1>2, <1>3, <1>4, <1>5, <1>6, <1>7 DEF Next

LEMMA CountsWhenInvariant == CountInv => CountsExact
<1> SUFFICES ASSUME CountInv, Idle, Mounted, ~Stale(first) PROVE CountsExact BY DEF CountsExact, Mounted
<1> DEFINE n == hist.cuts
<1>1. Exact(e4.sb, e4.gd, disk, n) BY IdleExact
<1>2. n \in Nat /\ e4.gd = [g \in Groups |-> disk[Desc(g)]] /\ Near(disk, n) /\ (n = 0 => Totals(e4.sb, disk))
  BY <1>1 DEF Exact, CountInv
<1> DEFINE s == Now
<1>3. s.d = disk /\ s.m = e4 BY DEF Now
<1> HIDE DEF s, n
<1>4. /\ \A g \in Groups : FreeBlocksIn(s, g) = BlockRoom(disk, g) /\ InodeRoom(s, g) = RoomForInodes(disk, g)
      /\ BlockTotal(s) = Cardinality(AllBlockRoom(disk))
      /\ InodeTotal(s) = Cardinality(AllInodeRoom(disk))
  <2>1. s.m.gd = [g \in Groups |-> s.d[Desc(g)]] BY <1>2, <1>3
  <2> QED BY <1>3, <2>1, StateRoom
<1>5. ASSUME NEW g \in Groups
      PROVE  /\ e4.gd[g].blocks \in Cardinality(FreeBlocksIn(s, g)) - n .. Cardinality(FreeBlocksIn(s, g)) + n
             /\ disk[Desc(g)] = e4.gd[g]
  <2>1. NearGroup(disk, g, n) /\ disk[Desc(g)] = e4.gd[g] BY <1>2 DEF Near
  <2>2. FreeBlocksIn(s, g) = BlockRoom(disk, g) /\ Cardinality(BlockRoom(disk, g)) \in Nat BY <1>4, RoomCounts
  <2> QED BY <1>2, <2>1, <2>2 DEF NearGroup
<1>6. n = 0 => TotalsMatch(s, e4.sb)
  <2> SUFFICES ASSUME n = 0 PROVE TotalsMatch(s, e4.sb) OBVIOUS
  <2>1. Totals(e4.sb, disk) BY <1>2
  <2>2. \A g \in Groups : e4.gd[g].inodes = Cardinality(InodeRoom(s, g)) BY <1>2, <1>4, <2>1 DEF Totals
  <2> QED BY <1>3, <1>4, <2>1, <2>2 DEF TotalsMatch, Totals
<1> QED BY <1>5, <1>6 DEF CountsExact, s, n

\* Whatever is mounted, written, unlinked and cut, and wherever space runs out:
\* between two calls the descriptors of a mounted volume are on the disk as they
\* are in memory, their free blocks are within one of the bitmaps for each cut,
\* and without a cut all the counts, those that ext4_free_blocks reports
\* included, are exactly what the bitmaps say (e4_sync_gd goes out before the
\* bitmap, e4_sync_superblock last).  Volumes with a journal that is to restore
\* descriptors, bitmaps or the superblock are excepted, since e4_load_gdt comes
\* before the replay.
THEOREM CountsAreExact == Spec => []CountsExact
<1>1. Spec => []CountInv BY CountInit, CountNext, PTL DEF Spec
<1> QED BY <1>1, CountsWhenInvariant, PTL
=============================================================================
