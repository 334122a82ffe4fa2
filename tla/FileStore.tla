----------------------------- MODULE FileStore ------------------------------
(***************************************************************************)
(* What fs/ramfs.h promises its callers: a flat store of named contents, in  *)
(* which a write replaces a file as a whole or leaves it as it was.          *)
(***************************************************************************)
EXTENDS Integers, Sequences, FiniteSets

CONSTANTS
  Names, LongNames,   \* names, and those that do not fit a table entry
  Contents,           \* sequences of bytes
  Rooms,              \* how much a caller's buffer may take
  Capacity            \* files there is room for

VARIABLES
  ready,    \* whether the store was set up
  store,    \* the files: names to contents
  reply     \* the call made last and what it returned

vars == <<ready, store, reply>>

Answer(op, rc, out) == [op |-> op, rc |-> rc, out |-> out]
Present == DOMAIN store

Init == /\ ready = FALSE /\ store = <<>>
        /\ reply = Answer("none", 0, <<>>)

SetUp == /\ ~ready /\ ready' = TRUE
         /\ reply' = Answer("init", 0, <<>>) /\ UNCHANGED store

\* A file is created empty, once, while there is room.
Create(n) ==
  LET can == ready /\ n \notin LongNames \cup Present /\ Cardinality(Present) < Capacity
  IN  /\ store' = IF can THEN [m \in Present \cup {n} |-> IF m = n THEN <<>> ELSE store[m]] ELSE store
      /\ reply' = Answer("create", IF can THEN 0 ELSE -1, <<>>)
      /\ UNCHANGED ready

\* Memory may run out, and then nothing changes.
Write(n, c) ==
  /\ \/ /\ n \in Present
        /\ store' = [store EXCEPT ![n] = c] /\ reply' = Answer("write", 0, <<>>)
     \/ /\ UNCHANGED store /\ reply' = Answer("write", -1, <<>>)
  /\ UNCHANGED ready

Read(n, max) ==
  /\ reply' = IF n \notin Present THEN Answer("read", -1, <<>>)
              ELSE LET k == IF Len(store[n]) < max THEN Len(store[n]) ELSE max
                   IN  Answer("read", k, SubSeq(store[n], 1, k))
  /\ UNCHANGED <<ready, store>>

Size(n) ==
  /\ reply' = Answer("size", IF n \in Present THEN Len(store[n]) ELSE 0, <<>>)
  /\ UNCHANGED <<ready, store>>

\* Distinct names of files, all of them when there are no more than max.
List(max) ==
  LET k == IF Cardinality(Present) < max THEN Cardinality(Present) ELSE max
  IN  /\ \E q \in [1 .. k -> Present] :
           /\ \A i, j \in 1 .. k : q[i] = q[j] => i = j
           /\ reply' = Answer("list", k, q)
      /\ UNCHANGED <<ready, store>>

Next ==
  \/ SetUp
  \/ \E n \in Names : \/ Create(n) \/ Size(n)
                      \/ \E c \in Contents : Write(n, c)
                      \/ \E max \in Rooms : Read(n, max)
  \/ \E max \in Rooms : List(max)

Spec == Init /\ [][Next]_vars
=============================================================================
