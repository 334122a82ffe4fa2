----------------------------- MODULE Allocator -----------------------------
(***************************************************************************)
(* What mm/heap.h promises its callers, whichever backend is linked: an     *)
(* allocation is an extent of bytes that holds the request and overlaps no  *)
(* other live allocation; only a release ends it; a request may be denied.  *)
(***************************************************************************)
EXTENDS Integers

CONSTANTS
  Extents,    \* the extents <<start, length>> an allocation may be
  Requests    \* the sizes that may be asked for

VARIABLES
  live,       \* the extents handed out and not released
  pending     \* the request being served, 0 if none

Disjoint(e, f) == e[1] + e[2] <= f[1] \/ f[1] + f[2] <= e[1]

Init == live = {} /\ pending = 0

Request ==
  /\ pending = 0
  /\ pending' \in Requests \ {0}
  /\ UNCHANGED live

Grant ==
  /\ pending # 0
  /\ \E e \in Extents :
       /\ e[2] >= pending
       /\ \A f \in live : Disjoint(e, f)
       /\ live' = live \cup {e}
  /\ pending' = 0

Deny ==
  /\ pending # 0
  /\ pending' = 0
  /\ UNCHANGED live

Release ==
  /\ \E e \in live : live' = live \ {e}
  /\ UNCHANGED pending

Next == Request \/ Grant \/ Deny \/ Release

Spec == Init /\ [][Next]_<<live, pending>>
=============================================================================
