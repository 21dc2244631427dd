----------------------------- MODULE Allocator -----------------------------
(***************************************************************************)
(* What a heap allocator promises its callers, without blocks, headers or *)
(* lists: the set of live allocations, each a range of addresses that the *)
(* caller asked for `req` units of and was given `len` >= req units.       *)
(* malloc adds a range disjoint from every live one (mmap several at     *)
(* once, disjoint from each other too); free removes a live               *)
(* range; realloc replaces a live range by a new one obtained while the   *)
(* old one was still live.  A failed call is a stuttering step.           *)
(***************************************************************************)
EXTENDS Integers

CONSTANTS
  Addr          \* the addresses ranges are drawn from

VARIABLE live   \* set of [lo, len, req] records

Ranges == [lo : Addr, len : Nat \ {0}, req : Nat \ {0}]

Span(r) == r.lo .. r.lo + r.len - 1

Fresh(r) ==
  /\ r.req <= r.len
  /\ Span(r) \subseteq Addr
  /\ \A o \in live : Span(o) \cap Span(r) = {}

Init == live = {}

\* The new range is named through live', so that checking a step against
\* this specification does not enumerate Ranges.
Alloc == \E r \in live' \ live : r \in Ranges /\ Fresh(r) /\ live' = live \cup {r}

AllocMany ==
  /\ live \subseteq live'
  /\ \A r \in live' \ live :
       /\ r \in Ranges /\ Fresh(r)
       /\ \A r2 \in live' \ live : r2 # r => Span(r2) \cap Span(r) = {}

Release == \E r \in live : live' = live \ {r}

Move == \E r \in live, r2 \in live' \ live :
          r2 \in Ranges /\ Fresh(r2) /\ live' = (live \ {r}) \cup {r2}

Next == Alloc \/ AllocMany \/ Release \/ Move

Spec == Init /\ [][Next]_live

=============================================================================
