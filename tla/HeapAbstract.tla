---------------------------- MODULE HeapAbstract ----------------------------
(***************************************************************************)
(* What the heap promises its callers (spec 4.1, 4.3, 8), whatever free    *)
(* list it keeps: every allocation it hands out lies inside the mapped     *)
(* arena, starts at the alignment asked for and shares no address with any *)
(* allocation still held; freeing gives one allocation back and touches no *)
(* other; the arena only grows, at its top.                                *)
(***************************************************************************)
EXTENDS Integers

CONSTANTS HeapStart, InitSize, CoreLimit, Shapes  \* Shapes: [size, align] asked for

VARIABLES allocs, limit

Overlaps(x, y) == x.start < y.start + y.size /\ y.start < x.start + x.size

Init ==
  /\ allocs = {}
  /\ limit = HeapStart + InitSize

Alloc ==
  \E s \in Shapes, a \in HeapStart .. limit - 1 :
    LET x == [start |-> a, size |-> s.size, align |-> s.align]
    IN /\ a % s.align = 0
       /\ a + s.size <= limit
       /\ \A y \in allocs : ~Overlaps(x, y)
       /\ allocs' = allocs \cup {x}
       /\ UNCHANGED limit

Free ==
  \E x \in allocs :
    /\ allocs' = allocs \ {x}
    /\ UNCHANGED limit

Grow ==
  /\ limit' \in limit + 1 .. CoreLimit
  /\ UNCHANGED allocs

Next == Alloc \/ Free \/ Grow

Spec == Init /\ [][Next]_<<allocs, limit>>
=============================================================================
