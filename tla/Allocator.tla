----------------------------- MODULE Allocator ------------------------------
(***************************************************************************)
(* What kmalloc and kfree promise their callers (kernel/lib/kmalloc.c),    *)
(* without blocks, headers or free lists: an allocation is a range of      *)
(* addresses of the heap that belongs to nobody else until it is given     *)
(* back.                                                                   *)
(***************************************************************************)
EXTENDS Integers

CONSTANTS
    Lo, Hi,     \* the addresses of the heap are Lo..(Hi - 1)
    Sizes       \* the sizes that callers ask for

VARIABLE live   \* the allocations that callers hold: start address -> size

Init == live = [p \in {} |-> 0]

Free(p, n) == \A q \in DOMAIN live : q + live[q] <= p \/ p + n <= q

Alloc(p, n) ==
    /\ p + n <= Hi
    /\ p \notin DOMAIN live
    /\ Free(p, n)
    /\ live' = [q \in DOMAIN live \cup {p} |-> IF q = p THEN n ELSE live[q]]

Release(p) == live' = [q \in DOMAIN live \ {p} |-> live[q]]

Next ==
    \/ \E p \in Lo..(Hi - 1), n \in Sizes : Alloc(p, n)
    \/ \E p \in DOMAIN live : Release(p)

Spec == Init /\ [][Next]_live
=============================================================================
