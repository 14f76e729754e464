------------------------------- MODULE GpuMemory -------------------------------
(***************************************************************************)
(* What a suballocator of GPU memory promises its callers, whatever lists  *)
(* and indexes it keeps: regions handed out are disjoint, lie within the   *)
(* buffer, start on a multiple of the unit and stay theirs until freed;    *)
(* and a request fails only when no gap anywhere in the buffer could hold  *)
(* it.                                                                     *)
(***************************************************************************)
EXTENDS Integers

CONSTANTS PoolSize, Unit, Requests

VARIABLES
    live,   \* the pointers handed out and not yet freed |-> their bytes
    ret     \* the last call and how it ended

vars == <<live, ret>>

Address == 0 .. (PoolSize - 1)

Rounded(n) == IF n % Unit = 0 THEN n ELSE n + (Unit - (n % Unit))

Result(op, arg, outcome, ptr) ==
    [op |-> op, arg |-> arg, outcome |-> outcome, ptr |-> ptr]

\* Bytes a .. a+n-1 are in the buffer and belong to nobody.
Gap(a, n) ==
    /\ a + n <= PoolSize
    /\ \A p \in DOMAIN live : a + n <= p \/ p + live[p] <= a

Init ==
    /\ live = [p \in {} |-> 0]
    /\ ret = Result("ctor", 0, "ok", 0)

Grant(n, p) ==
    /\ p % Unit = 0
    /\ Gap(p, Rounded(n))
    /\ live' = [q \in DOMAIN live \cup {p} |-> IF q = p THEN Rounded(n) ELSE live[q]]
    /\ ret' = Result("Allocate", n, "ok", p)

Refuse(n) ==
    /\ \A a \in Address : ~Gap(a, Rounded(n))
    /\ ret' = Result("Allocate", n, "out_of_memory", 0)
    /\ UNCHANGED live

Allocate(n) == n > 0 /\ (Refuse(n) \/ \E p \in Address : Grant(n, p))

Deallocate(p) ==
    /\ p \in DOMAIN live
    /\ live' = [q \in DOMAIN live \ {p} |-> live[q]]
    /\ ret' = Result("Deallocate", p, "ok", 0)

\* A request of no bytes, or to free what is not allocated, changes nothing.
Reject(op, arg) ==
    /\ \/ op = "Allocate" /\ arg <= 0
       \/ op = "Deallocate" /\ arg \notin DOMAIN live
    /\ ret' = Result(op, arg, "out_of_range", 0)
    /\ UNCHANGED live

Next ==
    \/ \E n \in Requests : Allocate(n) \/ Reject("Allocate", n)
    \/ \E p \in Address : Deallocate(p) \/ Reject("Deallocate", p)

Spec == Init /\ [][Next]_vars
=============================================================================
