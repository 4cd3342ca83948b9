----------------------------- MODULE HeapPromise -----------------------------
(***************************************************************************)
(* What LocTimer takes for granted of the heap of timers: a set with a     *)
(* head, which no element outranks and which changes only when it must.    *)
(***************************************************************************)
EXTENDS Integers

CONSTANTS Data, Rank, None
VARIABLES
    heap, top,      \* the contents and what peek() returns
    got             \* what the last pop() or remove() returned

vars == <<heap, top, got>>

HigherThan(d, e) == Rank[d] < Rank[e]

SoonestOf(h) == IF h = {} THEN {None}
                ELSE {d \in h : \A e \in h : ~ HigherThan(e, d)}

Init == heap = {} /\ top = None /\ got = None

Push(d) ==
    /\ d \notin heap
    /\ heap' = heap \cup {d}
    /\ top' = IF top = None \/ HigherThan(d, top) THEN d ELSE top
    /\ UNCHANGED got

Remove(d) ==
    /\ heap' = heap \ {d}
    /\ IF d = top THEN top' \in SoonestOf(heap') ELSE UNCHANGED top
    /\ got' = IF d \in heap THEN d ELSE None

Pop == IF top = None THEN got' = None /\ UNCHANGED <<heap, top>> ELSE Remove(top)

Next == Pop \/ \E d \in Data : Push(d) \/ Remove(d)

Spec == Init /\ [][Next]_vars
=============================================================================
