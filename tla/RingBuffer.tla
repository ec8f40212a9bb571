------------------------------ MODULE RingBuffer ------------------------------
(***************************************************************************)
(* The ring buffer of pkg/events/ringbuf.go as operators on its fields.    *)
(***************************************************************************)
EXTENDS Integers, Sequences

CONSTANTS Size,      \* size: how many elements the buffer holds
          Elements,  \* what may be stored
          Zero       \* the zero value of an element that was never stored

\* NewRingBuffer panics if its size is not positive.
ASSUME SizeAssumption == Size \in Nat \ {0}

Positions == 0 .. Size - 1

\* type ringBuffer
Ring == [data  : [Positions -> Elements \cup {Zero}],
         start : Positions,
         count : 0 .. Size]

NewRing == [data |-> [p \in Positions |-> Zero], start |-> 0, count |-> 0]

\* Where Push stores: behind the newest element or, when full, over the oldest.
Slot(ring) ==
    IF ring.count < Size THEN (ring.start + ring.count) % Size ELSE ring.start

Stored(ring, value) == [ring EXCEPT !.data[Slot(ring)] = value]

\* Faults: the count goes on growing when full, or the start does not move.
AdvancedPastSize(ring) ==
    IF ring.count < Size
    THEN [ring EXCEPT !.count = @ + 1]
    ELSE [ring EXCEPT !.start = (@ + 1) % Size, !.count = @ + 1]

AdvancedToSize(ring) ==
    IF ring.count < Size THEN [ring EXCEPT !.count = @ + 1] ELSE ring

\* What Push does to the indices once the element is stored.
Advanced(ring) ==
    IF ring.count < Size
    THEN [ring EXCEPT !.count = @ + 1]
    ELSE [ring EXCEPT !.start = (@ + 1) % Size]

Push(ring, value) == Advanced(Stored(ring, value))

\* Fault: from the beginning of the slice.
ElementFromZero(ring, k) == ring.data[k]

\* The k-th oldest element as Values reads it, from 0.
Element(ring, k) == ring.data[(ring.start + k) % Size]

Values(ring) == [k \in 1 .. ring.count |-> Element(ring, k - 1)]

\* The newest elements of a history, as many as the buffer holds.
Newest(history) ==
    IF Len(history) <= Size THEN history
    ELSE SubSeq(history, Len(history) - Size + 1, Len(history))
===============================================================================
