---------------------------- MODULE BoundedQueue ----------------------------
(***************************************************************************)
(* What RingBuff promises its callers: a queue of at most Capacity         *)
(* elements that makes room for a new one by dropping the oldest.          *)
(***************************************************************************)
EXTENDS Naturals, Sequences

CONSTANTS
  Capacity,  \* a positive number
  Data

VARIABLES
  queue,     \* the elements held, oldest first
  taken      \* the element taken last

PutInto(q, d) == Append(IF Len(q) = Capacity THEN Tail(q) ELSE q, d)

Init == queue = <<>> /\ taken \in Data

Put(d) == queue' = PutInto(queue, d) /\ UNCHANGED taken

Take ==
  /\ queue # <<>>
  /\ taken' = Head(queue) /\ queue' = Tail(queue)

Next == Take \/ \E d \in Data : Put(d)

Spec == Init /\ [][Next]_<<queue, taken>>
=============================================================================
