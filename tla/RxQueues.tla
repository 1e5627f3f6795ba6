------------------------------ MODULE RxQueues ------------------------------
(***************************************************************************)
(* What the reception side of the CAN FD reference model promises: every   *)
(* receive FIFO is a bounded queue that keeps what it accepted, in order,  *)
(* until it is read or the device is reset; an arrival finds its way into  *)
(* each queue it is meant for, or that queue is full and the shared        *)
(* overflow flag is up when the arrival is over.                           *)
(***************************************************************************)
EXTENDS Naturals, Sequences

CONSTANTS
    Queues,      \* names of the queues
    Items,       \* what arrives
    Depth        \* how much each queue holds

VARIABLES
    queue,       \* queue[k]: the items queue k holds, the oldest first
    overflow     \* an item was lost since the flag was cleared

vars == <<queue, overflow>>

Full(k) == Len(queue[k]) >= Depth

Init ==
    /\ queue = [k \in Queues |-> <<>>]
    /\ overflow = FALSE

\* The item is meant for the queues in dest.
Arrive(dest, item) ==
    /\ queue' = [k \in Queues |->
                    IF k \in dest /\ ~Full(k) THEN Append(queue[k], item) ELSE queue[k]]
    /\ overflow' = (overflow \/ \E k \in dest : Full(k))

Take(k) ==
    /\ queue[k] # <<>>
    /\ queue' = [queue EXCEPT ![k] = Tail(@)]
    /\ UNCHANGED overflow

ClearOverflow ==
    /\ overflow' = FALSE
    /\ UNCHANGED queue

Reset ==
    /\ queue' = [k \in Queues |-> <<>>]
    /\ overflow' = FALSE

Next ==
    \/ \E dest \in SUBSET Queues, item \in Items : Arrive(dest, item)
    \/ \E k \in Queues : Take(k)
    \/ ClearOverflow
    \/ Reset

Spec == Init /\ [][Next]_vars
=============================================================================
