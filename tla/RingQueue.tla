------------------------------ MODULE RingQueue ------------------------------
(***************************************************************************)
(* What the lock-free ring of libchan promises its callers: a bounded FIFO *)
(* queue shared by producers and consumers.  One Enqueue is one successful *)
(* ring_lf_push or ring_lf_enqueue_burst, one Dequeue one successful       *)
(* ring_lf_pop or ring_lf_dequeue_burst.  Message number i of producer p   *)
(* is the pair <<p, i>>, so that a lost, duplicated or reordered message   *)
(* shows in the history.                                                   *)
(***************************************************************************)
EXTENDS Integers, Sequences

CONSTANTS Producers, Consumers, Capacity, MaxBurst

VARIABLES queue,  \* the messages in the ring, oldest first
          sent,   \* sent[p]: how many messages of p the ring has accepted
          got     \* got[c]: the messages handed to c, in order

vars == <<queue, sent, got>>

Init == /\ queue = << >>
        /\ sent = [p \in Producers |-> 0]
        /\ got = [c \in Consumers |-> << >>]

\* The next n messages of producer p.
Batch(p, n) == [i \in 1..n |-> <<p, sent[p] + i>>]

\* A run of n messages enters the queue as one contiguous block.
Enqueue(p, n) ==
    /\ Len(queue) + n <= Capacity
    /\ queue' = queue \o Batch(p, n)
    /\ sent' = [sent EXCEPT ![p] = @ + n]
    /\ UNCHANGED got

\* A run of n messages leaves the queue from its front.
Dequeue(c, n) ==
    /\ n <= Len(queue)
    /\ got' = [got EXCEPT ![c] = @ \o SubSeq(queue, 1, n)]
    /\ queue' = SubSeq(queue, n + 1, Len(queue))
    /\ UNCHANGED sent

Next == \E n \in 1..MaxBurst :
            \/ \E p \in Producers : Enqueue(p, n)
            \/ \E c \in Consumers : Dequeue(c, n)

Spec == Init /\ [][Next]_vars
==============================================================================
