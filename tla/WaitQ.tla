-------------------------------- MODULE WaitQ --------------------------------
(***************************************************************************)
(* The wait queues of a channel (chan_waitq_t in libchan_internal.h) as    *)
(* sequences of threads: waitq_push is Append, waitq_push_front puts in    *)
(* front, waitq_pop takes the Head.                                        *)
(***************************************************************************)
EXTENDS Integers, Sequences

Elems(q) == {q[i] : i \in DOMAIN q}

\* No element occurs twice in q.
Distinct(q) == \A i, j \in DOMAIN q : q[i] = q[j] => i = j

\* waitq_remove unlinks the first node that is the target's, if there is one.
Without(q, t) ==
    LET at == {i \in DOMAIN q : q[i] = t} IN
    IF at = {} THEN q
    ELSE LET i == CHOOSE k \in at : \A j \in at : k <= j
         IN  SubSeq(q, 1, i - 1) \o SubSeq(q, i + 1, Len(q))
==============================================================================
