-------------------------------- MODULE Park ---------------------------------
(***************************************************************************)
(* Parking and waking a thread (park.c), in its two implementations: a     *)
(* futex, and a mutex with a condition variable.  The word is the futex    *)
(* word or the signaled flag of the park the thread waits on.              *)
(***************************************************************************)
CONSTANT Parkers         \* the threads that park

VARIABLES
    backend,             \* "futex" or "pthread": LIBCHAN_USE_FUTEX, fixed at build time
    word,
    asleep               \* the threads inside FUTEX_WAIT or pthread_cond_wait

park == <<backend, word, asleep>>

ParkInit ==
    /\ backend \in {"futex", "pthread"}
    /\ word = [t \in Parkers |-> 0]
    /\ asleep = {}

\* chan_park_init
ParkFresh(t) == word' = [word EXCEPT ![t] = 0] /\ UNCHANGED <<backend, asleep>>

\* Mutant of ParkSleep: the word is tested before the call and not by it.
ParkSleepBlind(t) ==
    /\ t \notin asleep
    /\ asleep' = asleep \cup {t}
    /\ UNCHANGED <<backend, word>>

\* FUTEX_WAIT compares the word and sleeps in one step; on the other backend
\* the park's mutex makes the test and the wait one.
ParkSleep(t) ==
    /\ t \notin asleep /\ word[t] = 0
    /\ asleep' = asleep \cup {t}
    /\ UNCHANGED <<backend, word>>

\* Returned TRUE: the word is set and the thread is up.
ParkTrue(t) == t \notin asleep /\ word[t] = 1 /\ UNCHANGED park

\* EINTR, or a spurious wakeup of the condition variable: test again.
ParkSpurious(t) ==
    /\ t \in asleep
    /\ asleep' = asleep \ {t}
    /\ UNCHANGED <<backend, word>>

\* The time is up.  FUTEX_WAIT reports it even if the word has been set but
\* the wake has not yet come; the condition variable's loop looks again.
ParkTimeout(t) ==
    /\ t \in asleep /\ (backend = "pthread" => word[t] = 0)
    /\ asleep' = asleep \ {t}
    /\ UNCHANGED <<backend, word>>

\* chan_park_wake: the store and FUTEX_WAKE are two steps, the signal under
\* the mutex is one.
ParkSet(t) ==
    /\ word' = [word EXCEPT ![t] = 1]
    /\ asleep' = IF backend = "pthread" THEN asleep \ {t} ELSE asleep
    /\ UNCHANGED backend

ParkNotify(t) ==
    /\ asleep' = asleep \ {t}
    /\ UNCHANGED <<backend, word>>
==============================================================================
