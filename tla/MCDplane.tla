------------------------------ MODULE MCDplane -------------------------------
EXTENDS Dplane

Run(w, on, par, timed, n, slow) ==
    [wiring |-> w, on |-> on, parallel |-> par, timed |-> timed, count |-> n, slow |-> slow]

\* One path with more packets than its channels hold, each pair of opposite
\* paths in turn, and paths in parallel that cannot fill a channel; a timed
\* run of each kind, and a drain that runs out of time where the state space
\* allows it.
MCConfigs ==
    UNION {{Run(w, {2}, FALSE, TRUE, 10, FALSE), Run(w, {1, 2}, FALSE, FALSE, 3, FALSE), Run(w, {3, 4}, FALSE, TRUE, 3, FALSE),
            Run(w, {5, 6}, FALSE, FALSE, 2, TRUE), Run(w, {1, 3, 4}, TRUE, FALSE, 1, FALSE),
            Run(w, {3, 4}, TRUE, TRUE, 1, TRUE)} : w \in {"links", "inboxes"}}
==============================================================================
