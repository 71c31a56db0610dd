----------------------------- MODULE MCChanUnbuf -----------------------------
EXTENDS ChanUnbuf, TLC

CONSTANTS s1, s2, r1, r2, c1

Symm == Permutations(Senders) \cup Permutations(Receivers)
==============================================================================
