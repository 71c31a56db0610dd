-------------------------------- MODULE MCSpsc -------------------------------
EXTENDS Spsc

MCParkers == {P, C}
Both(p, c) == [t \in {P, C} |-> IF t = P THEN p ELSE c]
MCForms == {Both("block", "block"), Both("timed", "block"), Both("block", "timed"), Both("try", "timed"), Both("timed", "try")}
==============================================================================
