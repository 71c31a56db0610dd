----------------------------- MODULE MCPrograms ------------------------------
EXTENDS Programs

AllPrograms == DOMAIN Channels
PerSource == <<2, 1>>
==============================================================================
