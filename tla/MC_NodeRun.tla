----------------------------- MODULE MC_NodeRun ------------------------------
EXTENDS NodeRun

\* An access point with its DHCP server.
Dhcp == {c \in Configurations : c.dhcp}

\* A fast source without a rate, run for a duration.
FlatOut == {c \in Configurations : c.timed /\ ~c.paced}
============================================================================
