----------------------------- MODULE MC_RunStats -----------------------------
EXTENDS RunStats, TLC

\* Nothing tells one transmitter from another.
Symmetry == Permutations(Macs)
==============================================================================
