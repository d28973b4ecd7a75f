---------------------------- MODULE MC_StationLink ----------------------------
\* The station and the other roles for TLC.
EXTENDS StationLink
==============================================================================
