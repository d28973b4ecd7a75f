----------------------------- MODULE MC_ApFlood ------------------------------
(***************************************************************************)
(* An instance of ApFlood for TLC.                                         *)
(***************************************************************************)
EXTENDS ApFlood

CONSTANTS s1, s2, s3

ThreeStations == {s1, s2, s3}

AP(lease, count, sync, dhcp, tx) ==
    [lease |-> lease, count |-> count, sync |-> sync, dhcp |-> dhcp, tx |-> tx]

\* A pool that fits; one that repeats the last host; one of other addresses, for
\* which the registry may have no room left; a single lease; no pool at all.
MCConfigs == {
    AP(2, 3, TRUE, TRUE, TRUE),
    AP(3, 3, TRUE, TRUE, TRUE),
    AP(0, 2, FALSE, TRUE, TRUE),
    AP(0, 1, FALSE, TRUE, TRUE),
    AP(0, 0, TRUE, FALSE, TRUE),
    AP(2, 3, FALSE, TRUE, FALSE)}
============================================================================
