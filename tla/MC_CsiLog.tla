------------------------------ MODULE MC_CsiLog -------------------------------
(***************************************************************************)
(* An instance of CsiLog for TLC.  The buffer of 22 bytes holds the long    *)
(* packet in the format of the tool to the last byte; the array list, with *)
(* its longer tail, refuses it.                                            *)
(***************************************************************************)
EXTENDS CsiLog

MCPackets == {
    [prefix |-> 8, data |-> <<-128, -7>>],
    [prefix |-> 10, data |-> <<-101, -128>>]}
=============================================================================
