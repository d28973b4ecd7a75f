----------------------------- MODULE CsiChannel ------------------------------
(***************************************************************************)
(* What the CSI queue and next_csi_packet promise together, without the    *)
(* waker: a bounded channel.  Frames are offered one at a time; an offered *)
(* frame enters the channel at its end or is lost, a full channel loses    *)
(* the newest.  A reader that awaits gets the oldest frame, and an         *)
(* awaiting reader is not left waiting while the channel holds one.        *)
(***************************************************************************)
EXTENDS Integers, Sequences

CONSTANTS Cap, MaxFrames

VARIABLES
    chan,      \* the frames in the channel, oldest first
    offered,   \* the number of the last frame offered
    pending,   \* whether that frame's fate is undecided
    reader     \* "out" or "awaiting"

chanVars == <<chan, offered, pending, reader>>

Init == chan = <<>> /\ offered = 0 /\ pending = FALSE /\ reader = "out"

Offer ==
    /\ ~pending
    /\ offered < MaxFrames
    /\ offered' = offered + 1
    /\ pending' = TRUE
    /\ UNCHANGED <<chan, reader>>

Put ==
    /\ pending
    /\ Len(chan) < Cap
    /\ chan' = Append(chan, offered)
    /\ pending' = FALSE
    /\ UNCHANGED <<offered, reader>>

Lose == pending /\ pending' = FALSE /\ UNCHANGED <<chan, offered, reader>>

Await == reader = "out" /\ reader' = "awaiting" /\ UNCHANGED <<chan, offered, pending>>

Get ==
    /\ reader = "awaiting"
    /\ chan # <<>>
    /\ chan' = Tail(chan)
    /\ reader' = "out"
    /\ UNCHANGED <<offered, pending>>

GiveUp == reader = "awaiting" /\ reader' = "out" /\ UNCHANGED <<chan, offered, pending>>

Next == Offer \/ Put \/ Lose \/ Await \/ Get \/ GiveUp

SafeSpec == Init /\ [][Next]_chanVars

Spec == SafeSpec /\ WF_chanVars(Get)
============================================================================
