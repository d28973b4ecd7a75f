------------------------------- MODULE RunStats -------------------------------
\* The counters of stats.rs and the two things capture_csi_info does with a
\* report before delivering it: the attribution filter and the sequence-gap
\* estimate (csi/delivery.rs).  The Wi-Fi task captures, the node task resets
\* the counters and computes the rates, and user code sets the filter; each
\* atomic access is a step.  What the delivery gates decide belongs to
\* CsiDelivery and is a free choice here.
EXTENDS Integers, Sequences, FiniteSets

CONSTANTS
    Chips,      \* the chips the firmware is built for
    Macs,       \* transmitters on the channel
    NoMac,      \* the all-zero address: no source filter
    SeqMod,     \* the 802.11 sequence numbers wrap here (4096)
    LossCap,    \* gaps of this many frames and more are not counted (500)
    TrackCap,   \* MAX_TRACKED_PEERS (16)
    Strays,     \* bound: the numbers of frames outside the running counts
    MaxRuns,    \* bound: runs
    MaxEvents   \* bound: reports captured, and filter and output calls made

ASSUME StatsAssumption ==
    /\ Chips \subseteq {"esp32", "esp32c5", "esp32c6"}     \* esp32: the classic radios
    /\ IsFiniteSet(Macs) /\ NoMac \notin Macs
    /\ SeqMod \in Nat \ {0, 1} /\ LossCap \in 1..SeqMod /\ TrackCap \in Nat \ {0}
    /\ Strays \subseteq 0..(SeqMod - 1)
    /\ {MaxRuns, MaxEvents} \subseteq Nat

VARIABLES
    chip,       \* the chip of this build
    run,        \* the step run_inner and run_process_csi_packet are at
    kind,       \* what the run does
    runs,       \* runs begun
    zeroing,    \* counters that stats::reset has still to clear
    stats,      \* STATS: reports, dropped reports, reports per second
    lastRx,     \* last_rx_count, local to run_process_csi_packet
    armed,      \* the CSI callback is registered with the driver
    detect,     \* SEQ_DROP_DETECTION_ENABLED
    forget,     \* RESET_SEQ_TRACKER
    tracker,    \* PEER_SEQ_TRACKER
    changed,    \* CSI_OUTPUT_CHANGED holds a signal
    filter,     \* CSI_PEER_FILTER, CSI_MIN_SIG_MODE, CSI_FILTER_ACTIVE
    call,       \* the filter call user code is in
    events,     \* reports captured and calls made
    cap,        \* the report the Wi-Fi task is capturing
    sent,       \* the running count of the frames of each transmitter
    mixed,      \* transmitters that showed the tracker a number not of that count
    seen,       \* history: the frame of a transmitter last shown to the tracker
    missed,     \* history: frames of a transmitter never shown to the tracker
    guessed,    \* history: drops counted for the gaps of a transmitter
    gap         \* history: how much of stats.drop was counted for gaps

runVars    == <<run, kind, runs, zeroing, lastRx>>
filterVars == <<filter, call>>
airVars    == <<sent, mixed, seen, missed, guessed>>
vars == <<chip, runVars, stats, armed, detect, forget, tracker, changed, filterVars,
          events, cap, airVars, gap>>

Happens == events < MaxEvents /\ events' = events + 1

Kinds == {"collector", "emitter"}

Receives(k) == k = "collector"

\* stats::reset clears the counters one store at a time, in this order.
Counters == <<"rx", "drop", "rate">>

Quiet == [at |-> "idle"]

\* A frame that is none of its transmitter's running count.
Stray == -1

None == [m \in Macs |-> 0]

Init ==
    /\ chip \in Chips
    /\ run = "idle" /\ kind = "emitter" /\ runs = 0 /\ zeroing = << >>
    /\ stats = [rx |-> 0, drop |-> 0, rate |-> 0]
    /\ lastRx = 0
    /\ armed = FALSE /\ detect = FALSE /\ forget = FALSE
    /\ tracker = << >> /\ changed = FALSE
    /\ filter = [peer |-> NoMac, min |-> 0, active |-> FALSE]
    /\ call = Quiet /\ events = 0
    /\ cap = Quiet
    /\ sent = None /\ mixed = {}
    /\ seen = None /\ missed = None /\ guessed = None /\ gap = 0

-----------------------------------------------------------------------------
\* The node task.

\* CSINode::run_inner begins: stats_begin_run comes first, and whatever an
\* earlier run left registered with the driver goes on capturing meanwhile.
run_inner(k) ==
    /\ run = "idle" /\ runs < MaxRuns
    /\ run' = "reset" /\ kind' = k /\ runs' = runs + 1 /\ zeroing' = Counters
    /\ UNCHANGED <<stats, lastRx, armed, detect, forget, tracker, changed,
                   filterVars, events, cap, airVars, gap>>

\* Mutant: the drop counter is not cleared.
ResetButDrops ==
    /\ run = "reset" /\ zeroing # << >>
    /\ stats' = IF Head(zeroing) = "drop" THEN stats
                ELSE [stats EXCEPT ![Head(zeroing)] = 0]
    /\ zeroing' = Tail(zeroing)
    /\ UNCHANGED <<run, kind, runs, lastRx, armed, detect, forget, tracker,
                   changed, filterVars, events, cap, airVars, gap>>

\* stats::reset: one store.
reset ==
    /\ run = "reset" /\ zeroing # << >>
    /\ stats' = [stats EXCEPT ![Head(zeroing)] = 0]
    /\ gap' = IF Head(zeroing) = "drop" THEN 0 ELSE gap
    /\ zeroing' = Tail(zeroing)
    /\ UNCHANGED <<run, kind, runs, lastRx, armed, detect, forget, tracker,
                   changed, filterVars, events, cap, airVars>>

\* stats_begin_run goes on once every counter is cleared.  The capture start that
\* it and run_process_csi_packet stamp is left out.
stats_begin_run ==
    /\ run = "reset" /\ zeroing = << >>
    /\ run' = "arm"
    /\ UNCHANGED <<kind, runs, zeroing, stats, lastRx, armed, detect, forget, tracker,
                   changed, filterVars, events, cap, airVars, gap>>

\* set_seq_drop_detection, then set_csi: a receiving role registers the CSI
\* callback.  Another role registers nothing and unregisters nothing: an earlier
\* registration goes if the role restarts the radio in another mode.
set_csi ==
    /\ run = "arm"
    /\ detect' = (kind # "emitter")
    /\ IF Receives(kind) THEN armed' = TRUE ELSE armed' \in {armed, FALSE}
    /\ run' = IF Receives(kind) THEN "enter" ELSE "work"
    /\ UNCHANGED <<kind, runs, zeroing, stats, lastRx, forget, tracker, changed,
                   filterVars, events, cap, airVars, gap>>

\* run_process_csi_packet up to its loop.  A timed sniffer run calls it a second
\* time when the collection is over.
EnterProcess ==
    /\ run \in {"enter", "trailing"}
    /\ lastRx' = stats.rx
    /\ run' = IF run = "enter" THEN "collect" ELSE "leave"
    /\ UNCHANGED <<kind, runs, zeroing, stats, armed, detect, forget, tracker, changed,
                   filterVars, events, cap, airVars, gap>>

\* The loop of run_process_csi_packet: CSI_OUTPUT_CHANGED was signalled.
OutputChanged ==
    /\ run = "collect" /\ changed
    /\ changed' = FALSE
    /\ lastRx' = stats.rx
    /\ forget' = TRUE
    /\ UNCHANGED <<run, kind, runs, zeroing, stats, armed, detect, tracker, filterVars,
                   events, cap, airVars, gap>>

\* The same loop after a second: the rate is what came since the last update,
\* by a subtraction that saturates.
RateTick ==
    /\ run = "collect"
    /\ stats' = [stats EXCEPT !.rate = IF stats.rx > lastRx THEN stats.rx - lastRx ELSE 0]
    /\ lastRx' = stats.rx
    /\ UNCHANGED <<run, kind, runs, zeroing, armed, detect, forget, tracker,
                   changed, filterVars, events, cap, airVars, gap>>

\* The stop ends the role; the callback stays registered with the driver.  A
\* timed sniffer run first enters run_process_csi_packet again.
StopRun ==
    /\ run \in {"collect", "work", "leave"}
    /\ \/ run' = "idle" /\ kind' = "emitter" /\ lastRx' = 0
       \/ run = "collect" /\ run' = "trailing" /\ UNCHANGED <<kind, lastRx>>
    /\ UNCHANGED <<runs, zeroing, stats, armed, detect, forget,
                   tracker, changed, filterVars, events, cap, airVars, gap>>

NodeTask ==
    \/ \E k \in Kinds : run_inner(k)
    \/ reset \/ stats_begin_run \/ set_csi
    \/ EnterProcess \/ OutputChanged \/ RateTick \/ StopRun

-----------------------------------------------------------------------------
\* User code.

set_csi_output_enabled ==
    /\ Happens
    /\ changed' = TRUE
    /\ UNCHANGED <<runVars, stats, armed, detect, forget, tracker, filterVars, cap,
                   airVars, gap>>

\* set_csi_peer_filter and set_csi_min_sig_mode store their word ...
set_csi_peer_filter(mac) ==
    /\ call.at = "idle" /\ Happens
    /\ filter' = [filter EXCEPT !.peer = mac]
    /\ call' = [at |-> "load"]
    /\ cap' = IF cap.at = "idle" THEN cap ELSE [cap EXCEPT !.settled = FALSE]
    /\ UNCHANGED <<runVars, stats, armed, detect, forget, tracker, changed, airVars, gap>>

set_csi_min_sig_mode(min) ==
    /\ call.at = "idle" /\ Happens
    /\ filter' = [filter EXCEPT !.min = min]
    /\ call' = [at |-> "load"]
    /\ cap' = IF cap.at = "idle" THEN cap ELSE [cap EXCEPT !.settled = FALSE]
    /\ UNCHANGED <<runVars, stats, armed, detect, forget, tracker, changed, airVars, gap>>

\* Mutant: only the source address is looked at.
PeerOnly(f) == f.peer # NoMac

\* ... and refresh_filter_active reads both words and stores whether either
\* filters.
Filtering(f) == f.peer # NoMac \/ f.min # 0

LoadFilter ==
    /\ call.at = "load"
    /\ call' = [at |-> "store", active |-> Filtering(filter)]
    /\ UNCHANGED <<runVars, stats, armed, detect, forget, tracker, changed, filter, events,
                   cap, airVars, gap>>

StoreActive ==
    /\ call.at = "store"
    /\ filter' = [filter EXCEPT !.active = call.active]
    /\ call' = Quiet
    /\ UNCHANGED <<runVars, stats, armed, detect, forget, tracker, changed, events, cap,
                   airVars, gap>>

refresh_filter_active == LoadFilter \/ StoreActive

User ==
    \/ set_csi_output_enabled
    \/ \E mac \in Macs \cup {NoMac} : set_csi_peer_filter(mac)
    \/ \E min \in {0, 1} : set_csi_min_sig_mode(min)
    \/ refresh_filter_active

-----------------------------------------------------------------------------
\* The channel.

\* The sequence number of a transmitter's nth frame.
Number(nth) == (SeqMod - 2 + nth) % SeqMod

\* What can be received of a transmitter: its last frame, sent again, or a later
\* one after frames that nobody here received.  Numbers are per transmitter and
\* per traffic class, and a frame sent again may come late: a frame that is none
\* of the running count has any number.
Receivable(m) ==
    {[nth |-> nth, seq |-> Number(nth)] : nth \in sent[m]..(sent[m] + 1 + LossCap)}
        \cup [nth : {Stray}, seq : Strays]

\* The frames up to the nth are sent, and missed until the tracker is shown them.
SendUpTo(m, nth) ==
    IF nth > sent[m]
    THEN /\ sent' = [sent EXCEPT ![m] = nth]
         /\ missed' = [missed EXCEPT ![m] = @ + nth - sent[m]]
    ELSE UNCHANGED <<sent, missed>>

\* The Wi-Fi task, a report at a time.

At(step) == cap.at = step

Goto(step) == cap' = [cap EXCEPT !.at = step]

\* capture_csi_info counts the report before anything else.  The raw callback or
\* a closed publish gate may end the capture at once.
capture_csi_info(m, sig, frame) ==
    /\ armed /\ At("idle")
    /\ Happens
    /\ SendUpTo(m, frame.nth)
    /\ \/ cap' = Quiet
       \/ cap' = [at |-> "active", mac |-> m, sig |-> sig, frame |-> frame,
                  settled |-> call.at = "idle"]
    /\ stats' = [stats EXCEPT !.rx = @ + 1]
    /\ UNCHANGED <<runVars, armed, detect, forget, tracker, changed, filterVars, mixed,
                   seen, guessed, gap>>

\* The radios of the newer chips report no signal mode, and the load of the least
\* one is not compiled for them.
HasSigMode == chip \notin {"esp32c5", "esp32c6"}

\* csi_passes_filter: three loads, each on its own.
LoadActive ==
    /\ At("active")
    /\ Goto(IF filter.active THEN "peer" ELSE "build")
    /\ UNCHANGED <<runVars, stats, armed, detect, forget, tracker, changed, filterVars,
                   events, airVars, gap>>

LoadPeer ==
    /\ At("peer")
    /\ Goto(IF filter.peer \in {NoMac, cap.mac} THEN "min" ELSE "filtered")
    /\ UNCHANGED <<runVars, stats, armed, detect, forget, tracker, changed, filterVars,
                   events, airVars, gap>>

LoadMin ==
    /\ At("min")
    /\ Goto(IF HasSigMode => cap.sig >= filter.min THEN "build" ELSE "filtered")
    /\ UNCHANGED <<runVars, stats, armed, detect, forget, tracker, changed, filterVars,
                   events, airVars, gap>>

csi_passes_filter == LoadActive \/ LoadPeer \/ LoadMin

CountDrop ==
    /\ stats' = [stats EXCEPT !.drop = @ + 1]
    /\ cap' = Quiet
    /\ UNCHANGED <<runVars, armed, detect, forget, tracker, changed, filterVars, events,
                   airVars, gap>>

\* A rejected report is counted as a drop.
Reject == At("filtered") /\ CountDrop

\* The sequence-gap estimate is not compiled for the esp32c5.
TracksGaps == detect /\ chip # "esp32c5"

\* A report longer than the packet holds is a drop too.
from_wifi_csi_info ==
    \/ At("build") /\ CountDrop
    \/ /\ At("build")
       /\ Goto(IF TracksGaps THEN "track" ELSE "deliver")
       /\ UNCHANGED <<runVars, stats, armed, detect, forget, tracker, changed, filterVars,
                      events, airVars, gap>>

\* Mutant: the distance itself is counted.
LostInclusive(last, now) ==
    LET diff == (now - last) % SeqMod
    IN  IF diff > 1 /\ diff - 1 < LossCap THEN diff ELSE 0

\* The frames a gap stands for: the distance in sequence numbers less one, and
\* nothing for a distance too long to be a gap.
Lost(last, now) ==
    LET diff == (now - last) % SeqMod
    IN  IF diff > 1 /\ diff - 1 < LossCap THEN diff - 1 ELSE 0

Known == IF forget THEN << >> ELSE tracker

\* LinearMap::insert fails on a new key when the map is full; the map is then
\* cleared and holds the new entry alone.
Remember(map, m, n) ==
    IF m \in DOMAIN map \/ Cardinality(DOMAIN map) < TrackCap
    THEN [k \in DOMAIN map \cup {m} |-> IF k = m THEN n ELSE map[k]]
    ELSE [k \in {m} |-> n]

\* What the estimate is held against: the frames it has been shown.
Show(m, nth) ==
    IF nth = Stray
    THEN mixed' = mixed \cup {m} /\ UNCHANGED <<seen, missed>>
    ELSE /\ seen' = [seen EXCEPT ![m] = nth]
         /\ missed' = [missed EXCEPT ![m] = IF nth = seen[m] THEN @ ELSE @ - 1]
         /\ UNCHANGED mixed

\* The sequence-gap estimate.
TrackSequence ==
    /\ At("track")
    /\ LET lost == IF cap.mac \in DOMAIN Known THEN Lost(Known[cap.mac], cap.frame.seq) ELSE 0
       IN  /\ stats' = [stats EXCEPT !.drop = @ + lost]
           /\ gap' = gap + lost
           /\ guessed' = [guessed EXCEPT ![cap.mac] = @ + lost]
    /\ tracker' = Remember(Known, cap.mac, cap.frame.seq)
    /\ forget' = FALSE
    /\ Show(cap.mac, cap.frame.nth)
    /\ Goto("deliver")
    /\ UNCHANGED <<runVars, armed, detect, changed, filterVars, events, sent>>

\* The report reaches its consumer, or the queue is full and it is a drop.
Deliver ==
    \/ /\ At("deliver") /\ cap' = Quiet
       /\ UNCHANGED <<runVars, stats, armed, detect, forget, tracker, changed, filterVars,
                      events, airVars, gap>>
    \/ At("deliver") /\ CountDrop

WifiTask ==
    \/ \E m \in Macs : \E sig \in {0, 1}, frame \in Receivable(m) :
          capture_csi_info(m, sig, frame)
    \/ csi_passes_filter \/ Reject \/ from_wifi_csi_info
    \/ TrackSequence \/ Deliver

Next ==
    /\ \/ NodeTask
       \/ User
       \/ WifiTask
    /\ UNCHANGED chip

Spec == Init /\ [][Next]_vars

-----------------------------------------------------------------------------
\* The variables keep their types.
Steps == {"idle", "active", "peer", "min", "filtered", "build", "track", "deliver"}

Captures == [at : Steps \ {"idle"}, mac : Macs, sig : {0, 1},
             frame : [nth : Nat \cup {Stray}, seq : 0..(SeqMod - 1)],
             settled : BOOLEAN]

TypeOK ==
    /\ chip \in Chips
    /\ run \in {"idle", "reset", "arm", "enter", "collect", "work", "trailing",
                "leave"}
    /\ kind \in Kinds /\ runs \in 0..MaxRuns
    /\ zeroing \in {Counters, <<"drop", "rate">>, <<"rate">>, << >>}
    /\ stats \in [rx : Nat, drop : Nat, rate : Nat]
    /\ lastRx \in Nat
    /\ {armed, detect, forget, changed} \subseteq BOOLEAN
    /\ DOMAIN tracker \subseteq Macs /\ Cardinality(DOMAIN tracker) <= TrackCap
    /\ \A m \in DOMAIN tracker : tracker[m] \in 0..(SeqMod - 1)
    /\ filter \in [peer : Macs \cup {NoMac}, min : {0, 1}, active : BOOLEAN]
    /\ call \in [at : {"idle", "load"}] \cup [at : {"store"}, active : BOOLEAN]
    /\ cap \in [at : {"idle"}] \cup Captures
    /\ events \in 0..MaxEvents /\ mixed \subseteq Macs
    /\ {sent, seen, missed, guessed} \subseteq [Macs -> Nat] /\ gap \in Nat

\* Every counter has been cleared since the run began.
Cleared == zeroing = << >>

\* A transmitter that keeps one running count, frames sent again at once
\* included, is never charged for more sequence gaps than the frames it sent that
\* the tracker did not see: whatever was missed, filtered or forgotten, over a
\* wrap of the numbers and the end of a run, and whatever the transmitters with
\* several counts push out of the tracker.  Of those, the estimate counts gaps
\* that nobody missed.
GapsWereMissed == \A m \in Macs \ mixed : guessed[m] <= missed[m]

\* Once a run has cleared the counters they are about the same reports: a report
\* is dropped at most once, save one caught half counted by the clearing, and the
\* rate is of reports that the total includes.
CountersAgree ==
    Cleared =>
        /\ stats.drop - gap <= stats.rx + 1
        /\ stats.rate <= stats.rx

\* A report captured while no filter call is under way is kept or rejected as the
\* filter says, of which a chip without signal modes keeps the source half alone.
Accepted ==
    /\ filter.peer \in {NoMac, cap.mac}
    /\ HasSigMode => cap.sig >= filter.min

SettledFilterDecides ==
    cap.at # "idle" /\ cap.settled =>
        /\ cap.at \in {"build", "track", "deliver"} => Accepted
        /\ cap.at = "filtered" => ~Accepted
==============================================================================
