------------------------------ MODULE EspNowFast ------------------------------
\* The asymmetric ESP-NOW mode: run_esp_now_fast_collector
\* (central/esp_now_fast.rs) and run_esp_now_fast_source
\* (peripheral/esp_now_fast.rs) on nodes that run either, one run after another,
\* over a medium that loses frames.  A receive pool outlives the runs.
EXTENDS Integers, Sequences, FiniteSets

CONSTANTS
    Nodes,          \* stations with this firmware
    NoNode,         \* no address
    PoolCap,        \* frames the receive pool holds (16)
    HealthPeriod    \* PEER_HEALTHCHECK_PERIOD (256)

ASSUME FastAssumption ==
    /\ NoNode \notin Nodes
    /\ PoolCap \in 1..65                     \* one wake-up drains it
    /\ HealthPeriod \in Nat \ {0}

VARIABLES
    node,       \* what each node runs and where it is
    pool,       \* its receive pool
    greeted     \* history: who has sent a hello to whom

vars == <<node, pool, greeted>>

\* A frame is told by its magic: that of a central opens the collector's beacons
\* and the source's flood alike, that of a peripheral the hello; pairing by hand
\* uses none.
Frames == [magic : {"central", "peripheral", "none"}, src : Nodes]

Off == [role |-> "off", at |-> "off", tx |-> FALSE, peer |-> NoNode,
        partner |-> NoNode, known |-> FALSE, health |-> 0]

Init ==
    /\ node = [n \in Nodes |-> Off]
    /\ pool = [n \in Nodes |-> << >>]
    /\ greeted = {}

-----------------------------------------------------------------------------
\* Mutant: a full pool takes a frame.
ArriveAlways(frame, receivers) ==
    pool' = [n \in Nodes |-> IF n \in receivers THEN Append(pool[n], frame) ELSE pool[n]]

\* A frame reaches whom it reaches, if its pool has room.
Arrive(frame, receivers) ==
    pool' = [n \in Nodes |-> IF n \in receivers /\ Len(pool[n]) < PoolCap
                             THEN Append(pool[n], frame)
                             ELSE pool[n]]

\* serialize_with_magic: only automatic pairing sends the magic.
Magic(n, magic) == IF node[n].peer = NoNode THEN magic ELSE "none"

Frame(n, magic) == [magic |-> Magic(n, magic), src |-> n]

At(n, role, at) == node[n].role = role /\ node[n].at = at

Goto(n, at) == node' = [node EXCEPT ![n].at = at]

-----------------------------------------------------------------------------
\* The collector.

\* Pairing by hand settles it from the start.
run_esp_now_fast_collector(n, peer, tx) ==
    /\ node[n].role = "off"
    /\ node' = [node EXCEPT ![n] =
           [Off EXCEPT !.role = "collector", !.tx = tx, !.peer = peer, !.partner = peer,
                       !.at = IF peer = NoNode THEN "beacon" ELSE "settled"]]
    /\ UNCHANGED <<pool, greeted>>

\* The beacon, if it may transmit, is a broadcast.
Beacon(n, receivers) ==
    /\ At(n, "collector", "beacon")
    /\ Goto(n, "listen")
    /\ IF node[n].tx THEN Arrive(Frame(n, "central"), receivers) ELSE UNCHANGED pool
    /\ UNCHANGED greeted

BeaconDue(n) ==
    /\ At(n, "collector", "listen")
    /\ Goto(n, "beacon")
    /\ UNCHANGED <<pool, greeted>>

\* Mutant: the magic is not looked at.
ListenToAny(n) ==
    /\ At(n, "collector", "listen") /\ pool[n] # << >>
    /\ node' = [node EXCEPT ![n].at = "settled", ![n].partner = Head(pool[n]).src]
    /\ pool' = [pool EXCEPT ![n] = Tail(@)]
    /\ UNCHANGED greeted

\* A frame with the magic of a peripheral tells it its source.
Listen(n) ==
    /\ At(n, "collector", "listen") /\ pool[n] # << >>
    /\ node' = IF Head(pool[n]).magic = "peripheral"
               THEN [node EXCEPT ![n].at = "settled", ![n].partner = Head(pool[n]).src]
               ELSE node
    /\ pool' = [pool EXCEPT ![n] = Tail(@)]
    /\ UNCHANGED greeted

\* Once settled it only drains the pool.
Drain(n) ==
    /\ At(n, "collector", "settled") /\ pool[n] # << >>
    /\ pool' = [pool EXCEPT ![n] = << >>]
    /\ UNCHANGED <<node, greeted>>

Collector(n) ==
    \/ \E receivers \in SUBSET (Nodes \ {n}) : Beacon(n, receivers)
    \/ BeaconDue(n) \/ Listen(n) \/ Drain(n)

-----------------------------------------------------------------------------
\* The source.

\* Pairing by hand leaves nothing to discover.
run_esp_now_fast_source(n, peer) ==
    /\ node[n].role = "off"
    /\ node' = [node EXCEPT ![n] =
           [Off EXCEPT !.role = "source", !.peer = peer, !.partner = peer,
                       !.at = IF peer = NoNode THEN "discover" ELSE "lock"]]
    /\ UNCHANGED <<pool, greeted>>

\* Mutant: a frame that is no beacon stays at the head of the pool.
DiscoverFirst(n) ==
    /\ At(n, "source", "discover") /\ pool[n] # << >>
    /\ Head(pool[n]).magic = "central"
    /\ node' = [node EXCEPT ![n].at = "lock", ![n].partner = Head(pool[n]).src]
    /\ pool' = [pool EXCEPT ![n] = Tail(@)]
    /\ UNCHANGED greeted

\* Any frame with the magic of a central will do, whoever sent it.
Discover(n) ==
    /\ At(n, "source", "discover") /\ pool[n] # << >>
    /\ node' = IF Head(pool[n]).magic = "central"
               THEN [node EXCEPT ![n].at = "lock", ![n].partner = Head(pool[n]).src]
               ELSE node
    /\ pool' = [pool EXCEPT ![n] = Tail(@)]
    /\ UNCHANGED greeted

\* The collector becomes a peer, unless the table is full.
add_collector_peer(n) ==
    /\ At(n, "source", "lock")
    /\ \E known \in BOOLEAN :
           node' = [node EXCEPT ![n].known = known,
                                ![n].at = IF node[n].peer = NoNode THEN "hello" ELSE "flood"]
    /\ UNCHANGED <<pool, greeted>>

\* One hello; whether it was sent, let alone heard, is not looked at.
Hello(n, receivers) ==
    /\ At(n, "source", "hello")
    /\ receivers \subseteq (IF node[n].known THEN {node[n].partner} ELSE {})
    /\ Arrive([magic |-> "peripheral", src |-> n], receivers)
    /\ greeted' = greeted \cup {<<n, node[n].partner>>}
    /\ Goto(n, "flood")

NextHealth(n) == (node[n].health + 1) % HealthPeriod

\* Mutant: the peer is looked for before the flood and never again.
FloodOn(n, added, receivers) ==
    /\ At(n, "source", "flood")
    /\ receivers \subseteq (IF node[n].known THEN {node[n].partner} ELSE {})
    /\ Arrive(Frame(n, "central"), receivers)
    /\ \E at \in {"flood", "wait"} :
           node' = [node EXCEPT ![n].health = NextHealth(n), ![n].at = at]
    /\ UNCHANGED greeted

\* A pass of the flood.  Every HealthPeriod passes a peer that the driver has lost
\* is added again.  A send to an unknown peer fails at once; any other may wait,
\* for buffers or for the rate.
Flood(n, added, receivers) ==
    LET known == node[n].known \/ (NextHealth(n) = 0 /\ added)
    IN  /\ At(n, "source", "flood")
        /\ receivers \subseteq (IF known THEN {node[n].partner} ELSE {})
        /\ Arrive(Frame(n, "central"), receivers)
        /\ \E at \in {"flood", "wait"} :
               node' = [node EXCEPT ![n].health = NextHealth(n), ![n].known = known,
                                    ![n].at = at]
        /\ UNCHANGED greeted

Waited(n) ==
    /\ At(n, "source", "wait")
    /\ Goto(n, "flood")
    /\ UNCHANGED <<pool, greeted>>

\* The driver's table loses a peer.
Forget(n) ==
    /\ node[n].known
    /\ node' = [node EXCEPT ![n].known = FALSE]
    /\ UNCHANGED <<pool, greeted>>

Source(n) ==
    \/ Discover(n) \/ add_collector_peer(n)
    \/ \E receivers \in SUBSET {node[n].partner} :
           Hello(n, receivers) \/ \E added \in BOOLEAN : Flood(n, added, receivers)
    \/ Waited(n)

-----------------------------------------------------------------------------
\* A stop ends the run and leaves the pool.
Stop(n) ==
    /\ node[n].role # "off"
    /\ node' = [node EXCEPT ![n] = Off]
    /\ UNCHANGED <<pool, greeted>>

Start(n) ==
    \E peer \in (Nodes \ {n}) \cup {NoNode} :
        \/ \E tx \in BOOLEAN : run_esp_now_fast_collector(n, peer, tx)
        \/ run_esp_now_fast_source(n, peer)

Next == \E n \in Nodes : Start(n) \/ Collector(n) \/ Source(n) \/ Forget(n) \/ Stop(n)

\* The loops run and timers fire.  A beacon that is sent again and again is heard
\* at last, a driver asked again and again for a peer takes it.
Fairness == \A n \in Nodes :
    /\ WF_vars(BeaconDue(n)) /\ WF_vars(Source(n))
    /\ SF_vars(Beacon(n, Nodes \ {n}))
    /\ SF_vars(Flood(n, TRUE, {}) /\ NextHealth(n) = 0)

\* So is a flood, and what reaches a collector's pool is read.
Heard == \A n \in Nodes :
    /\ SF_vars(Listen(n)) /\ WF_vars(Drain(n))
    /\ SF_vars(Flood(n, TRUE, {node[n].partner}))

Spec == Init /\ [][Next]_vars

FairSpec == Spec /\ Fairness

HeardSpec == FairSpec /\ Heard

-----------------------------------------------------------------------------
\* The variables keep their types.
Places == {"off", "beacon", "listen", "settled", "discover", "lock", "hello", "flood",
           "wait"}

TypeOK ==
    /\ node \in [Nodes -> [role : {"off", "collector", "source"}, at : Places,
                           tx : BOOLEAN, peer : Nodes \cup {NoNode},
                           partner : Nodes \cup {NoNode}, known : BOOLEAN,
                           health : 0..(HealthPeriod - 1)]]
    /\ pool \in [Nodes -> Seq(Frames)] /\ \A n \in Nodes : Len(pool[n]) <= PoolCap
    /\ greeted \subseteq Nodes \X Nodes

Automatic(n) == node[n].peer = NoNode

\* A collector that found its source by itself was greeted by it: no beacon of
\* another collector and no flood, in the pool from whichever run, settles it.
SettledWasGreeted ==
    \A n \in Nodes :
        At(n, "collector", "settled") /\ Automatic(n) => <<node[n].partner, n>> \in greeted

Beaconing(n) == node[n].role = "collector" /\ node[n].at \in {"beacon", "listen"}

Flooding(n) == node[n].at \in {"flood", "wait"}

\* A source that listens locks onto a node, while a collector goes on beaconing,
\* though beacons are lost and its pool holds old frames.
SourceDiscovers ==
    \A s, c \in Nodes :
        s # c /\ At(s, "source", "discover") /\ Beaconing(c) /\ node[c].tx
            ~> ~At(s, "source", "discover") \/ ~Beaconing(c)

\* A source whose peer the driver has lost sends to it again at last.
FloodRecovers ==
    \A n \in Nodes : Flooding(n) /\ ~node[n].known ~> node[n].known \/ ~Flooding(n)

\* What the source says of its hello: a collector it floods stops beaconing.
FloodsBeaconing(s, c) ==
    Flooding(s) /\ Automatic(s) /\ node[s].partner = c /\ Beaconing(c) /\ Automatic(c)

HelloSettles ==
    \A s, c \in Nodes : FloodsBeaconing(s, c) ~> ~FloodsBeaconing(s, c)
==============================================================================
