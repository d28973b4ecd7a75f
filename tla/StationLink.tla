------------------------------ MODULE StationLink ------------------------------
\* The station collector (collector/sta.rs) inside the runs of RadioSetup:
\* run_sta_connect with its retries, sta_connection, run_dhcp_client and the
\* flood of sta_network_ops with its pacing, over a link that comes and goes.
\* How a stop reaches the futures is NodeRun's business; here it ends them all.
EXTENDS RadioSetup

CONSTANTS
    Gateways,   \* addresses a lease may name
    NoGateway,  \* no lease, and the empty signal
    Burst,      \* ICMP_FLOOD_CATCH_UP_BURST (16)
    MaxDue      \* bound: a longer stall is like one of this many intervals

ASSUME LinkAssumption ==
    /\ NoGateway \notin Gateways
    /\ Burst \in Nat \ {0} /\ MaxDue \in Nat /\ MaxDue > 2 * Burst + 2

VARIABLES
    conn,       \* run_sta_connect, then sta_connection
    net,        \* link, attempt to associate, lease of the network stack
    dhcp,       \* run_dhcp_client
    info,       \* DHCP_CLIENT_INFO, which no run clears
    flood,      \* sta_network_ops: what it floods, and its pacing
    level       \* history: frames sent less intervals passed, not below zero

linkVars == <<conn, net, dhcp, info, flood, level>>
vars == <<radioVars, linkVars>>

\* lease is lost, or replaced, behind the back of a DHCP client that watches only
\* the link: net.moved (history).
NoNet == [link |-> "down", trying |-> FALSE, lease |-> NoGateway, moved |-> FALSE]

NoFlood == [at |-> "off", target |-> NoGateway, due |-> 0, budget |-> 0]

LinkInit ==
    /\ conn = "off" /\ net = NoNet /\ dhcp = "off"
    /\ info = NoGateway /\ flood = NoFlood /\ level = 0

Init == RadioInit /\ LinkInit

InStation == step = "loop" /\ role.kind = "sta"

-----------------------------------------------------------------------------
\* The radio.

LinkDown(n) == [n EXCEPT !.link = "down", !.lease = NoGateway,
                         !.moved = @ \/ (dhcp = "watch" /\ n.lease # NoGateway)]

\* The association an attempt has asked for succeeds after the attempt timed out.
AssociateLate ==
    /\ net.trying /\ net.link = "down" /\ conn \in {"cleanup", "cycle", "backoff"}
    /\ net' = [net EXCEPT !.link = "up", !.trying = FALSE]
    /\ radio' \in MayLoseCsi(radio)
    /\ UNCHANGED <<chip, step, role, joined, conn, dhcp, info, flood, level>>

LinkLost ==
    /\ net.link = "up"
    /\ net' = LinkDown(net)
    /\ UNCHANGED <<radioVars, conn, dhcp, info, flood, level>>

\* The network stack gets a lease, or one expires and is not renewed.
Lease(g) ==
    /\ dhcp # "off" /\ net.link = "up" /\ net.lease = NoGateway
    /\ net' = [net EXCEPT !.lease = g]
    /\ UNCHANGED <<radioVars, conn, dhcp, info, flood, level>>

LeaseExpires ==
    /\ net.lease # NoGateway
    /\ net' = [net EXCEPT !.lease = NoGateway, !.moved = @ \/ dhcp = "watch"]
    /\ UNCHANGED <<radioVars, conn, dhcp, info, flood, level>>

-----------------------------------------------------------------------------
\* run_sta_connect and sta_connection.

run_sta_connect ==
    /\ InStation /\ conn = "off"
    /\ conn' = "settle"
    /\ UNCHANGED <<radioVars, net, dhcp, info, flood, level>>

\* connect_async, which the driver answers, or, after a reset, never does.
Connect(from, to) ==
    /\ conn = from /\ conn' = to
    /\ net' = [net EXCEPT !.trying = net.link = "down"]
    /\ UNCHANGED <<radioVars, dhcp, info, flood, level>>

ConnectAndHang ==
    /\ conn = "settle" /\ conn' = "connect"
    /\ net' = [net EXCEPT !.trying = FALSE]
    /\ UNCHANGED <<radioVars, dhcp, info, flood, level>>

\* The association succeeds, or had done so late: CSI is registered again, and
\* the first time the futures of the station are joined.
Associate ==
    /\ conn \in {"connect", "reconnect"} /\ (net.trying \/ net.link = "up")
    /\ conn' = "up"
    /\ net' = [net EXCEPT !.link = "up", !.trying = FALSE]
    /\ radio' \in IF role.rx THEN {SetCsi(radio)} ELSE MayLoseCsi(radio)
    /\ IF conn = "connect"
       THEN /\ dhcp' = "link"
            /\ flood' = IF role.tx THEN [flood EXCEPT !.at = "info"] ELSE flood
       ELSE UNCHANGED <<dhcp, flood>>
    /\ UNCHANGED <<chip, step, role, joined, info, level>>

ConnectFails ==
    /\ conn \in {"connect", "reconnect"} /\ net.trying
    /\ conn' = IF conn = "connect" THEN "cleanup" ELSE "retry"
    /\ net' = [net EXCEPT !.trying = FALSE]
    /\ UNCHANGED <<radioVars, dhcp, info, flood, level>>

\* Mutant: only an answer ends the attempt.
TimeOutNever ==
    /\ conn = "connect" /\ net.trying /\ net.link = "down"
    /\ conn' = "cleanup"
    /\ UNCHANGED <<radioVars, net, dhcp, info, flood, level>>

\* with_timeout gives an attempt of the first association ten seconds; the
\* driver may still be at it.
ConnectTimesOut ==
    /\ conn = "connect" /\ net.link = "down"
    /\ conn' = "cleanup"
    /\ UNCHANGED <<radioVars, net, dhcp, info, flood, level>>

\* disconnect_async ends an association there is, and CSI is registered without
\* a look at rx_enabled.
disconnect_async ==
    /\ conn = "cleanup" /\ conn' = "cycle"
    /\ net' = IF net.link = "up" THEN LinkDown(net) ELSE net
    /\ radio' = SetCsi(radio)
    /\ UNCHANGED <<chip, step, role, joined, dhcp, info, flood, level>>

Cycle ==
    /\ conn = "cycle" /\ conn' = "backoff"
    /\ UNCHANGED <<radioVars, net, dhcp, info, flood, level>>

\* wait_for_disconnect_async returns; an attempt to reconnect has no timeout.
Attempts ==
    \/ Connect("settle", "connect") \/ ConnectAndHang
    \/ Connect("backoff", "connect")
    \/ net.link = "down" /\ Connect("up", "reconnect")
    \/ Connect("retry", "reconnect")

Connection ==
    \/ run_sta_connect \/ Attempts \/ Associate \/ ConnectFails \/ ConnectTimesOut
    \/ disconnect_async \/ Cycle

-----------------------------------------------------------------------------
\* run_dhcp_client.

LinkSeen ==
    /\ dhcp = "link" /\ net.link = "up"
    /\ dhcp' = "config"
    /\ UNCHANGED <<radioVars, conn, net, info, flood, level>>

\* Mutant: a lease is published only to a flood that waits for its first.
PublishOnce ==
    /\ dhcp = "config" /\ net.lease # NoGateway
    /\ dhcp' = "watch"
    /\ net' = [net EXCEPT !.moved = FALSE]
    /\ info' = IF flood.at = "info" THEN net.lease ELSE info
    /\ UNCHANGED <<radioVars, conn, flood, level>>

\* The new lease replaces what the signal held.
Publish ==
    /\ dhcp = "config" /\ net.lease # NoGateway
    /\ dhcp' = "watch"
    /\ net' = [net EXCEPT !.moved = FALSE]
    /\ info' = net.lease
    /\ UNCHANGED <<radioVars, conn, flood, level>>

\* Every 250 ms it looks at the link, and only at the link.
LinkMissed ==
    /\ dhcp = "watch" /\ net.link = "down"
    /\ dhcp' = "link"
    /\ UNCHANGED <<radioVars, conn, net, info, flood, level>>

run_dhcp_client == LinkSeen \/ Publish \/ LinkMissed

-----------------------------------------------------------------------------
\* sta_network_ops and run_icmp_flood.

Least(a, b) == IF a < b THEN a ELSE b

\* The signal is taken: the flood begins, or turns to a new gateway.
TakeInfo ==
    /\ flood.at \in {"info", "wait"} /\ info # NoGateway
    /\ info' = NoGateway
    /\ flood' = [flood EXCEPT !.target = info, !.at = "wait"]
    /\ UNCHANGED <<radioVars, conn, net, dhcp, level>>

\* An interval of the wanted rate passes.
Tick ==
    /\ flood.at \in {"wait", "pass"}
    /\ flood' = [flood EXCEPT !.due = Least(flood.due + 1, MaxDue)]
    /\ level' = IF level = 0 THEN 0 ELSE level - 1
    /\ UNCHANGED <<radioVars, conn, net, dhcp, info>>

\* Mutant: a stall is repaid in full.
PassUnclamped ==
    /\ flood.at = "wait"
    /\ flood' = [flood EXCEPT !.at = "pass", !.budget = Burst]
    /\ UNCHANGED <<radioVars, conn, net, dhcp, info, level>>

\* A pass of the loop: debt of more than Burst intervals is forgiven.
PassBegins ==
    /\ flood.at = "wait"
    /\ flood' = [flood EXCEPT !.at = "pass", !.budget = Burst,
                              !.due = Least(flood.due, Burst + 1)]
    /\ UNCHANGED <<radioVars, conn, net, dhcp, info, level>>

\* The send buffer takes a frame.
SendFrame ==
    /\ flood.at = "pass" /\ flood.due > 0 /\ flood.budget > 0
    /\ flood' = [flood EXCEPT !.due = @ - 1, !.budget = @ - 1]
    /\ level' = level + 1
    /\ UNCHANGED <<radioVars, conn, net, dhcp, info>>

\* Nothing is due, the budget is spent or the buffer is full: the loop waits.
PassEnds ==
    /\ flood.at = "pass"
    /\ flood' = [flood EXCEPT !.at = "wait", !.budget = 0]
    /\ UNCHANGED <<radioVars, conn, net, dhcp, info, level>>

run_icmp_flood == TakeInfo \/ Tick \/ PassBegins \/ SendFrame \/ PassEnds

-----------------------------------------------------------------------------
\* A stop; the clean-up after a failed attempt does not look at it.  The station
\* stays associated, and the network stack goes with its lease.
Stop ==
    /\ StopRole
    /\ conn \notin {"cleanup", "cycle"}
    /\ conn' = "off" /\ dhcp' = "off" /\ flood' = NoFlood /\ level' = 0
    /\ net' = [NoNet EXCEPT !.link = net.link]
    /\ UNCHANGED info

\* A step of run_inner; a restart in another mode ends the association.
Run ==
    /\ RunStep
    /\ net' = IF radio'.mode = radio.mode THEN net ELSE NoNet
    /\ UNCHANGED <<conn, dhcp, info, flood, level>>

Next ==
    \/ Run
    \/ Connection
    \/ AssociateLate \/ LinkLost \/ LeaseExpires
    \/ \E g \in Gateways : Lease(g)
    \/ run_dhcp_client
    \/ run_icmp_flood
    \/ Stop

\* The node task runs and timers fire; an access point that is asked again and
\* again answers.
Fairness ==
    /\ WF_vars(run_sta_connect) /\ WF_vars(disconnect_async) /\ WF_vars(Cycle)
    /\ WF_vars(Attempts) /\ WF_vars(ConnectTimesOut)
    /\ SF_vars(Associate)

Spec == Init /\ [][Next]_vars

FairSpec == Spec /\ Fairness

-----------------------------------------------------------------------------
\* The variables keep their types.
Places == {"off", "settle", "connect", "cleanup", "cycle", "backoff", "up",
           "reconnect", "retry"}

TypeOK ==
    /\ chip \in Chips /\ role \in Roles /\ joined \in BOOLEAN
    /\ step \in {"idle", "configure", "arm", "enter", "suspend", "resume", "settle",
                 "loop", "leave"}
    /\ radio \in [mode : {"none", "sta", "ap"}, armed : BOOLEAN,
                  receiver : {"heap", "pool", "none"},
                  forced : SUBSET {"interface", "peer"}]
    /\ conn \in Places
    /\ net \in [link : {"down", "up"}, trying : BOOLEAN,
                lease : Gateways \cup {NoGateway}, moved : BOOLEAN]
    /\ dhcp \in {"off", "link", "config", "watch"}
    /\ info \in Gateways \cup {NoGateway}
    /\ flood \in [at : {"off", "info", "wait", "pass"},
                  target : Gateways \cup {NoGateway}, due : 0..MaxDue, budget : 0..Burst]
    /\ level \in Nat

\* While a collecting role is at work, and its station is associated, the CSI
\* callback is registered, whatever restarts and associations cost it.
Capturing ==
    /\ step = "loop"
    /\ \/ role.kind \in {"sniffer", "espnow"}
       \/ role.kind = "ap" /\ ~joined
       \/ role.kind = "sta" /\ conn = "up" /\ net.link = "up"

CsiArmedWhileCollecting == Capturing /\ role.rx => radio.armed

\* The flood goes to the gateway of the lease, unless a new lease is still in the
\* signal, or the lease changed between two looks at the link.
TargetFollowsLease ==
    flood.at \in {"wait", "pass"} /\ dhcp = "watch" /\ ~net.moved /\ info = NoGateway =>
        flood.target = net.lease

\* However long the flood was held up, it is never more than two bursts and a
\* frame ahead of its rate.
StallsAreForgiven == level <= 2 * Burst + 1

\* A station that is told to run gets associated, and so again after it lost the
\* association, though attempts fail, hang or succeed too late.
StationComesBack == InStation /\ conn # "up" ~> conn = "up" \/ ~InStation
==============================================================================
