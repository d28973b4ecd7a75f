------------------------------- MODULE ApFlood -------------------------------
(***************************************************************************)
(* The software access point, collector/ap.rs: its DHCP server, the        *)
(* registry of leases, and the ICMP flood of the leased stations with its  *)
(* two loops in collector/sta.rs, one destination per tick (round-robin)   *)
(* or all of them (sync-burst).  The lease table belongs to a run; the     *)
(* registry is a static that outlives it.                                  *)
(*                                                                         *)
(* All of it is one task, so the server handles a message only while the   *)
(* flood awaits something, and a pass of the flood is undivided.  A stop   *)
(* ends all of it at once here; NodeRun models how.                        *)
(*                                                                         *)
(* Left out: how long waits are (a pass finds any number of ticks due, up  *)
(* to the burst cap), and the rate reports.                                *)
(***************************************************************************)
EXTENDS Integers, Sequences, FiniteSets, Functions

CONSTANTS
    Stations,      \* MAC addresses
    NoAddr,        \* a station without a lease
    MaxClients,    \* MAX_DHCP_CLIENTS (8)
    LastHost,      \* the largest last octet (255)
    LeaseWait,     \* LEASE_WAIT_ATTEMPTS (120)
    CatchUp,       \* ICMP_FLOOD_CATCH_UP_BURST (16)
    Configs        \* the configurations of runs

\* The addresses share a /24: the last octet is enough.
Addrs == 0..LastHost

AllConfigs == [lease : Addrs, count : Nat, sync : BOOLEAN, dhcp : BOOLEAN, tx : BOOLEAN]

ASSUME ApAssumption ==
    /\ NoAddr \notin Addrs
    /\ MaxClients \in Nat \ {0}
    /\ LastHost \in Nat
    /\ LeaseWait \in Nat
    /\ CatchUp \in Nat \ {0}
    /\ Configs \subseteq AllConfigs

VARIABLES
    config,     \* the configuration of the run
    clients,    \* the lease table: the address of each station
    leases,     \* ACTIVE_LEASES, in the order of registration
    flood,      \* where ap_ping_lease is
    attempts,   \* how often it has waited for a lease
    dsts,       \* the destinations
    next,       \* dst_idx modulo their number, or burst_start
    since       \* history: in a sync-burst, the frames to each destination since
                \* another's last, by their places in dsts

vars == <<config, clients, leases, flood, attempts, dsts, next, since>>

NoLeases == [s \in Stations |-> NoAddr]

\* The history counts no further.
SinceBound == 3

Capped(n) == IF n < SinceBound THEN n ELSE SinceBound

Places == 0..(MaxClients - 1)

Afresh == [p \in Places |-> [q \in Places |-> 0]]

Awaits == {"idle", "settle", "gather", "single", "sleep"}

TypeOK ==
    /\ config \in Configs
    /\ clients \in [Stations -> Addrs \cup {NoAddr}]
    /\ leases \in Seq(Addrs) /\ Len(leases) <= MaxClients /\ IsInjective(leases)
    /\ flood \in {"off", "send", "report"} \cup Awaits
    /\ attempts \in 0..LeaseWait
    /\ dsts \in Seq(Addrs)
    /\ next \in Nat /\ (dsts # <<>> => next < Len(dsts))
    /\ since \in [Places -> [Places -> 0..SinceBound]]

Init ==
    /\ config \in Configs
    /\ clients = NoLeases
    /\ leases = <<>>
    /\ flood = "off"
    /\ attempts = 0
    /\ dsts = <<>>
    /\ next = 0
    /\ since = Afresh

-----------------------------------------------------------------------------
(***************************************************************************)
(* Runs.                                                                   *)
(***************************************************************************)
run_ap(c) ==
    /\ flood = "off"
    /\ config' = c
    /\ flood' = IF c.tx THEN "settle" ELSE "idle"
    /\ UNCHANGED <<clients, leases, attempts, dsts, next, since>>

Stop ==
    /\ flood \in Awaits
    /\ flood' = "off"
    /\ clients' = NoLeases
    /\ attempts' = 0
    /\ dsts' = <<>>
    /\ next' = 0
    /\ since' = Afresh
    /\ UNCHANGED <<config, leases>>

-----------------------------------------------------------------------------
(***************************************************************************)
(* The DHCP server.                                                        *)
(***************************************************************************)

\* The place i is cut to the pool, the last octet to an octet.
lease_ip_at(c, i) ==
    LET last == IF c.count = 0 THEN 0 ELSE c.count - 1
        addr == c.lease + (IF i < last THEN i ELSE last)
    IN IF addr < LastHost THEN addr ELSE LastHost

PoolSize(c) == IF c.count < MaxClients THEN c.count ELSE MaxClients

lease_pool(c) == [i \in 1..PoolSize(c) |-> lease_ip_at(c, i - 1)]

\* Mutated form: only the addresses after the first are tested.
TakenInPool(addr) == addr # config.lease /\ \E s \in Stations : clients[s] = addr

Taken(addr) == \E s \in Stations : clients[s] = addr

\* The first address of the pool that is free, while the table has room: a set of
\* one address or none.
FirstFree ==
    LET addr(i) == lease_ip_at(config, i)
        first(i) == ~Taken(addr(i)) /\ \A j \in 0..(i - 1) : Taken(addr(j))
        bound == {s \in Stations : clients[s] # NoAddr}
    IN IF Cardinality(bound) >= MaxClients THEN {}
       ELSE {addr(i) : i \in {j \in 0..(PoolSize(config) - 1) : first(j)}}

\* Mutated form: a station that comes back is a new one.
dhcp_assign_anew(s) == FirstFree

\* A station keeps the address it was offered.
dhcp_assign_ip(s) == IF clients[s] # NoAddr THEN {clients[s]} ELSE FirstFree

register(addr) ==
    IF addr \in Range(leases) \/ Len(leases) = MaxClients THEN leases
    ELSE Append(leases, addr)

\* A Discover or a Request of s is answered, unless the pool is exhausted; the
\* answer may get lost.
run_dhcp_server(s) ==
    /\ flood \in Awaits
    /\ config.dhcp
    /\ \E addr \in dhcp_assign_ip(s) :
        /\ clients' = [clients EXCEPT ![s] = addr]
        /\ leases' = register(addr)
    /\ UNCHANGED <<config, flood, attempts, dsts, next, since>>

-----------------------------------------------------------------------------
(***************************************************************************)
(* The flood: ap_ping_lease, and the loops run_icmp_flood_multi and        *)
(* run_icmp_flood_burst.                                                   *)
(***************************************************************************)

\* With a single lease there is nothing to gather or to refresh.
Settled ==
    /\ flood = "settle"
    /\ IF ~config.sync /\ config.count <= 1
       THEN flood' = "single" /\ dsts' = <<config.lease>>
       ELSE flood' = "gather" /\ dsts' = <<>>
    /\ UNCHANGED <<config, clients, leases, attempts, next, since>>

WaitForLease ==
    /\ flood = "gather"
    /\ leases = <<>>
    /\ attempts < LeaseWait
    /\ attempts' = attempts + 1
    /\ UNCHANGED <<config, clients, leases, flood, dsts, next, since>>

Gathered ==
    /\ flood = "gather"
    /\ leases # <<>> \/ attempts = LeaseWait
    /\ dsts' = IF leases # <<>> THEN leases ELSE lease_pool(config)
    /\ flood' = IF dsts' = <<>> THEN "idle" ELSE "send"
    /\ UNCHANGED <<config, clients, leases, attempts, next, since>>

Pass ==
    /\ flood = "send"
    /\ flood' = "report"
    /\ UNCHANGED <<config, clients, leases, attempts, dsts>>

\* Round-robin: k ticks are due and find room; all k frames go to one destination,
\* and the next pass goes on k places further.
run_icmp_flood_multi ==
    /\ Pass
    /\ ~config.sync
    /\ \E k \in 0..CatchUp : next' = (next + k) % Len(dsts)
    /\ UNCHANGED since

\* The distance of a place from where the burst begins.
Offset(p) == (p - next + Len(dsts)) % Len(dsts)

\* One frame to each of the i destinations from next on.
SentBurst(i) ==
    LET sent == {p \in 0..(Len(dsts) - 1) : Offset(p) < i}
    IN [p \in Places |-> [q \in Places |->
         LET before == IF p \in sent THEN 0 ELSE since[p][q]
         IN IF p < Len(dsts) /\ q \in sent /\ (p \in sent => Offset(p) < Offset(q))
            THEN Capped(before + 1) ELSE before]]

\* Mutated form: every burst begins with the first destination.
BurstFromFirst ==
    /\ Pass
    /\ config.sync
    /\ \E i \in 0..Len(dsts) : next' = 0 /\ since' = SentBurst(i)

\* Sync-burst: a tick sends to all destinations in turn, or the buffer is full after
\* i frames and the next burst begins with the first that missed out.
run_icmp_flood_burst ==
    /\ Pass
    /\ config.sync
    /\ \E i \in 0..Len(dsts) :
        /\ next' = IF i < Len(dsts) THEN (next + i) % Len(dsts) ELSE 0
        /\ since' = SentBurst(i)

\* Mutated form: the targets are those of the beginning.
RefreshNever ==
    /\ flood = "report"
    /\ flood' = "sleep"
    /\ UNCHANGED <<config, clients, leases, attempts, dsts, next, since>>

\* Once per interval: the registry, unless it is empty, replaces the targets.
Refresh ==
    /\ flood = "report"
    /\ flood' = "sleep"
    /\ IF leases # <<>> /\ leases # dsts
       THEN dsts' = leases /\ next' = 0 /\ since' = Afresh
       ELSE UNCHANGED <<dsts, next, since>>
    /\ UNCHANGED <<config, clients, leases, attempts>>

NotYet ==
    /\ flood = "report"
    /\ flood' = "sleep"
    /\ UNCHANGED <<config, clients, leases, attempts, dsts, next, since>>

Slept ==
    /\ flood = "sleep"
    /\ flood' = "send"
    /\ UNCHANGED <<config, clients, leases, attempts, dsts, next, since>>

ap_ping_lease ==
    \/ Settled \/ WaitForLease \/ Gathered
    \/ run_icmp_flood_multi \/ run_icmp_flood_burst
    \/ Refresh \/ NotYet \/ Slept

Next ==
    \/ \E c \in Configs : run_ap(c)
    \/ Stop
    \/ \E s \in Stations : run_dhcp_server(s)
    \/ ap_ping_lease

Spec == Init /\ [][Next]_vars

\* The flood's timers fire, and the report interval passes now and then.
Fairness == WF_vars(ap_ping_lease) /\ SF_vars(Refresh)

FairSpec == Spec /\ Fairness

-----------------------------------------------------------------------------
(***************************************************************************)
(* Properties.                                                             *)
(***************************************************************************)

\* No two stations of a run hold one address, even when the pool saturates at
\* the last host and repeats it (dhcp_assign_ip).
NoSharedAddress ==
    \A s, t \in Stations : clients[s] = clients[t] /\ clients[s] # NoAddr => s = t

\* Offer, acknowledgement and renewal say the same: the address of a station
\* does not change during a run.
LeaseIsStable ==
    [][flood # "off" /\ flood' # "off"
        => \A s \in Stations : clients[s] # NoAddr => clients'[s] = clients[s]]_vars

\* "Additional stations must be picked up via refresh_targets without restarting
\* this task" (sta.rs:641-643): a leased address that the registry had room for
\* becomes a destination of the flood.
Leased(s) == config.tx /\ clients[s] \in Range(leases)

LeasedIsFlooded ==
    \A s \in Stations : Leased(s) ~> flood = "off" \/ clients[s] \in Range(dsts)

\* "So coverage stays fair" (sta.rs:864-868): however often the buffer fills, no
\* receiver of the sync-burst is sent a third frame while another waits.
NoReceiverLeftBehind == \A p, q \in Places : since[p][q] <= 2
============================================================================
