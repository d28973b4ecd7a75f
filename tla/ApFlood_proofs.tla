--------------------------- MODULE ApFlood_proofs ----------------------------
(***************************************************************************)
(* Theorems about ApFlood, for any stations, pools and table size.         *)
(***************************************************************************)
EXTENDS ApFlood, SequenceTheorems, TLAPS

Flooding == {"send", "report", "sleep"}

\* The flood loops have a destination, and nobody else points at one.
FloodInv ==
    /\ flood \in Flooding => dsts # <<>>
    /\ flood \notin Flooding => next = 0

Inv == TypeOK /\ FloodInv

LEMMA LeaseType ==
    ASSUME NEW c \in Configs, NEW i \in Nat
    PROVE  lease_ip_at(c, i) \in Addrs
BY ApAssumption DEF lease_ip_at, AllConfigs, Addrs

LEMMA PoolType ==
    ASSUME NEW c \in Configs
    PROVE  lease_pool(c) \in Seq(Addrs)
<1>1. PoolSize(c) \in Nat
  BY ApAssumption DEF PoolSize, AllConfigs
<1>2. \A i \in 1..PoolSize(c) : i - 1 \in Nat
  BY <1>1
<1>3. \A i \in 1..PoolSize(c) : lease_ip_at(c, i - 1) \in Addrs
  BY <1>2, LeaseType
<1> QED
  BY <1>1, <1>3, IsASeq DEF lease_pool

\* What the server assigns is an address of the pool that nobody else holds.
LEMMA Assigned ==
    ASSUME TypeOK, NEW s \in Stations, NEW addr \in dhcp_assign_ip(s)
    PROVE  /\ addr \in Addrs
           /\ clients[s] # NoAddr => addr = clients[s]
           /\ clients[s] = NoAddr => ~Taken(addr)
<1>1. CASE clients[s] # NoAddr
  BY <1>1 DEF dhcp_assign_ip, TypeOK
<1>2. CASE clients[s] = NoAddr
  <2>1. addr \in FirstFree
    BY <1>2 DEF dhcp_assign_ip
  <2>2. PICK i \in 0..(PoolSize(config) - 1) :
          addr = lease_ip_at(config, i) /\ ~Taken(lease_ip_at(config, i))
    BY <2>1 DEF FirstFree
  <2>3. i \in Nat /\ config \in Configs
    BY DEF TypeOK
  <2> QED
    BY <1>2, <2>2, <2>3, LeaseType
<1> QED
  BY <1>1, <1>2

\* The registry keeps its type: it is bounded and holds no address twice.
LEMMA Registered ==
    ASSUME TypeOK, NEW addr \in Addrs
    PROVE  /\ register(addr) \in Seq(Addrs)
           /\ Len(register(addr)) <= MaxClients
           /\ IsInjective(register(addr))
<1>1. CASE addr \in Range(leases) \/ Len(leases) = MaxClients
  BY <1>1 DEF register, TypeOK
<1>2. CASE ~(addr \in Range(leases) \/ Len(leases) = MaxClients)
  <2>1. register(addr) = Append(leases, addr) /\ leases \in Seq(Addrs)
    BY <1>2 DEF register, TypeOK
  <2>2. Len(leases) < MaxClients /\ Len(leases) \in Nat
    BY <1>2, ApAssumption DEF TypeOK
  <2>3. Append(leases, addr) \in Seq(Addrs) /\ Len(Append(leases, addr)) = Len(leases) + 1
    BY <2>1
  <2>4. ASSUME NEW a \in 1..(Len(leases) + 1), NEW b \in 1..(Len(leases) + 1),
               Append(leases, addr)[a] = Append(leases, addr)[b]
        PROVE  a = b
    <3>1. \A d \in 1..Len(leases) : Append(leases, addr)[d] = leases[d] /\ leases[d] # addr
      BY <1>2, <2>1 DEF Range
    <3>2. Append(leases, addr)[Len(leases) + 1] = addr
      BY <2>1
    <3>3. \A d, e \in 1..Len(leases) : leases[d] = leases[e] => d = e
      BY <2>1 DEF TypeOK, IsInjective
    <3> QED
      BY <2>2, <2>4, <3>1, <3>2, <3>3
  <2>5. IsInjective(Append(leases, addr))
    BY <2>3, <2>4 DEF IsInjective
  <2> QED
    BY <2>1, <2>2, <2>3, <2>5, ApAssumption
<1> QED
  BY <1>1, <1>2

LEMMA AfreshType == Afresh \in [Places -> [Places -> 0..SinceBound]]
BY DEF Afresh, SinceBound

LEMMA SentType ==
    ASSUME TypeOK, NEW i \in Nat
    PROVE  SentBurst(i) \in [Places -> [Places -> 0..SinceBound]]
<1> DEFINE sent == {p \in 0..(Len(dsts) - 1) : Offset(p) < i}
           before(p, q) == IF p \in sent THEN 0 ELSE since[p][q]
           after(p, q) == IF p < Len(dsts) /\ q \in sent /\ (p \in sent => Offset(p) < Offset(q))
                          THEN Capped(before(p, q) + 1) ELSE before(p, q)
<1>1. ASSUME NEW p \in Places, NEW q \in Places PROVE after(p, q) \in 0..SinceBound
  <2>1. since[p][q] \in 0..SinceBound
    BY DEF TypeOK
  <2>2. before(p, q) \in 0..SinceBound
    BY <2>1 DEF SinceBound
  <2>3. \A n \in 0..SinceBound : Capped(n + 1) \in 0..SinceBound
    BY DEF Capped, SinceBound
  <2> HIDE DEF before
  <2> QED
    BY <2>2, <2>3
<1>2. SentBurst(i) = [p \in Places |-> [q \in Places |-> after(p, q)]]
  BY DEF SentBurst
<1> HIDE DEF after
<1> QED
  BY <1>1, <1>2

\* A place that is moved on stays below the number of destinations.
LEMMA Rotation ==
    ASSUME TypeOK, dsts # <<>>, NEW k \in Nat
    PROVE  (next + k) % Len(dsts) \in Nat /\ (next + k) % Len(dsts) < Len(dsts)
<1>1. Len(dsts) \in Nat \ {0} /\ next \in Nat
  BY DEF TypeOK
<1>2. next + k \in Nat
  BY <1>1
<1>3. \A m \in Nat, n \in Nat \ {0} : m % n \in 0..(n - 1)
  OBVIOUS
<1> QED
  BY <1>1, <1>2, <1>3

LEMMA InvInductive == Inv /\ [Next]_vars => Inv'
<1> SUFFICES ASSUME Inv, [Next]_vars PROVE Inv'
  OBVIOUS
<1>t. TypeOK /\ FloodInv
  BY DEF Inv
<1>1. ASSUME NEW c \in Configs, run_ap(c) PROVE Inv'
  BY <1>t, <1>1 DEF run_ap, Inv, TypeOK, FloodInv, Awaits, Flooding
<1>2. CASE Stop
  BY <1>t, <1>2, AfreshType, ApAssumption DEF Stop, Inv, TypeOK, FloodInv, Awaits, Flooding, NoLeases
<1>3. ASSUME NEW s \in Stations, run_dhcp_server(s) PROVE Inv'
  <2>1. PICK addr \in dhcp_assign_ip(s) :
          clients' = [clients EXCEPT ![s] = addr] /\ leases' = register(addr)
    BY <1>3 DEF run_dhcp_server
  <2>2. addr \in Addrs
    BY <1>t, Assigned
  <2>3. /\ leases' \in Seq(Addrs)
        /\ Len(leases') <= MaxClients
        /\ IsInjective(leases')
    BY <1>t, <2>1, <2>2, Registered
  <2>4. clients' \in [Stations -> Addrs \cup {NoAddr}]
    BY <1>t, <2>1, <2>2 DEF TypeOK
  <2>5. UNCHANGED <<config, flood, attempts, dsts, next, since>>
    BY <1>3 DEF run_dhcp_server
  <2> QED
    BY <1>t, <2>3, <2>4, <2>5 DEF Inv, TypeOK, FloodInv
<1>4. CASE ap_ping_lease
  <2>1. CASE Settled
    <3>1. config.lease \in Addrs
      BY <1>t, ApAssumption DEF TypeOK, AllConfigs
    <3>2. /\ dsts' \in Seq(Addrs)
          /\ flood' \in {"single", "gather"}
      <4>1. <<config.lease>> \in Seq(Addrs) /\ <<>> \in Seq(Addrs)
        BY <3>1
      <4>2. \/ flood' = "single" /\ dsts' = <<config.lease>>
            \/ flood' = "gather" /\ dsts' = <<>>
        BY <2>1 DEF Settled
      <4> QED
        BY <4>1, <4>2
    <3>3. next' = 0
      BY <1>t, <2>1 DEF Settled, FloodInv, Flooding
    <3>4. dsts' # <<>> => next' < Len(dsts')
      BY <3>2, <3>3
    <3> QED
      BY <1>t, <2>1, <3>2, <3>3, <3>4 DEF Settled, Inv, TypeOK, FloodInv, Awaits, Flooding
  <2>2. CASE WaitForLease
    BY <1>t, <2>2, ApAssumption DEF WaitForLease, Inv, TypeOK, FloodInv, Awaits, Flooding
  <2>3. CASE Gathered
    <3>1. dsts' \in Seq(Addrs)
      BY <1>t, <2>3, PoolType DEF Gathered, TypeOK
    <3>2. next' = 0
      BY <1>t, <2>3 DEF Gathered, FloodInv, Flooding
    <3>3. dsts' # <<>> => next' < Len(dsts')
      BY <3>1, <3>2
    <3>4. flood' = IF dsts' = <<>> THEN "idle" ELSE "send"
      BY <2>3 DEF Gathered
    <3> QED
      BY <1>t, <2>3, <3>1, <3>2, <3>3, <3>4 DEF Gathered, Inv, TypeOK, FloodInv, Awaits, Flooding
  <2>4. CASE run_icmp_flood_multi
    <3>1. dsts # <<>> /\ flood = "send" /\ flood' = "report"
      BY <1>t, <2>4 DEF run_icmp_flood_multi, Pass, FloodInv, Flooding
    <3>2. PICK k \in 0..CatchUp : next' = (next + k) % Len(dsts)
      BY <2>4 DEF run_icmp_flood_multi
    <3>3. next' \in Nat /\ next' < Len(dsts)
      BY <1>t, <3>1, <3>2, Rotation, ApAssumption
    <3> QED
      BY <1>t, <2>4, <3>1, <3>3 DEF run_icmp_flood_multi, Pass, Inv, TypeOK, FloodInv, Flooding
  <2>5. CASE run_icmp_flood_burst
    <3>1. dsts # <<>> /\ flood = "send" /\ flood' = "report"
      BY <1>t, <2>5 DEF run_icmp_flood_burst, Pass, FloodInv, Flooding
    <3>2. PICK i \in 0..Len(dsts) :
            /\ next' = IF i < Len(dsts) THEN (next + i) % Len(dsts) ELSE 0
            /\ since' = SentBurst(i)
      BY <2>5 DEF run_icmp_flood_burst
    <3>3. i \in Nat /\ Len(dsts) \in Nat \ {0}
      BY <1>t, <3>1 DEF TypeOK
    <3>4. next' \in Nat /\ next' < Len(dsts)
      BY <1>t, <3>1, <3>2, <3>3, Rotation
    <3>5. since' \in [Places -> [Places -> 0..SinceBound]]
      BY <1>t, <3>2, <3>3, SentType
    <3> QED
      BY <1>t, <2>5, <3>1, <3>4, <3>5 DEF run_icmp_flood_burst, Pass, Inv, TypeOK, FloodInv, Flooding
  <2>6. CASE Refresh
    <3>1. CASE leases # <<>> /\ leases # dsts
      <4>1. dsts' = leases /\ next' = 0 /\ since' = Afresh
        BY <2>6, <3>1 DEF Refresh
      <4>2. next' < Len(dsts')
        BY <1>t, <3>1, <4>1 DEF TypeOK
      <4> QED
        BY <1>t, <2>6, <3>1, <4>1, <4>2, AfreshType
        DEF Refresh, Inv, TypeOK, FloodInv, Awaits, Flooding
    <3>2. CASE ~(leases # <<>> /\ leases # dsts)
      BY <1>t, <2>6, <3>2 DEF Refresh, Inv, TypeOK, FloodInv, Awaits, Flooding
    <3> QED
      BY <3>1, <3>2
  <2>7. CASE NotYet
    BY <1>t, <2>7 DEF NotYet, Inv, TypeOK, FloodInv, Awaits, Flooding
  <2>8. CASE Slept
    BY <1>t, <2>8 DEF Slept, Inv, TypeOK, FloodInv, Awaits, Flooding
  <2> QED
    BY <1>4, <2>1, <2>2, <2>3, <2>4, <2>5, <2>6, <2>7, <2>8 DEF ap_ping_lease
<1>5. CASE UNCHANGED vars
  BY <1>t, <1>5 DEF vars, Inv, TypeOK, FloodInv
<1> QED
  BY <1>1, <1>2, <1>3, <1>4, <1>5 DEF Next

LEMMA InvInit == Init => Inv
<1> SUFFICES ASSUME Init PROVE Inv
  OBVIOUS
<1>1. leases \in Seq(Addrs) /\ Len(leases) <= MaxClients /\ IsInjective(leases)
  BY ApAssumption DEF Init, IsInjective
<1> QED
  BY <1>1, AfreshType, ApAssumption DEF Init, Inv, TypeOK, FloodInv, Flooding, NoLeases

\* Type correctness: the registry is bounded and holds no address twice, and the
\* place of the flood is always that of a destination.
THEOREM FloodTypes == Spec => []TypeOK
<1>1. Inv => TypeOK
  BY DEF Inv
<1> QED
  BY <1>1, InvInit, InvInductive, PTL DEF Spec

\* For any pool, whether it saturates or overlaps an earlier run's, no two stations
\* of a run hold one address.
THEOREM AddressesDistinct == Spec => []NoSharedAddress
<1>1. Init => NoSharedAddress
  BY DEF Init, NoSharedAddress, NoLeases
<1>2. Inv /\ NoSharedAddress /\ [Next]_vars => NoSharedAddress'
  <2> SUFFICES ASSUME TypeOK, NoSharedAddress, [Next]_vars PROVE NoSharedAddress'
    BY DEF Inv
  <2>1. ASSUME NEW s \in Stations, run_dhcp_server(s) PROVE NoSharedAddress'
    <3>1. PICK addr \in dhcp_assign_ip(s) : clients' = [clients EXCEPT ![s] = addr]
      BY <2>1 DEF run_dhcp_server
    <3>2. clients[s] # NoAddr => addr = clients[s]
      BY Assigned
    <3>3. clients[s] = NoAddr => \A t \in Stations : clients[t] # addr
      BY Assigned DEF Taken
    <3> QED
      BY <3>1, <3>2, <3>3 DEF NoSharedAddress, TypeOK
  <2>2. CASE Stop
    BY <2>2 DEF Stop, NoSharedAddress, NoLeases
  <2>3. ASSUME UNCHANGED clients PROVE NoSharedAddress'
    BY <2>3 DEF NoSharedAddress
  <2>4. (\E c \in Configs : run_ap(c)) \/ ap_ping_lease \/ UNCHANGED vars => UNCHANGED clients
    BY DEF run_ap, ap_ping_lease, Settled, WaitForLease, Gathered, run_icmp_flood_multi,
           run_icmp_flood_burst, Pass, Refresh, NotYet, Slept, vars
  <2> QED
    BY <2>1, <2>2, <2>3, <2>4 DEF Next
<1> QED
  BY <1>1, <1>2, InvInit, InvInductive, PTL DEF Spec

\* The address a station was offered is the one it keeps until the run ends.
THEOREM AddressesStable == Spec => LeaseIsStable
<1> DEFINE Stable == flood # "off" /\ flood' # "off"
                       => \A s \in Stations : clients[s] # NoAddr => clients'[s] = clients[s]
<1>1. Inv /\ [Next]_vars => [Stable]_vars
  <2> SUFFICES ASSUME TypeOK, Next PROVE Stable
    BY DEF Inv
  <2>1. ASSUME NEW s \in Stations, run_dhcp_server(s) PROVE Stable
    <3>1. PICK addr \in dhcp_assign_ip(s) : clients' = [clients EXCEPT ![s] = addr]
      BY <2>1 DEF run_dhcp_server
    <3>2. clients[s] # NoAddr => addr = clients[s]
      BY Assigned
    <3> QED
      BY <3>1, <3>2 DEF TypeOK
  <2>2. CASE Stop
    BY <2>2 DEF Stop
  <2>3. (\E c \in Configs : run_ap(c)) \/ ap_ping_lease => UNCHANGED clients
    BY DEF run_ap, ap_ping_lease, Settled, WaitForLease, Gathered, run_icmp_flood_multi,
           run_icmp_flood_burst, Pass, Refresh, NotYet, Slept
  <2> QED
    BY <2>1, <2>2, <2>3 DEF Next
<1> QED
  BY <1>1, InvInit, InvInductive, PTL DEF Spec, LeaseIsStable

(***************************************************************************)
(* The fairness of the sync-burst.  A receiver that is served before       *)
(* another in the order of the next burst may have missed two frames of    *)
(* the other; one that is served after it, only one.                       *)
(***************************************************************************)
Occupied == 0..(Len(dsts) - 1)

QuietInv == flood \notin Flooding \/ ~config.sync => since = Afresh

TurnInv ==
    /\ \A p, q \in Places : since[p][q] > 0 => p \in Occupied /\ q \in Occupied
    /\ \A p, q \in Occupied \cap Places :
        since[p][q] <= (IF Offset(p) < Offset(q) THEN 2 ELSE 1)

\* The remainder of a number below twice the divisor.
LEMMA OnceRound ==
    ASSUME NEW n \in Nat \ {0}, NEW m \in Nat, m < 2 * n
    PROVE  m % n = IF m < n THEN m ELSE m - n
<1>1. CASE m < n
  BY <1>1
<1>2. CASE m >= n
  <2>1. m = n * (m \div n) + (m % n) /\ m % n \in 0..(n - 1) /\ m \div n \in Nat
    BY SMTT(30)
  <2> QED
    BY <1>2, <2>1, SMTT(30)
<1> QED
  BY <1>1, <1>2

LEMMA OnceRoundDsts ==
    ASSUME TypeOK, dsts # <<>>, NEW m \in Nat, m < 2 * Len(dsts)
    PROVE  m % Len(dsts) = IF m < Len(dsts) THEN m ELSE m - Len(dsts)
<1>1. Len(dsts) \in Nat \ {0}
  BY DEF TypeOK
<1> QED
  BY <1>1, OnceRound

LEMMA OffsetIs ==
    ASSUME TypeOK, dsts # <<>>, NEW p \in Occupied
    PROVE  Offset(p) = IF p >= next THEN p - next ELSE p - next + Len(dsts)
<1>1. Len(dsts) \in Nat \ {0} /\ next \in Nat /\ next < Len(dsts)
  BY DEF TypeOK
<1>2. p \in Nat /\ p < Len(dsts)
  BY <1>1 DEF Occupied
<1>3. p - next + Len(dsts) \in Nat /\ p - next + Len(dsts) < 2 * Len(dsts)
  BY <1>1, <1>2
<1>4. Offset(p) = IF p - next + Len(dsts) < Len(dsts) THEN p - next + Len(dsts)
                  ELSE p - next + Len(dsts) - Len(dsts)
  <2>1. PICK m \in Nat : m = p - next + Len(dsts) /\ m < 2 * Len(dsts) /\ Offset(p) = m % Len(dsts)
    BY <1>3 DEF Offset
  <2>2. m % Len(dsts) = IF m < Len(dsts) THEN m ELSE m - Len(dsts)
    BY <2>1, OnceRoundDsts
  <2> QED
    BY <1>1, <1>2, <2>1, <2>2
<1> QED
  BY <1>1, <1>2, <1>4

LEMMA OffsetRange ==
    ASSUME TypeOK, dsts # <<>>, NEW p \in Occupied
    PROVE  Offset(p) \in Nat /\ Offset(p) < Len(dsts)
<1>1. Len(dsts) \in Nat \ {0} /\ next \in Nat /\ next < Len(dsts)
  BY DEF TypeOK
<1> QED
  BY <1>1, OffsetIs DEF Occupied

\* After i frames, the places that were served are the last of the next burst.
LEMMA OffsetMoves ==
    ASSUME TypeOK, TypeOK', dsts # <<>>, dsts' = dsts,
           NEW i \in 0..(Len(dsts) - 1), next' = (next + i) % Len(dsts),
           NEW p \in Occupied
    PROVE  Offset(p)' = IF Offset(p) >= i THEN Offset(p) - i ELSE Offset(p) - i + Len(dsts)
<1>1. Len(dsts) \in Nat \ {0} /\ next \in Nat /\ next < Len(dsts) /\ i \in Nat /\ i < Len(dsts)
  BY DEF TypeOK
<1>2. p \in Nat /\ p < Len(dsts)
  BY <1>1 DEF Occupied
<1>3. next' = IF next + i < Len(dsts) THEN next + i ELSE next + i - Len(dsts)
  <2>1. PICK m \in Nat : m = next + i /\ m < 2 * Len(dsts) /\ next' = m % Len(dsts)
    BY <1>1
  <2>2. m % Len(dsts) = IF m < Len(dsts) THEN m ELSE m - Len(dsts)
    BY <2>1, OnceRoundDsts
  <2> QED
    BY <1>1, <2>1, <2>2
<1>4. next' \in Nat /\ next' < Len(dsts)
  BY <1>1, <1>3
<1>5. Offset(p) = IF p >= next THEN p - next ELSE p - next + Len(dsts)
  BY OffsetIs
<1>6. Offset(p)' = (p - next' + Len(dsts)) % Len(dsts)
  BY DEF Offset
<1>7. p - next' + Len(dsts) \in Nat /\ p - next' + Len(dsts) < 2 * Len(dsts)
  BY <1>1, <1>2, <1>4
<1>8. Offset(p)' = IF p >= next' THEN p - next' ELSE p - next' + Len(dsts)
  <2>1. PICK m \in Nat :
          m = p - next' + Len(dsts) /\ m < 2 * Len(dsts) /\ Offset(p)' = m % Len(dsts)
    BY <1>6, <1>7
  <2>2. m % Len(dsts) = IF m < Len(dsts) THEN m ELSE m - Len(dsts)
    BY <2>1, OnceRoundDsts
  <2> QED
    BY <1>1, <1>2, <1>4, <2>1, <2>2
<1>9. CASE next + i < Len(dsts)
  BY <1>1, <1>2, <1>3, <1>5, <1>8, <1>9
<1>10. CASE next + i >= Len(dsts)
  <2>1. next' = next + i - Len(dsts)
    BY <1>1, <1>3, <1>10
  <2>2. CASE p >= next
    BY <1>1, <1>2, <1>5, <1>8, <1>10, <2>1, <2>2
  <2>3. CASE p < next
    BY <1>1, <1>2, <1>5, <1>8, <1>10, <2>1, <2>3
  <2> QED
    BY <1>1, <1>2, <2>2, <2>3
<1> QED
  BY <1>1, <1>9, <1>10

LEMMA BurstKeepsTurns ==
    ASSUME TypeOK, TypeOK', TurnInv, FloodInv, run_icmp_flood_burst
    PROVE  TurnInv'
<1>1. dsts # <<>> /\ dsts' = dsts
  BY DEF run_icmp_flood_burst, Pass, FloodInv, Flooding
<1>2. PICK i \in 0..Len(dsts) :
        /\ next' = IF i < Len(dsts) THEN (next + i) % Len(dsts) ELSE 0
        /\ since' = SentBurst(i)
  BY DEF run_icmp_flood_burst
<1> DEFINE n == Len(dsts)
           sent == {p \in Occupied : Offset(p) < i}
           before(p, q) == IF p \in sent THEN 0 ELSE since[p][q]
<1>3. n \in Nat \ {0} /\ i \in Nat /\ i <= n
  BY <1>1, <1>2 DEF TypeOK
<1>4. ASSUME NEW p \in Places, NEW q \in Places
      PROVE  since'[p][q] = IF p < n /\ q \in sent /\ (p \in sent => Offset(p) < Offset(q))
                            THEN Capped(before(p, q) + 1) ELSE before(p, q)
  BY <1>2, <1>4 DEF SentBurst, Occupied
<1>5. \A p, q \in Places : since[p][q] \in Nat /\ since'[p][q] \in Nat
  <2>1. \A m \in 0..SinceBound : m \in Nat
    BY DEF SinceBound
  <2>2. since \in [Places -> [Places -> 0..SinceBound]] /\ since' \in [Places -> [Places -> 0..SinceBound]]
    BY DEF TypeOK
  <2> QED
    BY <2>1, <2>2
<1>6. \A m \in Nat : Capped(m) <= m /\ Capped(m) \in Nat
  BY DEF Capped, SinceBound
<1>7. Occupied' = Occupied
  BY <1>1 DEF Occupied
<1>8. Places \subseteq Nat
  BY ApAssumption DEF Places
<1>9. ASSUME NEW p \in Places, NEW q \in Places, since'[p][q] > 0
      PROVE  p \in Occupied' /\ q \in Occupied'
  <2>1. CASE q \in sent /\ p < n
    BY <1>3, <1>7, <1>8, <2>1 DEF Occupied
  <2>2. CASE ~(q \in sent /\ p < n)
    <3>1. since'[p][q] = before(p, q)
      BY <1>4, <2>2
    <3>2. p \notin sent /\ since[p][q] > 0
      BY <1>9, <3>1
    <3> QED
      BY <1>7, <3>2 DEF TurnInv
  <2> QED
    BY <2>1, <2>2
<1>10. ASSUME NEW p \in Occupied \cap Places, NEW q \in Occupied \cap Places
       PROVE  since'[p][q] <= (IF Offset(p)' < Offset(q)' THEN 2 ELSE 1)
  <2>1. /\ Offset(p) \in Nat /\ Offset(p) < n
        /\ Offset(q) \in Nat /\ Offset(q) < n
        /\ p < n
        /\ since[p][q] \in Nat /\ since'[p][q] \in Nat
    BY <1>1, <1>3, <1>5, OffsetRange DEF Occupied
  <2>2. /\ p \in sent <=> Offset(p) < i
        /\ q \in sent <=> Offset(q) < i
    OBVIOUS
  <2>3. since[p][q] <= (IF Offset(p) < Offset(q) THEN 2 ELSE 1)
    BY DEF TurnInv
  <2>4. ASSUME i < n
        PROVE  /\ Offset(p)' = IF Offset(p) >= i THEN Offset(p) - i ELSE Offset(p) - i + n
               /\ Offset(q)' = IF Offset(q) >= i THEN Offset(q) - i ELSE Offset(q) - i + n
    <3>1. i \in 0..(n - 1) /\ next' = (next + i) % n
      BY <1>2, <1>3, <2>4
    <3> QED
      BY <1>1, <3>1, OffsetMoves
  <2>5. CASE p \in sent
    <3>1. since'[p][q] <= 1
      <4>1. before(p, q) = 0
        BY <2>5
      <4>2. since'[p][q] = Capped(0 + 1) \/ since'[p][q] = 0
        BY <1>4, <4>1
      <4> QED
        BY <4>2 DEF Capped, SinceBound
    <3> QED
      BY <2>1, <3>1
  <2>6. CASE p \notin sent /\ q \in sent
    <3>1. since'[p][q] <= since[p][q] + 1
      <4>1. before(p, q) = since[p][q]
        BY <2>6
      <4>2. since'[p][q] = Capped(since[p][q] + 1) \/ since'[p][q] = since[p][q]
        BY <1>4, <4>1
      <4>3. Capped(since[p][q] + 1) <= since[p][q] + 1
        BY <2>1 DEF Capped, SinceBound
      <4> QED
        BY <2>1, <4>2, <4>3
    <3>2. since[p][q] <= 1 /\ i < n
      BY <1>3, <2>1, <2>2, <2>3, <2>6
    <3>3. Offset(p)' < Offset(q)'
      BY <1>3, <2>1, <2>2, <2>4, <2>6, <3>2
    <3>4. since'[p][q] <= 2
      BY <2>1, <3>1, <3>2
    <3> QED
      BY <3>3, <3>4
  <2>7. CASE p \notin sent /\ q \notin sent
    <3>1. since'[p][q] = since[p][q]
      BY <1>4, <2>7
    <3>2. i < n
      BY <1>3, <2>1, <2>2, <2>7
    <3>3. Offset(p)' < Offset(q)' <=> Offset(p) < Offset(q)
      BY <1>3, <2>1, <2>2, <2>4, <2>7, <3>2
    <3> QED
      BY <2>3, <3>1, <3>3
  <2> QED
    BY <2>5, <2>6, <2>7
<1> QED
  BY <1>7, <1>9, <1>10 DEF TurnInv

\* Nothing was sent since the history began anew: every turn is as good as another.
LEMMA AfreshTurns == ASSUME ApAssumption, since = Afresh PROVE TurnInv
<1>1. \A p, q \in Places : since[p][q] = 0
  BY DEF Afresh
<1> QED
  BY <1>1 DEF TurnInv

LEMMA TurnsInductive ==
    Inv /\ QuietInv /\ TurnInv /\ [Next]_vars => QuietInv' /\ TurnInv'
<1> SUFFICES ASSUME Inv, Inv', QuietInv, TurnInv, [Next]_vars PROVE QuietInv' /\ TurnInv'
  BY InvInductive
<1>t. TypeOK /\ TypeOK' /\ FloodInv
  BY DEF Inv
<1>0. since' = Afresh => QuietInv' /\ TurnInv'
  <2>1. ASSUME since' = Afresh PROVE \A p, q \in Places : since'[p][q] = 0
    BY <2>1 DEF Afresh
  <2> QED
    BY <2>1 DEF QuietInv, TurnInv
<1>1. ASSUME flood \notin Flooding \/ ~config.sync, UNCHANGED since PROVE since' = Afresh
  BY <1>1 DEF QuietInv
<1>2. ASSUME NEW c \in Configs, run_ap(c) PROVE since' = Afresh
  BY <1>1, <1>2 DEF run_ap, Flooding
<1>3. CASE Stop
  BY <1>0, <1>3 DEF Stop
<1>4. ASSUME UNCHANGED <<config, dsts, next, since>>, flood \in Flooding <=> flood' \in Flooding
      PROVE  QuietInv' /\ TurnInv'
  BY <1>4 DEF QuietInv, TurnInv, Occupied, Offset
<1>5. ASSUME NEW s \in Stations, run_dhcp_server(s) PROVE QuietInv' /\ TurnInv'
  BY <1>4, <1>5 DEF run_dhcp_server
<1>6. CASE Settled \/ WaitForLease \/ Gathered
  BY <1>0, <1>1, <1>6 DEF Settled, WaitForLease, Gathered, Flooding
<1>7. CASE run_icmp_flood_multi
  BY <1>0, <1>1, <1>7 DEF run_icmp_flood_multi, Pass
<1>8. CASE run_icmp_flood_burst
  <2>1. TurnInv'
    BY <1>t, <1>8, BurstKeepsTurns
  <2>2. QuietInv'
    BY <1>8 DEF run_icmp_flood_burst, Pass, QuietInv, Flooding
  <2> QED
    BY <2>1, <2>2
<1>9. CASE Refresh
  BY <1>0, <1>4, <1>9 DEF Refresh, Flooding
<1>10. CASE NotYet \/ Slept
  BY <1>4, <1>10 DEF NotYet, Slept, Flooding
<1>11. CASE UNCHANGED vars
  BY <1>4, <1>11 DEF vars
<1> QED
  BY <1>0, <1>2, <1>3, <1>5, <1>6, <1>7, <1>8, <1>9, <1>10, <1>11 DEF Next, ap_ping_lease

\* For any number of receivers, however often the buffer fills in a burst: no receiver
\* is sent a third frame while another waits.
THEOREM BurstIsFair == Spec => []NoReceiverLeftBehind
<1>1. Init => QuietInv /\ TurnInv
  BY AfreshTurns, ApAssumption DEF Init, QuietInv
<1>2. Inv /\ TurnInv => NoReceiverLeftBehind
  <2> SUFFICES ASSUME TypeOK, TurnInv, NEW p \in Places, NEW q \in Places
               PROVE  since[p][q] <= 2
    BY DEF Inv, NoReceiverLeftBehind
  <2>1. since[p][q] \in 0..SinceBound
    BY DEF TypeOK
  <2>2. CASE since[p][q] > 0
    BY <2>1, <2>2 DEF TurnInv, SinceBound
  <2>3. CASE since[p][q] = 0
    BY <2>3
  <2> QED
    BY <2>1, <2>2, <2>3 DEF SinceBound
<1> QED
  BY <1>1, <1>2, InvInit, InvInductive, TurnsInductive, PTL DEF Spec
============================================================================
