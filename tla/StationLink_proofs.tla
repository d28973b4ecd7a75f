-------------------------- MODULE StationLink_proofs --------------------------
\* Proofs about StationLink, for any gateways, any burst and any sequence of runs:
\* the CSI registration, the gateway that is flooded, and the pace of the flood.
EXTENDS StationLink, TLAPS

Radios == [mode : {"none", "sta", "ap"}, armed : BOOLEAN,
           receiver : {"heap", "pool", "none"}, forced : SUBSET {"interface", "peer"}]

\* The places of run_sta_connect before it joins its futures.
Idle == {"off", "settle", "connect", "cleanup", "cycle", "backoff"}

\* Nothing of the station is at work outside its loop, and only an access point
\* answers joins.
Quiescent ==
    /\ ~InStation => conn = "off"
    /\ conn \in Idle => dhcp = "off" /\ flood.at = "off"
    /\ joined = TRUE => step = "loop" /\ role.kind = "ap"

\* An ESP-NOW role registers CSI before it enters, the others as they do.
Armed ==
    /\ role.rx /\ role.kind = "espnow" /\ step \in {"enter", "suspend", "resume", "loop"}
           => radio.armed = TRUE
    /\ role.rx /\ role.kind = "sniffer" /\ step = "loop" => radio.armed = TRUE
    /\ role.rx /\ role.kind = "ap" /\ step = "loop" /\ joined = FALSE => radio.armed = TRUE
    /\ role.rx /\ conn = "up" /\ net.link = "up" => radio.armed = TRUE

\* The emitter's format, and the receiver, are settled on the way to the loop.
Prepared ==
    /\ step = "loop" /\ role.kind = "emitter" =>
           (IF chip = "classic" THEN "peer" ELSE "interface") \in radio.forced
    /\ step \in {"configure", "arm", "enter", "settle", "suspend", "loop"} =>
           radio.receiver = (IF role.kind \in {"espnow", "rejected"} THEN "pool" ELSE "none")
    /\ step \in {"suspend", "resume"} => role.kind = "espnow"
    /\ step = "resume" /\ chip # "c5" => radio.receiver = "pool"
    /\ step = "settle" => role.kind = "ap"
    /\ step = "loop" => role.kind # "rejected"

RadioInv ==
    /\ radio \in Radios /\ role \in Roles /\ joined \in BOOLEAN
    /\ Quiescent /\ Armed /\ Prepared

LinkTypes ==
    /\ net \in [link : {"down", "up"}, trying : BOOLEAN,
                lease : Gateways \cup {NoGateway}, moved : BOOLEAN]
    /\ info \in Gateways \cup {NoGateway}
    /\ flood \in [at : {"off", "info", "wait", "pass"},
                  target : Gateways \cup {NoGateway}, due : 0..MaxDue, budget : 0..Burst]
    /\ level \in Nat

\* A lease that stayed is on its way to the flood, or there.
Followed ==
    dhcp = "watch" /\ net.moved = FALSE =>
        /\ net.lease # NoGateway
        /\ info = net.lease \/ (info = NoGateway /\ flood.target = net.lease)

\* Between passes the debt that the next one will honour is counted with what is
\* ahead of the rate; a pass that is held up has spent its budget from nothing.
Paced ==
    /\ flood.at \in {"off", "info"} => level = 0
    /\ flood.at = "wait" => level + Least(flood.due, Burst + 1) <= 2 * Burst + 1
    /\ flood.at = "pass" => \/ level + flood.due <= 2 * Burst + 1
                            \/ level + flood.budget <= Burst

IInv == RadioInv /\ LinkTypes /\ Followed /\ Paced

-----------------------------------------------------------------------------
\* The pace of the flood and the gateway it goes to.

LEMMA InitLink == Init => LinkTypes /\ Followed /\ Paced
BY LinkAssumption, SMT DEF Init, LinkInit, NoNet, NoFlood, LinkTypes, Followed, Paced

\* What neither the lease's followers nor the flood can tell apart.
followVars == <<dhcp, net, info, flood, level>>

LEMMA LinkFrame ==
    ASSUME LinkTypes, Followed, Paced, UNCHANGED followVars
    PROVE  LinkTypes' /\ Followed' /\ Paced'
BY DEF LinkTypes, Followed, Paced, followVars

\* A step that only takes the lease away, or finds none, and says so.
LEMMA LeaseGone ==
    ASSUME LinkTypes, Followed, Paced, UNCHANGED <<info, flood, level>>,
           net' \in [link : {"down", "up"}, trying : BOOLEAN,
                     lease : Gateways \cup {NoGateway}, moved : BOOLEAN],
           dhcp' = "watch" => dhcp = "watch",
           dhcp' = "watch" /\ net.lease # NoGateway /\ net'.moved = FALSE
               => net'.lease = net.lease /\ net.moved = FALSE,
           dhcp' = "watch" /\ net'.moved = FALSE => net.moved = FALSE
    PROVE  LinkTypes' /\ Followed' /\ Paced'
<1>1. LinkTypes' /\ Paced'
  BY DEF LinkTypes, Paced
<1>2. Followed'
  BY DEF Followed
<1> QED BY <1>1, <1>2

LEMMA LinkDownType ==
    ASSUME LinkTypes
    PROVE  /\ LinkDown(net) \in [link : {"down", "up"}, trying : BOOLEAN,
                                 lease : Gateways \cup {NoGateway}, moved : BOOLEAN]
           /\ dhcp = "watch" /\ net.lease # NoGateway => LinkDown(net).moved = TRUE
           /\ LinkDown(net).moved = FALSE => net.moved = FALSE
           /\ LinkDown(net).link = "down"
<1>1. PICK m \in BOOLEAN : m = (net.moved \/ (dhcp = "watch" /\ net.lease # NoGateway))
  BY Zenon
<1>2. dhcp = "watch" /\ net.lease # NoGateway => m = TRUE
  BY <1>1, Zenon
<1>3. net.moved = TRUE => m = TRUE
  BY <1>1, Zenon
<1>4. LinkDown(net) = [net EXCEPT !.link = "down", !.lease = NoGateway, !.moved = m]
  BY <1>1, Zenon DEF LinkDown
<1>5. net \in [link : {"down", "up"}, trying : BOOLEAN,
               lease : Gateways \cup {NoGateway}, moved : BOOLEAN]
  BY DEF LinkTypes
<1> QED BY <1>2, <1>3, <1>4, <1>5

\* Steps of the connection leave the lease alone, except when it disconnects.
LEMMA NetKept ==
    ASSUME LinkTypes, NEW l \in {"down", "up"}, NEW b \in BOOLEAN
    PROVE  /\ [net EXCEPT !.trying = b] \in
                  [link : {"down", "up"}, trying : BOOLEAN,
                   lease : Gateways \cup {NoGateway}, moved : BOOLEAN]
           /\ [net EXCEPT !.link = l, !.trying = b] \in
                  [link : {"down", "up"}, trying : BOOLEAN,
                   lease : Gateways \cup {NoGateway}, moved : BOOLEAN]
           /\ [net EXCEPT !.trying = b].lease = net.lease
           /\ [net EXCEPT !.trying = b].moved = net.moved
           /\ [net EXCEPT !.link = l, !.trying = b].lease = net.lease
           /\ [net EXCEPT !.link = l, !.trying = b].moved = net.moved
BY DEF LinkTypes

LEMMA FloodKept ==
    ASSUME LinkTypes, Followed, NEW n \in 0..MaxDue, NEW m \in 0..Burst,
           NEW a \in {"wait", "pass"}, UNCHANGED <<net, dhcp, info>>, level' \in Nat,
           flood' = [flood EXCEPT !.at = a, !.due = n, !.budget = m]
    PROVE  /\ LinkTypes' /\ Followed'
           /\ flood'.at = a /\ flood'.due = n /\ flood'.budget = m
BY DEF LinkTypes, Followed

LEMMA LinkStep ==
    ASSUME LinkTypes, Followed, Paced, Quiescent, radio \in Radios, joined \in BOOLEAN,
           [Next]_vars
    PROVE  LinkTypes' /\ Followed' /\ Paced'
<1>1. CASE Run
  <2>1. CASE net' = net
    BY <1>1, <2>1, LinkFrame DEF Run, followVars
  <2>2. CASE net' = NoNet /\ radio'.mode # radio.mode
    <3>1. ~InStation \/ radio'.mode = radio.mode
      <4>1. CASE \/ \E ro \in Roles : run_inner(ro)
                 \/ Configure \/ set_csi \/ Enter \/ run_ap \/ Leave
        BY <4>1 DEF run_inner, Configure, set_csi, Enter, run_ap, Leave, InStation
      <4>2. CASE Suspend \/ Resume
        BY <4>2 DEF Suspend, Resume, InStation
      <4>3. CASE StationJoins
        BY <4>3 DEF StationJoins, InStation
      <4>4. CASE ap_station_monitor
        <5>1. radio' = [radio EXCEPT !.armed = TRUE] \/ radio' = radio
          BY <4>4 DEF ap_station_monitor, SetCsi
        <5> QED BY <5>1 DEF Radios
      <4> QED BY <1>1, <4>1, <4>2, <4>3, <4>4 DEF Run, RunStep
    <3>2. dhcp = "off"
      BY <2>2, <3>1 DEF Quiescent, Idle
    <3>3. UNCHANGED <<dhcp, info, flood, level>>
      BY <1>1 DEF Run
    <3> QED BY <2>2, <3>2, <3>3, LeaseGone DEF NoNet
  <2> QED BY <1>1, <2>1, <2>2 DEF Run
<1>2. CASE Connection
  <2>1. CASE run_sta_connect \/ Cycle
    BY <2>1, LinkFrame DEF run_sta_connect, Cycle, followVars
  <2>2. ASSUME NEW from, NEW to, Connect(from, to)
        PROVE  LinkTypes' /\ Followed' /\ Paced'
    <3>1. (net.link = "down") \in BOOLEAN
      OBVIOUS
    <3> QED BY <2>2, <3>1, NetKept, LeaseGone DEF Connect
  <2>3. CASE ConnectAndHang
    BY <2>3, NetKept, LeaseGone DEF ConnectAndHang
  <2>4. CASE Associate
    <3>1. /\ net' \in [link : {"down", "up"}, trying : BOOLEAN,
                        lease : Gateways \cup {NoGateway}, moved : BOOLEAN]
          /\ net'.lease = net.lease /\ net'.moved = net.moved
          /\ UNCHANGED <<info, level>>
      BY <2>4, NetKept DEF Associate
    <3>2. CASE conn = "connect"
      <4>1. dhcp' = "link" /\ \/ flood' = flood
                              \/ flood' = [flood EXCEPT !.at = "info"]
        BY <2>4, <3>2 DEF Associate
      <4>2. CASE flood' = flood
        BY <3>1, <4>1, <4>2, LeaseGone
      <4>3. CASE flood' = [flood EXCEPT !.at = "info"]
        <5>1. flood.at = "off"
          BY <3>2 DEF Quiescent, Idle
        <5>2. LinkTypes'
          BY <3>1, <4>3 DEF LinkTypes
        <5>3. Followed'
          BY <4>1 DEF Followed
        <5>4. Paced'
          BY <3>1, <4>3, <5>1 DEF Paced, LinkTypes
        <5> QED BY <5>2, <5>3, <5>4
      <4> QED BY <4>1, <4>2, <4>3
    <3>3. CASE conn # "connect"
      <4>1. UNCHANGED <<dhcp, flood>>
        BY <2>4, <3>3 DEF Associate
      <4> QED BY <3>1, <4>1, LeaseGone
    <3> QED BY <3>2, <3>3
  <2>5. CASE ConnectFails
    BY <2>5, NetKept, LeaseGone DEF ConnectFails
  <2>6. CASE ConnectTimesOut
    BY <2>6, LinkFrame DEF ConnectTimesOut, followVars
  <2>7. CASE disconnect_async
    <3>1. CASE net' = net
      BY <2>7, <3>1, LinkFrame DEF disconnect_async, followVars
    <3>2. CASE net' = LinkDown(net)
      BY <2>7, <3>2, LinkDownType, LeaseGone DEF disconnect_async
    <3> QED BY <2>7, <3>1, <3>2 DEF disconnect_async
  <2> QED BY <1>2, <2>1, <2>2, <2>3, <2>4, <2>5, <2>6, <2>7 DEF Connection, Attempts
<1>3. CASE AssociateLate
  BY <1>3, LeaseGone DEF AssociateLate, LinkTypes
<1>4. CASE LinkLost
  BY <1>4, LinkDownType, LeaseGone DEF LinkLost
<1>5. CASE LeaseExpires
  BY <1>5, LeaseGone DEF LeaseExpires, LinkTypes
<1>6. ASSUME NEW g \in Gateways, Lease(g)
      PROVE  LinkTypes' /\ Followed' /\ Paced'
  BY <1>6, LeaseGone DEF Lease, LinkTypes
<1>7. CASE run_dhcp_client
  <2>1. CASE LinkSeen \/ LinkMissed
    BY <2>1, LeaseGone DEF LinkSeen, LinkMissed, LinkTypes
  <2>2. CASE Publish
    <3>1. LinkTypes'
      BY <2>2 DEF Publish, LinkTypes
    <3>2. Followed'
      BY <2>2 DEF Publish, LinkTypes, Followed
    <3>3. Paced'
      BY <2>2 DEF Publish, Paced
    <3> QED BY <3>1, <3>2, <3>3
  <2> QED BY <1>7, <2>1, <2>2 DEF run_dhcp_client
<1>8. CASE run_icmp_flood
  <2>1. CASE TakeInfo
    <3>1. LinkTypes'
      BY <2>1 DEF TakeInfo, LinkTypes
    <3>2. Followed'
      BY <2>1, LinkAssumption DEF TakeInfo, LinkTypes, Followed
    <3>3. Paced'
      BY <2>1, LinkAssumption DEF TakeInfo, LinkTypes, Paced, Least
    <3> QED BY <3>1, <3>2, <3>3
  <2>2. PICK d \in 0..MaxDue, b \in 0..Burst, a \in {"off", "info", "wait", "pass"} :
              d = flood.due /\ b = flood.budget /\ a = flood.at
    BY DEF LinkTypes
  <2>3. level \in Nat /\ Burst \in Nat /\ MaxDue \in Nat /\ MaxDue > 2 * Burst + 2
    BY LinkAssumption DEF LinkTypes
  <2>4. CASE Tick
    <3>1. PICK n \in 0..MaxDue :
             n = Least(d + 1, MaxDue) /\ (n = d + 1 \/ (n = MaxDue /\ n <= d + 1))
      BY <2>3 DEF Least
    <3>2. a \in {"wait", "pass"} /\ UNCHANGED <<net, dhcp, info>>
          /\ level' = IF level = 0 THEN 0 ELSE level - 1
      BY <2>2, <2>4 DEF Tick
    <3>3. flood' = [flood EXCEPT !.at = a, !.due = n, !.budget = b]
      BY <2>2, <2>4, <3>1 DEF Tick, LinkTypes
    <3>4. level' \in Nat
      BY <2>3, <3>2
    <3>5. /\ LinkTypes' /\ Followed'
          /\ flood'.at = a /\ flood'.due = n /\ flood'.budget = b
      BY <3>2, <3>3, <3>4, FloodKept
    <3>6. Paced'
      <4>1. CASE a = "wait"
        <5>1. level + Least(d, Burst + 1) <= 2 * Burst + 1
          BY <2>2, <4>1 DEF Paced
        <5>2. level' + Least(n, Burst + 1) <= 2 * Burst + 1
          BY <2>3, <3>1, <3>2, <5>1 DEF Least
        <5> QED BY <3>5, <4>1, <5>2 DEF Paced
      <4>2. CASE a = "pass"
        <5>1. level + d <= 2 * Burst + 1 \/ level + b <= Burst
          BY <2>2, <4>2 DEF Paced
        <5>2. level' + n <= 2 * Burst + 1 \/ level' + b <= Burst
          BY <2>3, <3>1, <3>2, <5>1
        <5> QED BY <3>5, <4>2, <5>2 DEF Paced
      <4> QED BY <3>2, <4>1, <4>2
    <3> QED BY <3>5, <3>6
  <2>5. CASE PassBegins
    <3>1. PICK n \in 0..MaxDue : n = Least(d, Burst + 1)
      BY <2>3 DEF Least
    <3>2. UNCHANGED <<net, dhcp, info, level>> /\ a = "wait"
      BY <2>2, <2>5 DEF PassBegins
    <3>3. flood' = [flood EXCEPT !.at = "pass", !.due = n, !.budget = Burst]
      BY <2>2, <2>5, <3>1 DEF PassBegins
    <3>4. Burst \in 0..Burst /\ level' \in Nat
      BY <2>3, <3>2
    <3>5. /\ LinkTypes' /\ Followed'
          /\ flood'.at = "pass" /\ flood'.due = n /\ flood'.budget = Burst
      BY <3>2, <3>3, <3>4, FloodKept
    <3>6. level' + n <= 2 * Burst + 1
      BY <2>2, <3>1, <3>2 DEF Paced
    <3> QED BY <3>5, <3>6 DEF Paced
  <2>6. CASE SendFrame
    <3>1. d - 1 \in 0..MaxDue /\ b - 1 \in 0..Burst /\ a = "pass" /\ level' = level + 1
          /\ UNCHANGED <<net, dhcp, info>>
      BY <2>2, <2>3, <2>6 DEF SendFrame
    <3>2. flood' = [flood EXCEPT !.at = "pass", !.due = d - 1, !.budget = b - 1]
      BY <2>2, <2>6, <3>1 DEF SendFrame, LinkTypes
    <3>3. level' \in Nat
      BY <2>3, <3>1
    <3>4. /\ LinkTypes' /\ Followed'
          /\ flood'.at = "pass" /\ flood'.due = d - 1 /\ flood'.budget = b - 1
      BY <3>1, <3>2, <3>3, FloodKept
    <3>5. level + d <= 2 * Burst + 1 \/ level + b <= Burst
      BY <2>2, <3>1 DEF Paced
    <3>6. level' + (d - 1) <= 2 * Burst + 1 \/ level' + (b - 1) <= Burst
      BY <2>3, <3>1, <3>5
    <3> QED BY <3>4, <3>6 DEF Paced
  <2>7. CASE PassEnds
    <3>1. UNCHANGED <<net, dhcp, info, level>> /\ a = "pass" /\ 0 \in 0..Burst /\ level' \in Nat
      BY <2>2, <2>3, <2>7 DEF PassEnds
    <3>2. flood' = [flood EXCEPT !.at = "wait", !.due = d, !.budget = 0]
      BY <2>2, <2>7 DEF PassEnds, LinkTypes
    <3>3. /\ LinkTypes' /\ Followed'
          /\ flood'.at = "wait" /\ flood'.due = d /\ flood'.budget = 0
      BY <3>1, <3>2, FloodKept
    <3>4. level + d <= 2 * Burst + 1 \/ level + b <= Burst
      BY <2>2, <3>1 DEF Paced
    <3>5. level' + Least(d, Burst + 1) <= 2 * Burst + 1
      BY <2>3, <3>1, <3>4 DEF Least
    <3> QED BY <3>3, <3>5 DEF Paced
  <2> QED BY <1>8, <2>1, <2>4, <2>5, <2>6, <2>7 DEF run_icmp_flood
<1>9. CASE Stop
  <2>1. PICK l \in {"down", "up"} : l = net.link
    BY DEF LinkTypes
  <2>2. net' = [link |-> l, trying |-> FALSE, lease |-> NoGateway, moved |-> FALSE]
    BY <1>9, <2>1 DEF Stop, NoNet
  <2>3. 0 \in 0..MaxDue /\ 0 \in 0..Burst
    BY LinkAssumption
  <2>4. LinkTypes'
    <3>1. flood' \in [at : {"off", "info", "wait", "pass"},
                      target : Gateways \cup {NoGateway}, due : 0..MaxDue, budget : 0..Burst]
      BY <1>9, <2>3 DEF Stop, NoFlood
    <3>2. info' \in Gateways \cup {NoGateway} /\ level' \in Nat
      BY <1>9 DEF Stop, LinkTypes
    <3>3. net' \in [link : {"down", "up"}, trying : BOOLEAN,
                    lease : Gateways \cup {NoGateway}, moved : BOOLEAN]
      BY <2>2
    <3> QED BY <3>1, <3>2, <3>3 DEF LinkTypes
  <2>5. Followed' /\ Paced'
    BY <1>9 DEF Stop, NoFlood, Followed, Paced
  <2> QED BY <2>4, <2>5
<1>10. CASE UNCHANGED vars
  BY <1>10, LinkFrame DEF vars, linkVars, followVars
<1> QED BY <1>1, <1>2, <1>3, <1>4, <1>5, <1>6, <1>7, <1>8, <1>9, <1>10 DEF Next

-----------------------------------------------------------------------------
\* The radio.  What a step does to it, as a member of its type.

LEMMA InitRadio == Init => RadioInv
<1> SUFFICES ASSUME Init PROVE RadioInv
  OBVIOUS
<1>1. radio \in Radios
  BY DEF Init, RadioInit, FreshRadio, Radios
<1>2. /\ step = "idle" /\ role \in Roles /\ role.kind = "rejected" /\ role.rx \in BOOLEAN
      /\ joined = FALSE
      /\ conn = "off" /\ dhcp = "off" /\ flood.at = "off"
  BY DEF Init, RadioInit, LinkInit, NoFlood, Roles
<1>3. Quiescent /\ Armed /\ Prepared
  BY <1>2 DEF Quiescent, Idle, Armed, Prepared, InStation
<1> QED BY <1>1, <1>2, <1>3 DEF RadioInv

LEMMA SetConfigCall ==
    ASSUME NEW r \in Radios, NEW m \in {"sta", "ap"}
    PROVE  /\ SetConfig(r, m) \in Radios /\ SetConfig(r, m).mode = m
           /\ SetConfig(r, m).receiver = r.receiver
BY DEF SetConfig, Radios

LEMMA SetCsiCall ==
    ASSUME NEW r \in Radios
    PROVE  /\ SetCsi(r) \in Radios /\ SetCsi(r).armed = TRUE /\ SetCsi(r).mode = r.mode
           /\ SetCsi(r).receiver = r.receiver /\ SetCsi(r).forced = r.forced
BY DEF SetCsi, Radios

LEMMA ForceTxCall ==
    ASSUME NEW r \in Radios
    PROVE  /\ ForceTx(r) \in Radios /\ ForceTx(r).receiver = r.receiver
           /\ ForceTx(r).mode = r.mode /\ "interface" \in ForceTx(r).forced
<1>1. PICK f \in SUBSET {"interface", "peer"} : f = r.forced \cup {"interface"}
  BY DEF Radios
<1>2. "interface" \in f
  BY <1>1
<1> QED BY <1>1, <1>2 DEF ForceTx, Radios

LEMMA ForcePeerCall ==
    ASSUME NEW r \in Radios, r.mode # "none"
    PROVE  /\ ForcePeer(r) \in Radios /\ ForcePeer(r).receiver = r.receiver
           /\ "peer" \in ForcePeer(r).forced
<1>1. PICK f \in SUBSET {"interface", "peer"} : f = r.forced \cup {"peer"}
  BY DEF Radios
<1>2. "peer" \in f
  BY <1>1
<1>3. ForcePeer(r) = [r EXCEPT !.forced = f]
  BY <1>1 DEF ForcePeer
<1> QED BY <1>1, <1>2, <1>3 DEF Radios

LEMMA BringupForces ==
    ASSUME radio \in Radios, role \in Roles, role.kind = "emitter"
    PROVE  /\ Bringup(radio) \in Radios /\ Bringup(radio).receiver = radio.receiver
           /\ (IF chip = "classic" THEN "peer" ELSE "interface") \in Bringup(radio).forced
<1>1. role.iface \in {"sta", "ap"}
  BY DEF Roles
<1>2. PICK a \in Radios : a = ForceTx(radio) /\ a.receiver = radio.receiver
  BY ForceTxCall
<1>3. PICK b \in Radios : b = SetConfig(a, role.iface) /\ b.receiver = radio.receiver
  BY <1>1, <1>2, SetConfigCall
<1>4. PICK c \in Radios : /\ c = ForceTx(b) /\ c.receiver = radio.receiver
                          /\ "interface" \in c.forced
  BY <1>3, ForceTxCall
<1>5. PICK d \in Radios : d = SetConfig(c, "sta") /\ d.receiver = radio.receiver /\ d.mode = "sta"
  BY <1>4, SetConfigCall
<1>6. /\ ForcePeer(d) \in Radios /\ ForcePeer(d).receiver = radio.receiver
      /\ "peer" \in ForcePeer(d).forced
  BY <1>5, ForcePeerCall
<1>7. Bringup(radio) = IF chip = "classic" THEN ForcePeer(d) ELSE c
  BY <1>2, <1>3, <1>4, <1>5 DEF Bringup
<1> QED BY <1>4, <1>6, <1>7

\* A step of the station: where run_inner is stays, and so does what it prepared.
LEMMA StationRadio ==
    ASSUME RadioInv, UNCHANGED <<chip, step, role, joined>>, radio' \in Radios,
           radio'.receiver = radio.receiver, radio'.forced = radio.forced,
           InStation \/ radio' = radio \/ conn' # "up",
           conn' \in Idle => dhcp' = "off" /\ flood'.at = "off",
           ~InStation => conn' = "off",
           role.rx /\ conn' = "up" /\ net'.link = "up" => radio'.armed = TRUE,
           InStation \/ radio'.armed = radio.armed
    PROVE  RadioInv'
<1>1. Quiescent'
  BY DEF RadioInv, Quiescent, InStation, Idle
<1>2. Armed'
  BY DEF RadioInv, Armed, InStation, Prepared
<1>3. Prepared'
  BY DEF RadioInv, Prepared
<1> QED BY <1>1, <1>2, <1>3 DEF RadioInv

LEMMA RunRadio == ASSUME RadioInv, Run PROVE RadioInv'
<1>1. UNCHANGED <<conn, dhcp, info, flood, level>>
  BY DEF Run
<1>2. radio \in Radios /\ role \in Roles /\ joined \in BOOLEAN /\ Quiescent /\ Armed /\ Prepared
  BY DEF RadioInv
<1>3. ASSUME NEW ro \in Roles, run_inner(ro) PROVE RadioInv'
  <2>1. radio' \in Radios
    BY <1>2, <1>3 DEF run_inner, Radios
  <2>2. Quiescent'
    BY <1>1, <1>2, <1>3 DEF run_inner, Goto, Quiescent, InStation, Idle
  <2>3. Armed'
    BY <1>1, <1>2, <1>3 DEF run_inner, Goto, Armed, Quiescent, InStation
  <2>4. Prepared'
    BY <1>2, <1>3 DEF run_inner, Goto, Prepared, Radios
  <2>5. role' \in Roles /\ joined' \in BOOLEAN
    BY <1>2, <1>3 DEF run_inner
  <2> QED BY <2>1, <2>2, <2>3, <2>4, <2>5 DEF RadioInv
<1>4. CASE Configure
  <2>1. radio' \in Radios /\ radio'.receiver = radio.receiver
    <3>1. CASE role.kind \in {"sta", "ap"}
      BY <1>2, <1>4, <3>1, SetConfigCall DEF Configure
    <3>2. CASE role.kind \notin {"sta", "ap"}
      BY <1>2, <1>4, <3>2 DEF Configure
    <3> QED BY <3>1, <3>2
  <2>2. step = "configure" /\ step' = "arm" /\ UNCHANGED <<chip, role, joined>>
    BY <1>4 DEF Configure, Goto
  <2>3. Quiescent'
    BY <1>1, <1>2, <2>2 DEF Quiescent, InStation, Idle
  <2>4. Armed'
    BY <1>1, <1>2, <2>2 DEF Armed, Quiescent, InStation
  <2>5. Prepared'
    BY <1>2, <2>1, <2>2 DEF Prepared
  <2> QED BY <1>2, <2>1, <2>2, <2>3, <2>4, <2>5 DEF RadioInv
<1>5. CASE set_csi
  <2>1. /\ radio' \in Radios /\ radio'.receiver = radio.receiver
        /\ role.rx /\ role.kind = "espnow" => radio'.armed = TRUE
    <3>1. CASE role.rx /\ role.kind \notin {"sniffer", "ap"}
      BY <1>2, <1>5, <3>1, SetCsiCall DEF set_csi
    <3>2. CASE ~(role.rx /\ role.kind \notin {"sniffer", "ap"})
      BY <1>2, <1>5, <3>2 DEF set_csi
    <3> QED BY <3>1, <3>2
  <2>2. step = "arm" /\ step' = "enter" /\ UNCHANGED <<chip, role, joined>>
    BY <1>5 DEF set_csi, Goto
  <2>3. Quiescent'
    BY <1>1, <1>2, <2>2 DEF Quiescent, InStation, Idle
  <2>4. Armed'
    BY <1>1, <1>2, <2>1, <2>2 DEF Armed, Quiescent, InStation
  <2>5. Prepared'
    BY <1>2, <2>1, <2>2 DEF Prepared
  <2> QED BY <1>2, <2>1, <2>2, <2>3, <2>4, <2>5 DEF RadioInv
<1>6. CASE Enter
  <2>1. step = "enter" /\ UNCHANGED <<chip, role, joined>>
    BY <1>6 DEF Enter
  <2>2. conn = "off" /\ joined = FALSE
    BY <1>2, <2>1 DEF Quiescent, InStation
  <2>3. CASE role.kind = "emitter"
    <3>1. step' = "loop" /\ radio' = Bringup(radio)
      BY <1>6, <2>3 DEF Enter, Goto
    <3>2. radio' \in Radios /\ radio'.receiver = radio.receiver
          /\ (IF chip = "classic" THEN "peer" ELSE "interface") \in radio'.forced
      BY <1>2, <2>3, <3>1, BringupForces
    <3>3. Quiescent' /\ Armed'
      BY <1>1, <1>2, <2>1, <2>2, <2>3, <3>1 DEF Quiescent, Armed, InStation, Idle
    <3>4. Prepared'
      BY <1>2, <2>1, <2>3, <3>1, <3>2 DEF Prepared
    <3> QED BY <1>2, <2>1, <3>2, <3>3, <3>4 DEF RadioInv
  <2>4. CASE role.kind = "sniffer"
    <3>1. step' = "loop"
      BY <1>6, <2>4 DEF Enter, Goto
    <3>2. /\ radio' \in Radios /\ radio'.receiver = radio.receiver
          /\ role.rx => radio'.armed = TRUE
      <4>1. radio' = IF role.rx THEN SetCsi(radio) ELSE radio
        BY <1>6, <2>4 DEF Enter
      <4> QED BY <1>2, <4>1, SetCsiCall
    <3>3. Quiescent' /\ Armed'
      BY <1>1, <1>2, <2>1, <2>2, <2>4, <3>1, <3>2 DEF Quiescent, Armed, InStation, Idle
    <3>4. Prepared'
      BY <1>2, <2>1, <2>4, <3>1, <3>2 DEF Prepared
    <3> QED BY <1>2, <2>1, <3>2, <3>3, <3>4 DEF RadioInv
  <2>5. CASE role.kind \in {"ap", "sta", "espnow", "rejected"}
    <3>1. /\ radio' = radio
          /\ role.kind = "ap" => step' = "settle"
          /\ role.kind = "sta" => step' = "loop"
          /\ role.kind = "espnow" => step' = "suspend"
          /\ role.kind = "rejected" => step' = "leave"
      BY <1>6, <2>5 DEF Enter, Goto
    <3>2. Quiescent' /\ Armed'
      BY <1>1, <1>2, <2>1, <2>2, <2>5, <3>1 DEF Quiescent, Armed, InStation, Idle
    <3>3. Prepared'
      BY <1>2, <2>1, <2>5, <3>1 DEF Prepared
    <3> QED BY <1>2, <2>1, <3>1, <3>2, <3>3 DEF RadioInv
  <2>6. role.kind \in {"emitter", "sniffer", "ap", "sta", "espnow", "rejected"}
    BY <1>2 DEF Roles
  <2> QED BY <2>3, <2>4, <2>5, <2>6
<1>7. CASE Suspend \/ Resume
  <2>1. /\ role.kind = "espnow" /\ UNCHANGED <<chip, role, joined>>
        /\ \/ step \in {"suspend", "loop"} /\ step' = "resume" /\ Suspend
           \/ step = "resume" /\ step' = "loop" /\ Resume
    BY <1>2, <1>7 DEF Suspend, Resume, Goto, Prepared
  <2>2. radio' \in Radios /\ radio'.armed = radio.armed
    BY <1>2, <1>7 DEF Suspend, Resume, Radios
  <2>3. Quiescent' /\ Armed'
    BY <1>1, <1>2, <2>1, <2>2 DEF Quiescent, Armed, InStation, Idle
  <2>4. Prepared'
    <3>1. CASE Suspend
      BY <1>2, <2>1, <3>1 DEF Suspend, Prepared, Radios, Goto
    <3>2. CASE Resume
      BY <1>2, <2>1, <3>2 DEF Resume, Prepared, Radios, Goto
    <3> QED BY <1>7, <3>1, <3>2
  <2> QED BY <1>2, <2>1, <2>2, <2>3, <2>4 DEF RadioInv
<1>8. CASE run_ap \/ ap_station_monitor
  <2>1. /\ radio' \in Radios /\ radio'.receiver = radio.receiver
        /\ role.rx => radio'.armed = TRUE
    <3>1. radio' = IF role.rx THEN SetCsi(radio) ELSE radio
      BY <1>8 DEF run_ap, ap_station_monitor
    <3> QED BY <1>2, <3>1, SetCsiCall
  <2>2. /\ role.kind = "ap" /\ step' = "loop" /\ step \in {"settle", "loop"}
        /\ joined' = FALSE /\ UNCHANGED <<chip, role>>
    <3>1. CASE run_ap
      BY <1>2, <3>1 DEF run_ap, Goto, Prepared, Quiescent
    <3>2. CASE ap_station_monitor
      <4>1. joined = TRUE
        BY <1>2, <3>2 DEF ap_station_monitor
      <4> QED BY <1>2, <3>2, <4>1 DEF ap_station_monitor, Quiescent
    <3> QED BY <1>8, <3>1, <3>2
  <2>3. conn = "off"
    BY <1>2, <2>2 DEF Quiescent, InStation
  <2>4. Quiescent' /\ Armed'
    BY <1>1, <1>2, <2>1, <2>2, <2>3 DEF Quiescent, Armed, InStation, Idle
  <2>5. Prepared'
    BY <1>2, <2>1, <2>2 DEF Prepared
  <2> QED BY <1>2, <2>1, <2>2, <2>4, <2>5 DEF RadioInv
<1>9. CASE StationJoins
  <2>1. /\ radio' \in Radios /\ radio'.receiver = radio.receiver
        /\ role.kind = "ap" /\ step = "loop" /\ joined' = TRUE
        /\ UNCHANGED <<chip, step, role>>
    BY <1>2, <1>9 DEF StationJoins, MayLoseCsi, Radios
  <2>2. conn = "off"
    BY <1>2, <2>1 DEF Quiescent, InStation
  <2>3. Quiescent' /\ Armed'
    BY <1>1, <1>2, <2>1, <2>2 DEF Quiescent, Armed, InStation, Idle
  <2>4. Prepared'
    BY <1>2, <2>1 DEF Prepared
  <2> QED BY <1>2, <2>1, <2>3, <2>4 DEF RadioInv
<1>10. CASE Leave
  <2>1. step = "leave" /\ step' = "idle" /\ UNCHANGED <<chip, role, radio, joined>>
    BY <1>10 DEF Leave, Goto
  <2>2. Quiescent' /\ Armed'
    BY <1>1, <1>2, <2>1 DEF Quiescent, Armed, InStation, Idle
  <2>3. Prepared'
    BY <1>2, <2>1 DEF Prepared
  <2> QED BY <1>2, <2>1, <2>2, <2>3 DEF RadioInv
<1> QED BY <1>3, <1>4, <1>5, <1>6, <1>7, <1>8, <1>9, <1>10 DEF Run, RunStep

LEMMA StationRadioStep ==
    ASSUME RadioInv, LinkTypes, Connection \/ AssociateLate
    PROVE  RadioInv'
<1>1. radio \in Radios /\ Quiescent /\ Armed
  BY DEF RadioInv
<1>2. conn # "off" => InStation
  BY <1>1 DEF Quiescent
<1>3. CASE Cycle \/ ConnectTimesOut
  <2>1. radio' = radio /\ conn' \in Idle /\ conn \in Idle /\ conn # "off" /\ conn' # "up"
        /\ UNCHANGED <<chip, step, role, joined, dhcp, flood>>
    BY <1>3 DEF Cycle, ConnectTimesOut, Idle, radioVars
  <2> QED BY <1>1, <1>2, <2>1, StationRadio DEF Quiescent, Idle
<1>4. CASE run_sta_connect
  <2>1. radio' = radio /\ conn' \in Idle /\ conn \in Idle /\ InStation /\ conn' # "up"
        /\ UNCHANGED <<chip, step, role, joined, dhcp, flood>>
    BY <1>4 DEF run_sta_connect, Idle, radioVars
  <2> QED BY <1>1, <1>2, <2>1, StationRadio DEF Quiescent, Idle
<1>5. CASE Attempts
  <2>1. radio' = radio /\ conn' # "up" /\ conn # "off"
        /\ UNCHANGED <<chip, step, role, joined, dhcp, flood>>
    BY <1>5 DEF Attempts, Connect, ConnectAndHang, radioVars
  <2>2. conn' \in Idle => conn \in Idle
    BY <1>5 DEF Attempts, Connect, ConnectAndHang, Idle
  <2> QED BY <1>1, <1>2, <2>1, <2>2, StationRadio DEF Quiescent
<1>6. CASE Associate
  <2>1. conn # "off" /\ conn' = "up" /\ UNCHANGED <<chip, step, role, joined>>
    BY <1>6 DEF Associate
  <2>2. radio' = SetCsi(radio) \/ (~role.rx /\ radio' \in MayLoseCsi(radio))
    BY <1>6 DEF Associate
  <2>3. /\ radio' \in Radios /\ radio'.receiver = radio.receiver
        /\ radio'.forced = radio.forced /\ (role.rx => radio'.armed = TRUE)
    BY <1>1, <2>2, SetCsiCall DEF MayLoseCsi, Radios
  <2>4. conn' \notin Idle
    BY <2>1 DEF Idle
  <2> QED BY <1>1, <1>2, <2>1, <2>3, <2>4, StationRadio
<1>7. CASE ConnectFails
  <2>1. radio' = radio /\ conn' # "up" /\ conn # "off"
        /\ (conn' \in Idle => conn \in Idle)
        /\ UNCHANGED <<chip, step, role, joined, dhcp, flood>>
    BY <1>7 DEF ConnectFails, radioVars, Idle
  <2> QED BY <1>1, <1>2, <2>1, StationRadio DEF Quiescent
<1>8. CASE disconnect_async
  <2>1. /\ radio' = SetCsi(radio) /\ conn' # "up" /\ conn # "off" /\ conn \in Idle
        /\ UNCHANGED <<chip, step, role, joined, dhcp, flood>>
    BY <1>8 DEF disconnect_async, Idle
  <2> QED BY <1>1, <1>2, <2>1, SetCsiCall, StationRadio DEF Quiescent
<1>9. CASE AssociateLate
  <2>1. /\ radio' \in MayLoseCsi(radio) /\ conn' # "up" /\ conn # "off" /\ conn \in Idle
        /\ UNCHANGED <<chip, step, role, joined, conn, dhcp, flood>>
    BY <1>9 DEF AssociateLate, Idle
  <2>2. /\ radio' \in Radios /\ radio'.receiver = radio.receiver
        /\ radio'.forced = radio.forced
    BY <1>1, <2>1 DEF MayLoseCsi, Radios
  <2> QED BY <1>1, <1>2, <2>1, <2>2, StationRadio DEF Quiescent
<1> QED BY <1>3, <1>4, <1>5, <1>6, <1>7, <1>8, <1>9 DEF Connection

LEMMA RadioStep == ASSUME RadioInv, LinkTypes, [Next]_vars PROVE RadioInv'
<1>1. CASE Run
  BY <1>1, RunRadio
<1>2. CASE Connection \/ AssociateLate
  BY <1>2, StationRadioStep
<1>3. CASE LinkLost \/ run_dhcp_client \/ run_icmp_flood \/ LeaseExpires \/ UNCHANGED vars
           \/ \E g \in Gateways : Lease(g)
  <2>1. UNCHANGED <<radioVars, conn>>
    BY <1>3 DEF LinkLost, run_dhcp_client, run_icmp_flood, LeaseExpires, Lease, LinkSeen,
       Publish, LinkMissed, TakeInfo, Tick, PassBegins, SendFrame, PassEnds, vars, linkVars
  <2>2. net'.link = "up" => net.link = "up"
    <3>1. CASE LinkLost
      BY <3>1, LinkDownType DEF LinkLost
    <3>2. CASE LeaseExpires \/ \E g \in Gateways : Lease(g)
      BY <3>2 DEF LeaseExpires, Lease, LinkTypes
    <3>3. CASE Publish
      BY <3>3 DEF Publish, LinkTypes
    <3>4. CASE LinkSeen \/ LinkMissed \/ run_icmp_flood \/ UNCHANGED vars
      BY <3>4 DEF LinkSeen, LinkMissed, run_icmp_flood, TakeInfo, Tick, PassBegins,
         SendFrame, PassEnds, vars, linkVars
    <3> QED BY <1>3, <3>1, <3>2, <3>3, <3>4 DEF run_dhcp_client
  <2>3. conn \in Idle => dhcp' = "off" /\ flood'.at = "off"
    <3>1. RadioInv => (conn \in Idle => dhcp = "off" /\ flood.at = "off")
      BY DEF RadioInv, Quiescent
    <3>2. CASE LinkLost \/ LeaseExpires \/ UNCHANGED vars \/ \E g \in Gateways : Lease(g)
      BY <3>1, <3>2 DEF LinkLost, LeaseExpires, Lease, vars, linkVars
    <3>3. CASE run_dhcp_client
      BY <3>1, <3>3 DEF run_dhcp_client, LinkSeen, Publish, LinkMissed
    <3>4. CASE run_icmp_flood
      BY <3>1, <3>4 DEF run_icmp_flood, TakeInfo, Tick, PassBegins, SendFrame, PassEnds
    <3> QED BY <1>3, <3>2, <3>3, <3>4
  <2>4. UNCHANGED <<chip, step, role, joined, radio, conn>>
    BY <2>1 DEF radioVars
  <2>5. /\ radio \in Radios
        /\ ~InStation => conn = "off"
        /\ role.rx /\ conn = "up" /\ net.link = "up" => radio.armed = TRUE
    BY DEF RadioInv, Quiescent, Armed
  <2> QED BY <2>2, <2>3, <2>4, <2>5, StationRadio
<1>4. CASE Stop
  <2>1. /\ step' = "leave" /\ joined' = FALSE /\ UNCHANGED <<chip, role, radio>>
        /\ conn' = "off" /\ dhcp' = "off" /\ flood'.at = "off"
    BY <1>4 DEF Stop, StopRole, Goto, NoFlood
  <2>2. Quiescent' /\ Armed'
    BY <2>1 DEF Quiescent, Armed
  <2>3. Prepared'
    BY <2>1 DEF RadioInv, Prepared
  <2> QED BY <2>1, <2>2, <2>3 DEF RadioInv
<1> QED BY <1>1, <1>2, <1>3, <1>4 DEF Next

LEMMA Inductive == Spec => []IInv
<1>1. Init => IInv
  BY InitRadio, InitLink DEF IInv
<1>2. IInv /\ [Next]_vars => IInv'
  BY RadioStep, LinkStep DEF IInv, RadioInv
<1> QED BY <1>1, <1>2, PTL DEF Spec

\* The places, and what RadioInv and LinkTypes leave out.
PlaceTypes ==
    /\ chip \in Chips /\ conn \in Places
    /\ step \in {"idle", "configure", "arm", "enter", "suspend", "resume", "settle",
                 "loop", "leave"}
    /\ dhcp \in {"off", "link", "config", "watch"}

LEMMA PlaceStep == ASSUME RadioInv, PlaceTypes, [Next]_vars PROVE PlaceTypes'
<1> USE DEF PlaceTypes, Places
<1>1. CASE Run
  <2>1. UNCHANGED <<conn, dhcp>>
    BY <1>1 DEF Run
  <2>2. ASSUME NEW ro \in Roles, run_inner(ro) PROVE PlaceTypes'
    BY <2>1, <2>2 DEF run_inner, Goto
  <2>3. CASE Enter
    <3>1. /\ role.kind = "emitter" => step' = "loop"
          /\ role.kind = "sniffer" => step' = "loop"
          /\ role.kind = "ap" => step' = "settle"
          /\ role.kind = "sta" => step' = "loop"
          /\ role.kind = "espnow" => step' = "suspend"
          /\ role.kind = "rejected" => step' = "leave"
      BY <2>3 DEF Enter, Goto
    <3>2. role.kind \in {"emitter", "sniffer", "ap", "sta", "espnow", "rejected"}
      BY DEF RadioInv, Roles
    <3> QED BY <2>1, <2>3, <3>1, <3>2 DEF Enter
  <2>4. CASE Configure \/ set_csi \/ Suspend \/ Resume \/ run_ap \/ Leave
    BY <2>1, <2>4 DEF Configure, set_csi, Suspend, Resume, run_ap, Leave, Goto
  <2>5. CASE StationJoins \/ ap_station_monitor
    BY <2>1, <2>5 DEF StationJoins, ap_station_monitor
  <2> QED BY <1>1, <2>2, <2>3, <2>4, <2>5 DEF Run, RunStep
<1>2. CASE Connection
  BY <1>2 DEF Connection, run_sta_connect, Attempts, Connect, ConnectAndHang, Associate,
     ConnectFails, ConnectTimesOut, disconnect_async, Cycle, radioVars
<1>3. CASE run_dhcp_client \/ run_icmp_flood
  BY <1>3 DEF run_dhcp_client, LinkSeen, Publish, LinkMissed, run_icmp_flood, TakeInfo,
     Tick, PassBegins, SendFrame, PassEnds, radioVars
<1>4. CASE AssociateLate \/ LinkLost \/ LeaseExpires \/ (\E g \in Gateways : Lease(g))
           \/ UNCHANGED vars
  BY <1>4 DEF AssociateLate, LinkLost, LeaseExpires, Lease, vars, linkVars, radioVars
<1>5. CASE Stop
  BY <1>5 DEF Stop, StopRole, Goto
<1> QED BY <1>1, <1>2, <1>3, <1>4, <1>5 DEF Next

\* Every variable keeps its type: the flood's debt stays counted, its budget within a
\* burst, and its pace a number.
THEOREM LinkTypesHold == Spec => []TypeOK
<1>1. Init => PlaceTypes
  BY DEF Init, RadioInit, LinkInit, PlaceTypes, Places
<1>2. IInv /\ PlaceTypes /\ [Next]_vars => PlaceTypes'
  BY PlaceStep DEF IInv
<1>3. IInv /\ PlaceTypes => TypeOK
  BY DEF IInv, RadioInv, Radios, LinkTypes, PlaceTypes, TypeOK
<1> QED BY <1>1, <1>2, <1>3, Inductive, PTL DEF Spec

\* The flood is never more than two bursts and a frame ahead of its rate, for
\* every burst and every stall.
THEOREM FloodKeepsPace == Spec => []StallsAreForgiven
<1>1. IInv => StallsAreForgiven
  <2> SUFFICES ASSUME IInv PROVE StallsAreForgiven
    OBVIOUS
  <2>1. PICK d \in 0..MaxDue, b \in 0..Burst : d = flood.due /\ b = flood.budget
    BY DEF IInv, LinkTypes
  <2>2. level \in Nat /\ Burst \in Nat /\ flood.at \in {"off", "info", "wait", "pass"}
    BY LinkAssumption DEF IInv, LinkTypes
  <2>3. level = 0 \/ level + Least(d, Burst + 1) <= 2 * Burst + 1
        \/ level + d <= 2 * Burst + 1 \/ level + b <= Burst
    BY <2>1, <2>2 DEF IInv, Paced
  <2>4. level <= 2 * Burst + 1
    BY <2>1, <2>2, <2>3 DEF Least
  <2> QED BY <2>4 DEF StallsAreForgiven
<1> QED BY <1>1, Inductive, PTL

\* The flood goes to the gateway of the lease, for any gateways, unless a new one
\* is on its way or the lease changed between two looks at the link.
THEOREM FloodFollowsLease == Spec => []TargetFollowsLease
<1>1. IInv => TargetFollowsLease
  BY LinkAssumption, SMT DEF IInv, LinkTypes, Followed, TargetFollowsLease
<1> QED BY <1>1, Inductive, PTL

\* A collecting role has the CSI callback, after any sequence of runs, restarts of
\* the interface and associations.
THEOREM CsiStaysArmed == Spec => []CsiArmedWhileCollecting
<1>1. IInv => CsiArmedWhileCollecting
  BY SMT DEF IInv, RadioInv, Armed, CsiArmedWhileCollecting, Capturing
<1> QED BY <1>1, Inductive, PTL

\* An emitter's format is forced whatever an earlier run left in the driver.
THEOREM FormatIsForced == Spec => []ForcedFormatOnAir
<1>1. IInv => ForcedFormatOnAir
  BY DEF IInv, RadioInv, Prepared, ForcedFormatOnAir
<1> QED BY <1>1, Inductive, PTL

\* ESP-NOW frames reach the pool in an ESP-NOW role, and nobody in any other.
THEOREM ReceiverIsPlaced == Spec => []ReceiverInPlace
<1>1. IInv => ReceiverInPlace
  BY DEF IInv, RadioInv, Prepared, ReceiverInPlace
<1> QED BY <1>1, Inductive, PTL
==============================================================================
