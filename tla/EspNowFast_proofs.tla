--------------------------- MODULE EspNowFast_proofs ---------------------------
\* Theorems about EspNowFast, for any nodes, pool capacity and health period.
EXTENDS EspNowFast, SequenceTheorems, TLAPS

NodeType ==
    [role : {"off", "collector", "source"}, at : Places, tx : BOOLEAN,
     peer : Nodes \cup {NoNode}, partner : Nodes \cup {NoNode}, known : BOOLEAN,
     health : 0..(HealthPeriod - 1)]

PoolType == pool \in [Nodes -> Seq(Frames)] /\ \A n \in Nodes : Len(pool[n]) <= PoolCap

\* A source that addresses its collector knows an address.
PartnerKnown == \A n \in Nodes : node[n].at \in {"lock", "hello"} => node[n].partner \in Nodes

(***************************************************************************)
(* A hello in a pool was sent to the pool's owner; a collector that paired *)
(* by itself took its source from such a hello.                            *)
(***************************************************************************)
HelloInPool ==
    \A n \in Nodes : \A i \in 1..Len(pool[n]) :
        pool[n][i].magic = "peripheral" => <<pool[n][i].src, n>> \in greeted

FastInv == TypeOK /\ PartnerKnown /\ HelloInPool /\ SettledWasGreeted

-----------------------------------------------------------------------------
\* What an arrival does to the pools: their types hold, and the hellos in them
\* are those that were there or the frame that arrived.
LEMMA ArriveKeeps ==
    ASSUME PoolType, NEW frame \in Frames, NEW receivers, Arrive(frame, receivers)
    PROVE  /\ PoolType'
           /\ \A n \in Nodes : \A i \in 1..Len(pool'[n]) :
                 \/ i \in 1..Len(pool[n]) /\ pool'[n][i] = pool[n][i]
                 \/ pool'[n][i] = frame /\ n \in receivers
<1> USE FastAssumption DEF PoolType
<1>1. ASSUME NEW n \in Nodes
      PROVE  /\ pool'[n] \in Seq(Frames) /\ Len(pool'[n]) <= PoolCap
             /\ \A i \in 1..Len(pool'[n]) :
                   \/ i \in 1..Len(pool[n]) /\ pool'[n][i] = pool[n][i]
                   \/ pool'[n][i] = frame /\ n \in receivers
  <2>1. CASE n \in receivers /\ Len(pool[n]) < PoolCap
    <3>1. pool'[n] = Append(pool[n], frame) /\ pool[n] \in Seq(Frames)
      BY <2>1 DEF Arrive
    <3>2. QED
      BY <2>1, <3>1, AppendProperties
  <2>2. CASE ~(n \in receivers /\ Len(pool[n]) < PoolCap)
    BY <2>2 DEF Arrive
  <2>3. QED
    BY <2>1, <2>2
<1>2. pool' \in [Nodes -> Seq(Frames)]
  BY <1>1 DEF Arrive
<1>3. QED
  BY <1>1, <1>2

\* Taking the head of a pool keeps its type and adds nothing to it.
LEMMA TailKeeps ==
    ASSUME PoolType, NEW n \in Nodes, pool[n] # << >>,
           pool' = [pool EXCEPT ![n] = Tail(@)]
    PROVE  /\ PoolType'
           /\ Head(pool[n]) \in Frames /\ 1 \in 1..Len(pool[n])
           /\ Head(pool[n]) = pool[n][1]
           /\ \A m \in Nodes : \A i \in 1..Len(pool'[m]) :
                 \E j \in 1..Len(pool[m]) : pool'[m][i] = pool[m][j]
<1> USE DEF PoolType
<1>1. pool[n] \in Seq(Frames) /\ Len(pool[n]) \in Nat
  OBVIOUS
<1>2. /\ Tail(pool[n]) \in Seq(Frames) /\ Len(Tail(pool[n])) = Len(pool[n]) - 1
      /\ \A i \in 1..Len(Tail(pool[n])) : Tail(pool[n])[i] = pool[n][i + 1]
      /\ Head(pool[n]) \in Frames /\ Len(pool[n]) >= 1 /\ Head(pool[n]) = pool[n][1]
  BY <1>1, HeadTailProperties
<1>3. pool' \in [Nodes -> Seq(Frames)]
  BY <1>2
<1>4. \A m \in Nodes : Len(pool'[m]) <= PoolCap
  BY <1>1, <1>2, FastAssumption
<1>5. ASSUME NEW m \in Nodes, NEW i \in 1..Len(pool'[m])
      PROVE  \E j \in 1..Len(pool[m]) : pool'[m][i] = pool[m][j]
  <2>1. CASE m = n
    <3>1. i + 1 \in 1..Len(pool[m]) /\ pool'[m][i] = pool[m][i + 1]
      BY <1>1, <1>2, <1>5, <2>1
    <3>2. QED
      BY <3>1
  <2>2. CASE m # n
    BY <2>2
  <2>3. QED
    BY <2>1, <2>2
<1>6. QED
  BY <1>2, <1>3, <1>4, <1>5

\* Hellos stay answered for when the pools gain nothing else.
LEMMA HelloKept ==
    ASSUME HelloInPool, greeted \subseteq greeted',
           \A n \in Nodes : \A i \in 1..Len(pool'[n]) :
              \/ \E j \in 1..Len(pool[n]) : pool'[n][i] = pool[n][j]
              \/ pool'[n][i].magic # "peripheral"
              \/ <<pool'[n][i].src, n>> \in greeted'
    PROVE  HelloInPool'
  BY DEF HelloInPool

\* So an arrival keeps them when a hello that reaches a node was noted.
LEMMA ArriveHello ==
    ASSUME FastInv, NEW frame \in Frames, NEW receivers, Arrive(frame, receivers),
           greeted \subseteq greeted',
           frame.magic = "peripheral" => \A n \in receivers : <<frame.src, n>> \in greeted'
    PROVE  PoolType' /\ HelloInPool'
<1>1. PoolType
  BY DEF FastInv, TypeOK, PoolType
<1>2. QED
  BY <1>1, ArriveKeeps DEF FastInv, HelloInPool

\* As the head of a pool is read.
LEMMA TailHello ==
    ASSUME FastInv, NEW n \in Nodes, pool[n] # << >>, UNCHANGED greeted,
           pool' = [pool EXCEPT ![n] = Tail(@)]
    PROVE  /\ PoolType' /\ HelloInPool' /\ Head(pool[n]) \in Frames
           /\ Head(pool[n]).magic = "peripheral" => <<Head(pool[n]).src, n>> \in greeted
<1>1. PoolType
  BY DEF FastInv, TypeOK, PoolType
<1>2. /\ PoolType' /\ Head(pool[n]) \in Frames
      /\ \A m \in Nodes : \A i \in 1..Len(pool'[m]) :
            \E j \in 1..Len(pool[m]) : pool'[m][i] = pool[m][j]
  BY <1>1, TailKeeps
<1>3. Head(pool[n]).magic = "peripheral" => <<Head(pool[n]).src, n>> \in greeted
  BY <1>1, TailKeeps DEF FastInv, HelloInPool
<1>4. QED
  BY <1>2, <1>3, HelloKept DEF FastInv

-----------------------------------------------------------------------------
\* The updates the actions make of a node's record, and what they leave alone.
Same(r, q) == q \in NodeType /\ q.role = r.role /\ q.peer = r.peer

LEMMA SetAt ==
    ASSUME NEW r \in NodeType, NEW at \in Places
    PROVE  LET q == [r EXCEPT !.at = at]
           IN  Same(r, q) /\ q.at = at /\ q.partner = r.partner
  BY DEF NodeType, Same

LEMMA SetKnown ==
    ASSUME NEW r \in NodeType, NEW known \in BOOLEAN
    PROVE  LET q == [r EXCEPT !.known = known]
           IN  Same(r, q) /\ q.at = r.at /\ q.partner = r.partner
  BY DEF NodeType, Same

LEMMA SetPeer ==
    ASSUME NEW r \in NodeType, NEW at \in Places, NEW known \in BOOLEAN
    PROVE  LET q == [r EXCEPT !.known = known, !.at = at]
           IN  Same(r, q) /\ q.at = at /\ q.partner = r.partner
  BY DEF NodeType, Same

-----------------------------------------------------------------------------
\* A step gives one node a new record r; these are the conditions on r.
Allowed(n, r) ==
    /\ r \in NodeType
    /\ r.at \in {"lock", "hello"} => r.partner \in Nodes
    /\ r.role = "collector" /\ r.at = "settled" /\ r.peer = NoNode
          => <<r.partner, n>> \in greeted'

LEMMA NodeMove ==
    ASSUME FastInv, NEW n \in Nodes, NEW r, Allowed(n, r), node' = [node EXCEPT ![n] = r],
           PoolType', HelloInPool', greeted \subseteq greeted',
           greeted' \subseteq Nodes \X Nodes
    PROVE  FastInv'
<1>1. node \in [Nodes -> NodeType]
  BY DEF FastInv, TypeOK, NodeType
<1>2. node' \in [Nodes -> NodeType] /\ node'[n] = r
      /\ \A m \in Nodes \ {n} : node'[m] = node[m]
  BY <1>1 DEF Allowed
<1>3. TypeOK'
  BY <1>2 DEF TypeOK, NodeType, PoolType
<1>4. PartnerKnown'
  BY <1>2 DEF PartnerKnown, Allowed, FastInv
<1>5. SettledWasGreeted'
  BY <1>2 DEF SettledWasGreeted, Allowed, FastInv, At, Automatic
<1>6. QED
  BY <1>3, <1>4, <1>5 DEF FastInv

\* The fields of a node and what an update of them leaves.
LEMMA NodeFields ==
    ASSUME FastInv, NEW n \in Nodes
    PROVE  /\ node[n] \in NodeType
           /\ node[n].at \in {"lock", "hello"} => node[n].partner \in Nodes
           /\ node[n].role = "collector" /\ node[n].at = "settled" /\ node[n].peer = NoNode
                 => <<node[n].partner, n>> \in greeted
           /\ greeted \subseteq Nodes \X Nodes
           /\ PoolType
  BY DEF FastInv, TypeOK, NodeType, PoolType, PartnerKnown, SettledWasGreeted, At, Automatic

LEMMA PoolKept == ASSUME FastInv, UNCHANGED <<pool, greeted>> PROVE PoolType' /\ HelloInPool'
  BY DEF FastInv, TypeOK, PoolType, HelloInPool

LEMMA FastInit == Init => FastInv
<1>1. SUFFICES ASSUME Init PROVE FastInv
  OBVIOUS
<1>2. Off \in NodeType
  BY FastAssumption DEF Off, NodeType, Places
<1>3. node \in [Nodes -> NodeType] /\ \A n \in Nodes : node[n].at = "off"
  BY <1>1, <1>2 DEF Init, Off
<1>4. PoolType /\ \A n \in Nodes : Len(pool[n]) = 0
  BY <1>1, FastAssumption DEF Init, PoolType
<1>5. TypeOK
  BY <1>1, <1>3, <1>4 DEF TypeOK, NodeType, PoolType, Init
<1>6. PartnerKnown /\ HelloInPool /\ SettledWasGreeted
  BY <1>3, <1>4 DEF PartnerKnown, HelloInPool, SettledWasGreeted, At
<1>7. QED
  BY <1>5, <1>6 DEF FastInv

\* Starting and stopping a run, and what the driver's table forgets.
LEMMA RunsKeep ==
    ASSUME FastInv, NEW n \in Nodes, Start(n) \/ Stop(n) \/ Forget(n)
    PROVE  FastInv'
<1> USE FastAssumption
<1>1. Off \in NodeType
  BY DEF Off, NodeType, Places
<1>2. ASSUME NEW peer \in (Nodes \ {n}) \cup {NoNode}, NEW tx \in BOOLEAN,
             run_esp_now_fast_collector(n, peer, tx)
      PROVE  FastInv'
  <2> DEFINE r == [Off EXCEPT !.role = "collector", !.tx = tx, !.peer = peer,
                              !.partner = peer,
                              !.at = IF peer = NoNode THEN "beacon" ELSE "settled"]
  <2>1. node' = [node EXCEPT ![n] = r] /\ UNCHANGED <<pool, greeted>>
    BY <1>2 DEF run_esp_now_fast_collector
  <2>2. Allowed(n, r)
    BY <1>1 DEF Allowed, NodeType, Off, Places
  <2>3. QED
    BY <2>1, <2>2, NodeMove, NodeFields, PoolKept
<1>3. ASSUME NEW peer \in (Nodes \ {n}) \cup {NoNode}, run_esp_now_fast_source(n, peer)
      PROVE  FastInv'
  <2> DEFINE r == [Off EXCEPT !.role = "source", !.peer = peer, !.partner = peer,
                              !.at = IF peer = NoNode THEN "discover" ELSE "lock"]
  <2>1. node' = [node EXCEPT ![n] = r] /\ UNCHANGED <<pool, greeted>>
    BY <1>3 DEF run_esp_now_fast_source
  <2>2. Allowed(n, r)
    BY <1>1 DEF Allowed, NodeType, Off, Places
  <2>3. QED
    BY <2>1, <2>2, NodeMove, NodeFields, PoolKept
<1>4. CASE Stop(n)
  <2>1. node' = [node EXCEPT ![n] = Off] /\ UNCHANGED <<pool, greeted>>
    BY <1>4 DEF Stop
  <2>2. Allowed(n, Off)
    BY <1>1 DEF Allowed, Off
  <2>3. QED
    BY <2>1, <2>2, NodeMove, NodeFields, PoolKept
<1>5. CASE Forget(n)
  <2> DEFINE r == [node[n] EXCEPT !.known = FALSE]
  <2>1. node' = [node EXCEPT ![n] = r] /\ UNCHANGED <<pool, greeted>>
    BY <1>5, NodeFields DEF Forget
  <2>2. node[n] \in NodeType
    BY NodeFields
  <2>3. Same(node[n], r) /\ r.at = node[n].at /\ r.partner = node[n].partner
    BY <2>2, SetKnown
  <2> HIDE DEF r
  <2>4. Allowed(n, r)
    BY <2>1, <2>3, NodeFields DEF Allowed, Same
  <2>5. QED
    BY <2>1, <2>4, NodeMove, NodeFields, PoolKept
<1>6. QED
  BY <1>2, <1>3, <1>4, <1>5 DEF Start

\* A node that only moves to a place where nothing is asked of it.
LEMMA MoveAllowed ==
    ASSUME FastInv, NEW n \in Nodes, NEW at \in Places \ {"settled", "lock"},
           at = "hello" => node[n].at = "lock"
    PROVE  Allowed(n, [node[n] EXCEPT !.at = at])
<1> DEFINE r == [node[n] EXCEPT !.at = at]
<1>1. node[n] \in NodeType /\ (node[n].at = "lock" => node[n].partner \in Nodes)
  BY NodeFields
<1>2. Same(node[n], r) /\ r.at = at /\ r.partner = node[n].partner
  BY <1>1, SetAt
<1> HIDE DEF r
<1>3. Allowed(n, r)
  BY <1>1, <1>2 DEF Allowed, Same
<1>4. QED
  BY <1>3 DEF r

\* A frame as one node sends it, which is no hello.
LEMMA FrameType ==
    ASSUME NEW n \in Nodes
    PROVE  Frame(n, "central") \in Frames /\ Frame(n, "central").magic # "peripheral"
  BY DEF Frame, Frames, Magic

LEMMA CollectorKeeps == ASSUME FastInv, NEW n \in Nodes, Collector(n) PROVE FastInv'
<1>1. ASSUME NEW receivers \in SUBSET (Nodes \ {n}), Beacon(n, receivers) PROVE FastInv'
  <2>1. node' = [node EXCEPT ![n] = [node[n] EXCEPT !.at = "listen"]] /\ UNCHANGED greeted
    BY <1>1, NodeFields DEF Beacon, Goto
  <2>2. PoolType' /\ HelloInPool'
    BY <1>1, <2>1, ArriveHello, FrameType, PoolKept DEF Beacon
  <2>3. Allowed(n, [node[n] EXCEPT !.at = "listen"])
    BY MoveAllowed DEF Places
  <2>4. QED
    BY <2>1, <2>2, <2>3, NodeMove, NodeFields
<1>2. CASE BeaconDue(n)
  <2>1. /\ node' = [node EXCEPT ![n] = [node[n] EXCEPT !.at = "beacon"]]
        /\ UNCHANGED <<pool, greeted>>
    BY <1>2, NodeFields DEF BeaconDue, Goto
  <2>2. Allowed(n, [node[n] EXCEPT !.at = "beacon"])
    BY MoveAllowed DEF Places
  <2>3. QED
    BY <2>1, <2>2, PoolKept, NodeMove, NodeFields
<1>3. CASE Listen(n)
  <2>1. /\ PoolType' /\ HelloInPool' /\ Head(pool[n]) \in Frames
        /\ Head(pool[n]).magic = "peripheral" => <<Head(pool[n]).src, n>> \in greeted
        /\ UNCHANGED greeted
    BY <1>3, TailHello DEF Listen
  <2> DEFINE r == IF Head(pool[n]).magic = "peripheral"
                  THEN [node[n] EXCEPT !.at = "settled", !.partner = Head(pool[n]).src]
                  ELSE node[n]
  <2>2. node' = [node EXCEPT ![n] = r]
    <3>1. node \in [Nodes -> NodeType]
      BY DEF FastInv, TypeOK, NodeType
    <3>2. QED
      BY <1>3, <3>1 DEF Listen
  <2>3. Allowed(n, r)
    <3>1. CASE Head(pool[n]).magic = "peripheral"
      <4>1. Head(pool[n]).src \in Nodes /\ node[n] \in NodeType /\ "settled" \in Places
        BY <2>1, NodeFields DEF Frames, Places
      <4> DEFINE src == Head(pool[n]).src
                 q == [node[n] EXCEPT !.at = "settled", !.partner = src]
      <4>2. r = q
        BY <3>1
      <4>3. src \in Nodes
        BY <4>1
      <4> HIDE DEF src, r
      <4>4. Same(node[n], q) /\ q.at = "settled" /\ q.partner = src
        BY <4>1, <4>3 DEF Same, NodeType
      <4> HIDE DEF q
      <4>5. QED
        BY <2>1, <3>1, <4>1, <4>2, <4>4 DEF Allowed, Same, src
    <3>2. CASE Head(pool[n]).magic # "peripheral"
      <4>1. r = node[n]
        BY <3>2
      <4> HIDE DEF r
      <4>2. QED
        BY <2>1, <4>1, NodeFields DEF Allowed
    <3>3. QED
      BY <3>1, <3>2
  <2>4. QED
    BY <2>1, <2>2, <2>3, NodeMove, NodeFields
<1>4. CASE Drain(n)
  <2>1. pool' = [pool EXCEPT ![n] = << >>] /\ UNCHANGED <<node, greeted>>
    BY <1>4 DEF Drain
  <2>2. PoolType' /\ HelloInPool'
    <3>1. \A m \in Nodes : pool'[m] = << >> \/ pool'[m] = pool[m]
      BY <2>1, NodeFields DEF PoolType
    <3>2. PoolType'
      <4>1. << >> \in Seq(Frames) /\ Len(<< >>) = 0 /\ 0 <= PoolCap
        BY FastAssumption
      <4>2. pool \in [Nodes -> Seq(Frames)] /\ \A m \in Nodes : Len(pool[m]) <= PoolCap
        BY NodeFields DEF PoolType
      <4>3. pool' \in [Nodes -> Seq(Frames)]
        BY <2>1, <4>1, <4>2
      <4>4. QED
        BY <3>1, <4>1, <4>2, <4>3, Zenon DEF PoolType
    <3>3. QED
      BY <2>1, <3>1, <3>2 DEF FastInv, HelloInPool
  <2>3. QED
    BY <2>1, <2>2 DEF FastInv, TypeOK, PoolType, PartnerKnown, SettledWasGreeted, At,
       Automatic
<1>5. QED
  BY <1>1, <1>2, <1>3, <1>4 DEF Collector

\* What a node sends reaches nobody but its collector, if anybody.
LEMMA SourceKeeps == ASSUME FastInv, NEW n \in Nodes, Source(n) PROVE FastInv'
<1>1. CASE Discover(n)
  <2>1. /\ PoolType' /\ HelloInPool' /\ Head(pool[n]) \in Frames /\ UNCHANGED greeted
        /\ node[n].role = "source"
    BY <1>1, TailHello DEF Discover, At
  <2> DEFINE r == IF Head(pool[n]).magic = "central"
                  THEN [node[n] EXCEPT !.at = "lock", !.partner = Head(pool[n]).src]
                  ELSE node[n]
  <2>2. node' = [node EXCEPT ![n] = r]
    <3>1. node \in [Nodes -> NodeType]
      BY DEF FastInv, TypeOK, NodeType
    <3>2. QED
      BY <1>1, <3>1 DEF Discover
  <2>3. Allowed(n, r)
    <3>1. CASE Head(pool[n]).magic = "central"
      <4>1. Head(pool[n]).src \in Nodes /\ node[n] \in NodeType /\ "lock" \in Places
        BY <2>1, NodeFields DEF Frames, Places
      <4> DEFINE src == Head(pool[n]).src
                 q == [node[n] EXCEPT !.at = "lock", !.partner = src]
      <4>2. r = q
        BY <3>1
      <4>3. src \in Nodes
        BY <4>1
      <4> HIDE DEF src, r
      <4>4. Same(node[n], q) /\ q.at = "lock" /\ q.partner = src
        BY <4>1, <4>3 DEF Same, NodeType
      <4> HIDE DEF q
      <4>5. QED
        BY <2>1, <3>1, <4>1, <4>2, <4>4 DEF Allowed, Same, src
    <3>2. CASE Head(pool[n]).magic # "central"
      <4>1. r = node[n]
        BY <3>2
      <4>2. QED
        BY <2>1, <4>1, NodeFields DEF Allowed
    <3>3. QED
      BY <3>1, <3>2
  <2>4. QED
    BY <2>1, <2>2, <2>3, NodeMove, NodeFields
<1>2. CASE add_collector_peer(n)
  <2>1. PICK known \in BOOLEAN :
           node' = [node EXCEPT ![n].known = known,
                                ![n].at = IF node[n].peer = NoNode THEN "hello" ELSE "flood"]
    BY <1>2 DEF add_collector_peer
  <2> DEFINE r == [node[n] EXCEPT !.known = known,
                                  !.at = IF node[n].peer = NoNode THEN "hello" ELSE "flood"]
  <2>2. node' = [node EXCEPT ![n] = r] /\ UNCHANGED <<pool, greeted>> /\ node[n].at = "lock"
    BY <1>2, <2>1, NodeFields DEF add_collector_peer, At
  <2>3. node[n] \in NodeType /\ node[n].partner \in Nodes
    BY <2>2, NodeFields
  <2>4. r \in NodeType /\ r.at \in {"hello", "flood"} /\ r.partner = node[n].partner
    <3> DEFINE at == IF node[n].peer = NoNode THEN "hello" ELSE "flood"
    <3>1. at \in {"hello", "flood"} /\ at \in Places
      BY DEF Places
    <3> HIDE DEF at
    <3>2. Same(node[n], r) /\ r.at = at /\ r.partner = node[n].partner
      BY <2>3, <3>1, SetPeer DEF at
    <3>3. QED
      BY <3>1, <3>2 DEF Same
  <2> HIDE DEF r
  <2>5. Allowed(n, r)
    BY <2>3, <2>4 DEF Allowed
  <2>6. QED
    BY <2>2, <2>5, NodeMove, NodeFields, PoolKept
<1>3. ASSUME NEW receivers \in SUBSET {node[n].partner}, Hello(n, receivers) PROVE FastInv'
  <2> DEFINE hello == [magic |-> "peripheral", src |-> n]
  <2>1. /\ node' = [node EXCEPT ![n] = [node[n] EXCEPT !.at = "flood"]]
        /\ greeted' = greeted \cup {<<n, node[n].partner>>}
        /\ Arrive(hello, receivers) /\ node[n].partner \in Nodes
    BY <1>3, NodeFields DEF Hello, Goto, At
  <2>2. hello \in Frames /\ hello.src = n
    BY DEF Frames
  <2>3. PoolType' /\ HelloInPool'
    BY <2>1, <2>2, ArriveHello
  <2>4. greeted \subseteq greeted' /\ greeted' \subseteq Nodes \X Nodes
    <3>1. greeted \subseteq Nodes \X Nodes
      BY NodeFields
    <3>2. QED
      BY <2>1, <3>1
  <2>5. Allowed(n, [node[n] EXCEPT !.at = "flood"])
    BY MoveAllowed DEF Places
  <2>6. QED
    BY <2>1, <2>3, <2>4, <2>5, NodeMove
<1>4. ASSUME NEW receivers \in SUBSET {node[n].partner}, NEW added \in BOOLEAN,
             Flood(n, added, receivers)
      PROVE  FastInv'
  <2> DEFINE known == node[n].known \/ (NextHealth(n) = 0 /\ added)
  <2>1. PICK at \in {"flood", "wait"} :
           node' = [node EXCEPT ![n].health = NextHealth(n), ![n].known = known,
                                ![n].at = at]
    BY <1>4 DEF Flood
  <2> DEFINE r == [node[n] EXCEPT !.health = NextHealth(n), !.known = known, !.at = at]
  <2>2. node' = [node EXCEPT ![n] = r] /\ UNCHANGED greeted
    BY <1>4, <2>1, NodeFields DEF Flood
  <2>3. NextHealth(n) \in 0..(HealthPeriod - 1)
    <3>1. node[n] \in NodeType /\ HealthPeriod \in Nat \ {0}
      BY NodeFields, FastAssumption
    <3>2. node[n].health \in 0..(HealthPeriod - 1)
      BY <3>1 DEF NodeType
    <3>3. QED
      BY <3>1, <3>2 DEF NextHealth
  <2>4. known \in BOOLEAN
    BY Zenon, NodeFields DEF NodeType
  <2> HIDE DEF known
  <2>5. r \in NodeType /\ r.at \in {"flood", "wait"}
    <3>1. node[n] \in NodeType /\ at \in Places
      BY NodeFields DEF Places
    <3> DEFINE health == NextHealth(n)
               q == [node[n] EXCEPT !.health = health, !.known = known, !.at = at]
    <3>2. r = q /\ health \in 0..(HealthPeriod - 1)
      BY <2>3
    <3> HIDE DEF health, r
    <3>3. Same(node[n], q) /\ q.at = at
      BY <2>4, <3>1, <3>2 DEF Same, NodeType
    <3>4. QED
      BY <3>2, <3>3 DEF Same
  <2>6. Allowed(n, r)
    BY <2>5 DEF Allowed
  <2>7. PoolType' /\ HelloInPool'
    BY <1>4, <2>2, ArriveHello, FrameType DEF Flood
  <2>8. QED
    BY <2>2, <2>6, <2>7, NodeMove, NodeFields
<1>5. CASE Waited(n)
  <2>1. /\ node' = [node EXCEPT ![n] = [node[n] EXCEPT !.at = "flood"]]
        /\ UNCHANGED <<pool, greeted>>
    BY <1>5, NodeFields DEF Waited, Goto
  <2>2. Allowed(n, [node[n] EXCEPT !.at = "flood"])
    BY MoveAllowed DEF Places
  <2>3. QED
    BY <2>1, <2>2, PoolKept, NodeMove, NodeFields
<1>6. QED
  BY <1>1, <1>2, <1>3, <1>4, <1>5 DEF Source

LEMMA FastStep == FastInv /\ [Next]_vars => FastInv'
<1>1. SUFFICES ASSUME FastInv, [Next]_vars PROVE FastInv'
  OBVIOUS
<1>2. CASE Next
  BY <1>1, <1>2, RunsKeep, CollectorKeeps, SourceKeeps DEF Next
<1>3. CASE UNCHANGED vars
  BY <1>1, <1>3 DEF vars, FastInv, TypeOK, PartnerKnown, HelloInPool, SettledWasGreeted, At,
     Automatic
<1>4. QED
  BY <1>1, <1>2, <1>3

\* The nodes of the asymmetric mode keep their types over any number of runs: in
\* particular no receive pool holds more frames than it has room for, though it
\* outlives the run that filled it.
THEOREM FastTypes == Spec => []TypeOK
<1>1. FastInv => TypeOK
  BY DEF FastInv
<1>2. QED
  BY FastInit, FastStep, <1>1, PTL DEF Spec

\* A collector that was left to find its source settles only on a node that sent it
\* a hello, whatever other collectors broadcast, whatever sources flood it with, and
\* whichever run left the frames in its pool.
THEOREM SettledByHello == Spec => []SettledWasGreeted
<1>1. FastInv => SettledWasGreeted
  BY DEF FastInv
<1>2. QED
  BY FastInit, FastStep, <1>1, PTL DEF Spec
=============================================================================
