--------------------------- MODULE RunStats_proofs ---------------------------
\* Proofs about RunStats: its types, that a settled filter decides every report,
\* that the counters are about the same reports, and that a counted gap was missed.
EXTENDS RunStats, FiniteSetTheorems, TLAPS

-----------------------------------------------------------------------------
\* The filter.

\* The frames sent keep their type, and so do the numbers of those received.
SentType == sent \in [Macs -> Nat]

LEMMA NumberType == ASSUME NEW nth \in Int PROVE Number(nth) \in 0..(SeqMod - 1)
<1>1. \A a \in Int : a % SeqMod \in 0..(SeqMod - 1)
  BY StatsAssumption
<1> QED BY <1>1, StatsAssumption DEF Number

LEMMA ReceivableType ==
    ASSUME SentType, NEW m \in Macs, NEW frame \in Receivable(m)
    PROVE  /\ frame \in [nth : Nat \cup {Stray}, seq : 0..(SeqMod - 1)]
           /\ frame.nth # Stray =>
                 frame.nth \in Nat /\ frame.nth >= sent[m] /\ frame.seq = Number(frame.nth)
<1>1. sent[m] \in Nat /\ LossCap \in Nat /\ Strays \subseteq 0..(SeqMod - 1)
  BY StatsAssumption DEF SentType
<1>2. CASE \E nth \in sent[m]..(sent[m] + 1 + LossCap) :
             frame = [nth |-> nth, seq |-> Number(nth)]
  <2>1. PICK nth \in sent[m]..(sent[m] + 1 + LossCap) :
           frame = [nth |-> nth, seq |-> Number(nth)]
    BY <1>2
  <2>2. nth \in Nat /\ nth >= sent[m] /\ Number(nth) \in 0..(SeqMod - 1)
    BY <1>1, <2>1, NumberType
  <2> QED BY <2>1, <2>2
<1>3. CASE frame \in [nth : {Stray}, seq : Strays]
  BY <1>1, <1>3
<1> QED BY <1>2, <1>3 DEF Receivable

\* What the Wi-Fi task may rely on at each step of a report no filter call has
\* disturbed.
Judged ==
    /\ cap.at = "peer" => filter.active
    /\ cap.at = "min" => filter.active /\ filter.peer \in {NoMac, cap.mac}
    /\ cap.at \in {"build", "track", "deliver"} => Accepted
    /\ cap.at = "filtered" => ~Accepted

FilterTypes ==
    /\ filter \in [peer : Macs \cup {NoMac}, min : {0, 1}, active : BOOLEAN]
    /\ call \in [at : {"idle", "load"}] \cup [at : {"store"}, active : BOOLEAN]
    /\ cap \in [at : {"idle"}] \cup Captures

\* The flag follows the two words, except inside a call.
FlagFollows ==
    /\ call.at = "idle" => filter.active = Filtering(filter)
    /\ call.at = "store" => call.active = Filtering(filter)

SettledJudged == cap.at # "idle" /\ cap.settled => call.at = "idle" /\ Judged

FilterInv == FilterTypes /\ FlagFollows /\ SettledJudged

-----------------------------------------------------------------------------
\* The counters.

\* One while a report is being captured.
Pending == IF cap.at = "idle" THEN 0 ELSE 1

CounterTypes ==
    /\ stats \in [rx : Nat, drop : Nat, rate : Nat]
    /\ gap \in Nat /\ lastRx \in Nat
    /\ DOMAIN tracker \subseteq Macs
    /\ \A m \in DOMAIN tracker : tracker[m] \in 0..(SeqMod - 1)
    /\ zeroing \in {Counters, <<"drop", "rate">>, <<"rate">>, << >>}

\* Drops of whole reports stay within the reports counted, from the moment the
\* drop counter is cleared.
DropsWithinReports ==
    zeroing \in {<<"rate">>, << >>} => stats.drop - gap + Pending <= stats.rx + 1

RateWithinReports ==
    zeroing = << >> => stats.rate <= stats.rx

CounterInv == CounterTypes /\ DropsWithinReports /\ RateWithinReports

-----------------------------------------------------------------------------

\* No step of the node task touches the filter or the report being captured.
LEMMA NodeTaskFilter == NodeTask => UNCHANGED <<filter, call, cap>>
BY DEF NodeTask, run_inner, reset, stats_begin_run, set_csi, EnterProcess, OutputChanged,
       RateTick, StopRun, filterVars

LEMMA InitFilter == Init => FilterInv
<1>1. SUFFICES ASSUME Init PROVE FilterInv
  OBVIOUS
<1>2. filter.active = FALSE /\ filter.peer = NoMac /\ filter.min = 0
  BY <1>1 DEF Init
<1>3. Filtering(filter) = FALSE
  <2>1. ~(filter.peer # NoMac \/ filter.min # 0)
    BY <1>2
  <2>2. (filter.peer # NoMac \/ filter.min # 0) = FALSE
    BY <2>1, SMT
  <2> QED BY <2>2 DEF Filtering
<1>4. FilterTypes
  <2>1. filter = [peer |-> NoMac, min |-> 0, active |-> FALSE] /\ call = Quiet /\ cap = Quiet
    BY <1>1 DEF Init
  <2>2. filter \in [peer : Macs \cup {NoMac}, min : {0, 1}, active : BOOLEAN]
    BY <2>1
  <2>3. Quiet \in [at : {"idle"}] /\ Quiet \in [at : {"idle", "load"}]
    BY DEF Quiet
  <2> QED BY <2>1, <2>2, <2>3, Zenon DEF FilterTypes
<1>5. filter.active = Filtering(filter)
  BY <1>2, <1>3
<1>6. call.at = "idle" /\ cap.at = "idle"
  BY <1>1 DEF Init, Quiet
<1>7. FlagFollows /\ SettledJudged
  BY <1>5, <1>6, Zenon DEF FlagFollows, SettledJudged
<1> QED BY <1>4, <1>7 DEF FilterInv

\* Unsettling a report keeps its type and its step.
LEMMA Unsettle ==
    ASSUME NEW w \in Captures
    PROVE  /\ [w EXCEPT !.settled = FALSE] \in Captures
           /\ [w EXCEPT !.settled = FALSE].settled = FALSE
<1>1. [w EXCEPT !.settled = FALSE] \in Captures
  BY Zenon DEF Captures
<1>2. [w EXCEPT !.settled = FALSE].settled = FALSE
  BY Zenon DEF Captures
<1> QED BY <1>1, <1>2

\* The Wi-Fi task preserves the filter invariant.
LEMMA CaptureFilter ==
    ASSUME FilterInv, SentType, WifiTask, UNCHANGED chip
    PROVE  FilterInv'
<1>1. ASSUME NEW m \in Macs, NEW sig \in {0, 1}, NEW frame \in Receivable(m),
             capture_csi_info(m, sig, frame)
      PROVE  FilterInv'
  <2>1. CASE cap' = Quiet
    BY <1>1, <2>1, SMT DEF FilterInv, FilterTypes, FlagFollows, SettledJudged, Quiet,
       capture_csi_info, filterVars, Filtering
  <2>2. CASE cap' = [at |-> "active", mac |-> m, sig |-> sig, frame |-> frame,
                     settled |-> call.at = "idle"]
    <3>1. frame \in [nth : Nat \cup {Stray}, seq : 0..(SeqMod - 1)]
      BY <1>1, ReceivableType
    <3>2. (call.at = "idle") \in BOOLEAN
      BY Zenon
    <3>3. cap' \in Captures
      BY <2>2, <3>1, <3>2, SMT DEF Captures, Steps
    <3>4. cap'.settled => call.at = "idle"
      BY <2>2, Zenon
    <3>5. cap'.at = "active"
      BY <2>2
    <3> QED BY <1>1, <3>3, <3>4, <3>5, SMT DEF FilterInv, FilterTypes, FlagFollows,
            SettledJudged, Judged, capture_csi_info, filterVars, Filtering
  <2> QED BY <1>1, <2>1, <2>2 DEF capture_csi_info
<1>2. CASE LoadActive
  BY <1>2, SMT DEF FilterInv, FilterTypes, FlagFollows, SettledJudged, LoadActive, At, Goto,
     Captures, Steps, Judged, Accepted, HasSigMode, filterVars, Quiet, Filtering
<1>3. CASE LoadPeer
  BY <1>3, SMT DEF FilterInv, FilterTypes, FlagFollows, SettledJudged, LoadPeer, At, Goto,
     Captures, Steps, Judged, Accepted, HasSigMode, filterVars, Quiet, Filtering
<1>4. CASE LoadMin
  BY <1>4, SMT DEF FilterInv, FilterTypes, FlagFollows, SettledJudged, LoadMin, At, Goto,
     Captures, Steps, Judged, Accepted, HasSigMode, filterVars, Quiet, Filtering
<1>5. CASE Reject
  BY <1>5, SMT DEF FilterInv, FilterTypes, FlagFollows, SettledJudged, Reject, CountDrop, At,
     Judged, filterVars, Quiet, Filtering
<1>6. CASE from_wifi_csi_info
  BY <1>6, SMT DEF FilterInv, FilterTypes, FlagFollows, SettledJudged, from_wifi_csi_info,
     CountDrop, At, Goto, Captures, Steps, Judged, Accepted, HasSigMode, filterVars, Quiet, Filtering
<1>7. CASE TrackSequence
  BY <1>7, SMT DEF FilterInv, FilterTypes, FlagFollows, SettledJudged, TrackSequence, At, Goto,
     Captures, Steps, Judged, Accepted, HasSigMode, filterVars, Quiet, Filtering
<1>8. CASE Deliver
  BY <1>8, SMT DEF FilterInv, FilterTypes, FlagFollows, SettledJudged, Deliver, CountDrop, At,
     Judged, filterVars, Quiet, Filtering
<1> QED BY <1>1, <1>2, <1>3, <1>4, <1>5, <1>6, <1>7, <1>8 DEF WifiTask, csi_passes_filter

\* So does user code: a call under way unsettles the report being captured.
LEMMA UserFilter ==
    ASSUME FilterInv, User, UNCHANGED chip
    PROVE  FilterInv'
<1>1. CASE set_csi_output_enabled
  BY <1>1 DEF FilterInv, FilterTypes, FlagFollows, SettledJudged, set_csi_output_enabled,
     Judged, Accepted, HasSigMode, filterVars, Filtering
<1>2. ASSUME NEW mac \in Macs \cup {NoMac}, set_csi_peer_filter(mac)
      PROVE  FilterInv'
  <2>1. FilterTypes'
    BY <1>2, Unsettle, SMT DEF FilterInv, FilterTypes, set_csi_peer_filter
  <2>2. FlagFollows'
    BY <1>2, SMT DEF set_csi_peer_filter, FlagFollows
  <2>3. cap'.at = "idle" \/ cap'.settled = FALSE
    BY <1>2, Unsettle, SMT DEF FilterInv, FilterTypes, set_csi_peer_filter
  <2> QED BY <2>1, <2>2, <2>3 DEF FilterInv, SettledJudged
<1>3. ASSUME NEW min \in {0, 1}, set_csi_min_sig_mode(min)
      PROVE  FilterInv'
  <2>1. FilterTypes'
    BY <1>3, Unsettle, SMT DEF FilterInv, FilterTypes, set_csi_min_sig_mode
  <2>2. FlagFollows'
    BY <1>3, SMT DEF set_csi_min_sig_mode, FlagFollows
  <2>3. cap'.at = "idle" \/ cap'.settled = FALSE
    BY <1>3, Unsettle, SMT DEF FilterInv, FilterTypes, set_csi_min_sig_mode
  <2> QED BY <2>1, <2>2, <2>3 DEF FilterInv, SettledJudged
<1>4. CASE LoadFilter
  <2>1. Filtering(filter) \in BOOLEAN
    BY Zenon DEF Filtering
  <2>2. FilterTypes'
    BY <1>4, <2>1, SMT DEF FilterInv, FilterTypes, LoadFilter
  <2>3. FlagFollows' /\ SettledJudged'
    BY <1>4, SMT DEF FilterInv, FlagFollows, SettledJudged, LoadFilter, Filtering
  <2> QED BY <2>2, <2>3 DEF FilterInv
<1>5. CASE StoreActive
  <2>1. call.active \in BOOLEAN /\ call.active = Filtering(filter)
    BY <1>5, SMT DEF FilterInv, FilterTypes, FlagFollows, StoreActive
  <2>2. FilterTypes'
    BY <1>5, <2>1, SMT DEF FilterInv, FilterTypes, StoreActive, Quiet
  <2>3. FlagFollows' /\ SettledJudged'
    BY <1>5, <2>1, SMT DEF FilterInv, FilterTypes, FlagFollows, SettledJudged, StoreActive, Quiet, Filtering
  <2> QED BY <2>2, <2>3 DEF FilterInv
<1> QED BY <1>1, <1>2, <1>3, <1>4, <1>5 DEF User, refresh_filter_active


LEMMA SentStep == SentType /\ [Next]_vars => SentType'
<1>1. SUFFICES ASSUME SentType, [Next]_vars PROVE SentType'
  OBVIOUS
<1>2. ASSUME NEW m \in Macs, NEW sig \in {0, 1}, NEW frame \in Receivable(m),
             capture_csi_info(m, sig, frame)
      PROVE  SentType'
  <2>1. SendUpTo(m, frame.nth)
    BY <1>2 DEF capture_csi_info
  <2>2. frame.nth \in Nat \/ frame.nth = -1
    BY <1>1, ReceivableType DEF Stray
  <2>3. sent[m] \in Nat
    BY <1>1 DEF SentType
  <2> QED BY <1>1, <2>1, <2>2, <2>3 DEF SentType, SendUpTo
<1>3. CASE NodeTask
  BY <1>1, <1>3 DEF NodeTask, run_inner, reset, stats_begin_run, set_csi, EnterProcess,
     OutputChanged, RateTick, StopRun, airVars, SentType
<1>4. CASE User
  BY <1>1, <1>4 DEF User, set_csi_output_enabled, set_csi_peer_filter,
     set_csi_min_sig_mode, refresh_filter_active, LoadFilter, StoreActive, airVars, SentType
<1>5. CASE csi_passes_filter \/ Reject \/ from_wifi_csi_info \/ TrackSequence \/ Deliver
  BY <1>1, <1>5 DEF csi_passes_filter, LoadActive, LoadPeer, LoadMin, Reject, CountDrop,
     from_wifi_csi_info, TrackSequence, Deliver, airVars, SentType
<1>6. CASE UNCHANGED vars
  BY <1>1, <1>6 DEF vars, airVars, SentType
<1> QED BY <1>1, <1>2, <1>3, <1>4, <1>5, <1>6 DEF Next, WifiTask

LEMMA FilterStep == FilterInv /\ SentType /\ [Next]_vars => FilterInv'
<1>1. SUFFICES ASSUME FilterInv, SentType, [Next]_vars PROVE FilterInv'
  OBVIOUS
<1>0. UNCHANGED chip
  BY <1>1 DEF Next, vars
<1>2. ASSUME UNCHANGED <<filter, call, cap>> PROVE FilterInv'
  BY <1>0, <1>1, <1>2 DEF FilterInv, FilterTypes, FlagFollows, SettledJudged, Judged, Accepted,
     HasSigMode, Filtering
<1>3. CASE NodeTask
  BY <1>2, <1>3, NodeTaskFilter
<1>4. CASE User
  BY <1>0, <1>1, <1>4, UserFilter
<1>6. CASE WifiTask
  BY <1>0, <1>1, <1>6, CaptureFilter
<1>7. CASE UNCHANGED vars
  BY <1>2, <1>7 DEF vars, filterVars
<1> QED BY <1>1, <1>3, <1>4, <1>6, <1>7 DEF Next

\* Whatever frames arrive and whatever calls user code makes, a report that no
\* filter call disturbs is kept or rejected as the filter says.
THEOREM FilterDecides == Spec => []SettledFilterDecides
<1>1. Init => SentType /\ FilterInv
  <2>1. Init => SentType
    BY DEF Init, SentType, None
  <2> QED BY <2>1, InitFilter
<1>2. SentType /\ FilterInv /\ [Next]_vars => (SentType /\ FilterInv)'
  BY SentStep, FilterStep
<1>3. FilterInv => SettledFilterDecides
  BY DEF FilterInv, SettledJudged, Judged, SettledFilterDecides
<1> QED BY <1>1, <1>2, <1>3, PTL DEF Spec

-----------------------------------------------------------------------------

LEMMA InitCounters == Init => CounterInv
BY SMT DEF Init, CounterInv, CounterTypes, DropsWithinReports, RateWithinReports, Pending,
   Counters, Quiet

\* A gap is a number of frames.
LEMMA LostType ==
    ASSUME NEW last \in 0..(SeqMod - 1), NEW now \in 0..(SeqMod - 1)
    PROVE  Lost(last, now) \in Nat
<1>1. ((now - last) % SeqMod) \in 0..(SeqMod - 1)
  BY StatsAssumption, SMT
<1>2. PICK diff \in 0..(SeqMod - 1) : diff = ((now - last) % SeqMod)
  BY <1>1
<1>3. Lost(last, now) = IF diff > 1 /\ diff - 1 < LossCap THEN diff - 1 ELSE 0
  BY <1>2 DEF Lost
<1> QED BY <1>2, <1>3, StatsAssumption, SMT

\* What the tracker remembers is what it knew and the new frame.
LEMMA RememberType ==
    ASSUME NEW map, DOMAIN map \subseteq Macs,
           \A k \in DOMAIN map : map[k] \in 0..(SeqMod - 1),
           NEW m \in Macs, NEW n \in 0..(SeqMod - 1)
    PROVE  /\ DOMAIN Remember(map, m, n) \subseteq Macs
           /\ \A k \in DOMAIN Remember(map, m, n) :
                  Remember(map, m, n)[k] \in 0..(SeqMod - 1)
<1>1. CASE m \in DOMAIN map \/ Cardinality(DOMAIN map) < TrackCap
  <2>1. Remember(map, m, n) = [k \in DOMAIN map \cup {m} |-> IF k = m THEN n ELSE map[k]]
    BY <1>1 DEF Remember
  <2> QED BY <2>1
<1>2. CASE ~(m \in DOMAIN map \/ Cardinality(DOMAIN map) < TrackCap)
  <2>1. Remember(map, m, n) = [k \in {m} |-> n]
    BY <1>2 DEF Remember
  <2> QED BY <2>1
<1> QED BY <1>1, <1>2

LEMMA KnownType ==
    CounterTypes => /\ DOMAIN Known \subseteq Macs
                    /\ \A k \in DOMAIN Known : Known[k] \in 0..(SeqMod - 1)
<1>1. DOMAIN << >> = {}
  OBVIOUS
<1> QED BY <1>1 DEF CounterTypes, Known

\* The counters and what their invariant reads.
counterVars == <<stats, gap, lastRx, zeroing, tracker, cap>>

LEMMA CounterFrame == CounterInv /\ UNCHANGED counterVars => CounterInv'
BY DEF CounterInv, CounterTypes, DropsWithinReports, RateWithinReports, Pending, counterVars

\* The node task clears the counters, drops first accounted from then on.
LEMMA NodeTaskCounters ==
    ASSUME CounterInv, NodeTask
    PROVE  CounterInv'
<1> USE DEF CounterInv, CounterTypes, DropsWithinReports, RateWithinReports, Pending, Counters
<1>1. ASSUME NEW k \in Kinds, run_inner(k) PROVE CounterInv'
  BY <1>1, SMT DEF run_inner
<1>2. CASE reset
  <2>1. CASE zeroing = <<"rx", "drop", "rate">>
    BY <1>2, <2>1, SMT DEF reset
  <2>2. CASE zeroing = <<"drop", "rate">>
    BY <1>2, <2>2, SMT DEF reset
  <2>3. CASE zeroing = <<"rate">>
    BY <1>2, <2>3, SMT DEF reset
  <2>4. zeroing # << >>
    BY <1>2 DEF reset
  <2> QED BY <2>1, <2>2, <2>3, <2>4
<1>3. CASE stats_begin_run \/ set_csi \/ EnterProcess \/ OutputChanged \/ StopRun
  <2>1. UNCHANGED <<stats, gap, zeroing, tracker, cap>>
    BY <1>3, Zenon DEF stats_begin_run, set_csi, EnterProcess, OutputChanged, StopRun
  <2>2. lastRx' \in {lastRx, stats.rx, 0}
    BY <1>3, Zenon DEF stats_begin_run, set_csi, EnterProcess, OutputChanged, StopRun
  <2>3. lastRx' \in Nat
    BY <2>2
  <2> QED BY <2>1, <2>3
<1>4. CASE RateTick
  BY <1>4, SMT DEF RateTick
<1> QED BY <1>1, <1>2, <1>3, <1>4 DEF NodeTask

\* Every report is counted before it can be dropped, and dropped once.
LEMMA WifiTaskCounters ==
    ASSUME CounterInv, FilterTypes, WifiTask
    PROVE  CounterInv'
<1>1. ASSUME NEW m \in Macs, NEW sig \in {0, 1}, NEW frame \in Receivable(m),
             capture_csi_info(m, sig, frame)
      PROVE  CounterInv'
  BY <1>1, SMT DEF CounterInv, CounterTypes, DropsWithinReports, RateWithinReports, Pending,
     capture_csi_info, At, Quiet, runVars
<1>2. ASSUME cap.at # "idle", cap'.at # "idle",
             UNCHANGED <<stats, gap, lastRx, zeroing, tracker>>
      PROVE  CounterInv'
  BY <1>2 DEF CounterInv, CounterTypes, DropsWithinReports, RateWithinReports, Pending
<1>3. ASSUME NEW step \in Steps \ {"idle"}, cap.at # "idle", Goto(step)
      PROVE  cap'.at # "idle"
  <2>1. cap \in Captures
    BY <1>3 DEF FilterTypes
  <2> QED BY <1>3, <2>1, SMT DEF Goto, Captures
<1>4. CASE csi_passes_filter
  BY <1>2, <1>3, <1>4, SMT DEF csi_passes_filter, LoadActive, LoadPeer, LoadMin, At, Steps,
     runVars
<1>5. ASSUME cap.at # "idle", CountDrop
      PROVE  CounterInv'
  BY <1>5, SMT DEF CounterInv, CounterTypes, DropsWithinReports, RateWithinReports, Pending,
     CountDrop, Quiet, runVars
<1>6. CASE Reject
  BY <1>5, <1>6 DEF Reject, At
<1>7. CASE from_wifi_csi_info
  BY <1>2, <1>3, <1>5, <1>7, SMT DEF from_wifi_csi_info, At, Steps, runVars
<1>8. CASE TrackSequence
  <2>1. cap \in Captures
    BY <1>8 DEF FilterTypes, TrackSequence, At
  <2>2. cap.mac \in Macs /\ cap.frame.seq \in 0..(SeqMod - 1)
    BY <2>1 DEF Captures
  <2>3. (IF cap.mac \in DOMAIN Known THEN Lost(Known[cap.mac], cap.frame.seq) ELSE 0) \in Nat
    BY <2>2, KnownType, LostType DEF CounterInv
  <2>4. PICK lost \in Nat : /\ stats' = [stats EXCEPT !.drop = @ + lost]
                            /\ gap' = gap + lost
    BY <1>8, <2>3 DEF TrackSequence
  <2>5. cap'.at # "idle" /\ cap.at # "idle"
    BY <1>3, <1>8, SMT DEF TrackSequence, At, Steps
  <2>6. /\ DOMAIN tracker' \subseteq Macs
        /\ \A m \in DOMAIN tracker' : tracker'[m] \in 0..(SeqMod - 1)
    BY <1>8, <2>2, KnownType, RememberType DEF TrackSequence, CounterInv
  <2>7. UNCHANGED <<lastRx, zeroing>>
    BY <1>8 DEF TrackSequence, runVars
  <2>8. CounterTypes'
    BY <2>4, <2>6, <2>7, SMT DEF CounterInv, CounterTypes
  <2>9. DropsWithinReports' /\ RateWithinReports'
    BY <2>4, <2>5, <2>7, SMT DEF CounterInv, CounterTypes, DropsWithinReports,
       RateWithinReports, Pending
  <2> QED BY <2>8, <2>9 DEF CounterInv
<1>9. CASE Deliver
  <2>1. CASE UNCHANGED stats
    BY <1>9, <2>1, SMT DEF Deliver, CounterInv, CounterTypes, DropsWithinReports,
       RateWithinReports, Pending, At, Quiet, runVars, CountDrop
  <2>2. CASE CountDrop
    BY <1>5, <1>9, <2>2 DEF Deliver, At
  <2> QED BY <1>9, <2>1, <2>2 DEF Deliver
<1> QED BY <1>1, <1>4, <1>6, <1>7, <1>8, <1>9 DEF WifiTask

LEMMA CounterStep == CounterInv /\ FilterTypes /\ [Next]_vars => CounterInv'
<1>1. SUFFICES ASSUME CounterInv, FilterTypes, [Next]_vars PROVE CounterInv'
  OBVIOUS
<1>2. CASE NodeTask
  BY <1>1, <1>2, NodeTaskCounters
<1>3. ASSUME User PROVE CounterTypes' /\ UNCHANGED <<stats, gap, lastRx, zeroing, tracker>>
                        /\ (cap'.at = "idle" <=> cap.at = "idle")
  <2>1. UNCHANGED <<stats, gap, lastRx, zeroing, tracker>>
    BY <1>3, SMT DEF User, set_csi_output_enabled, set_csi_peer_filter, set_csi_min_sig_mode,
       refresh_filter_active, LoadFilter, StoreActive, runVars
  <2>2. CounterTypes'
    BY <1>1, <2>1 DEF CounterInv, CounterTypes
  <2>3. cap' = cap \/ cap' = IF cap.at = "idle" THEN cap ELSE [cap EXCEPT !.settled = FALSE]
    BY <1>3 DEF User, set_csi_output_enabled, set_csi_peer_filter, set_csi_min_sig_mode,
       refresh_filter_active, LoadFilter, StoreActive
  <2>4. cap.at # "idle" => [cap EXCEPT !.settled = FALSE].at = cap.at
    BY <1>1, SMT DEF FilterTypes, Captures
  <2> QED BY <2>1, <2>2, <2>3, <2>4
<1>4. CASE User
  BY <1>1, <1>3, <1>4 DEF CounterInv, DropsWithinReports, RateWithinReports, Pending
<1>6. CASE WifiTask
  BY <1>1, <1>6, WifiTaskCounters
<1>7. CASE UNCHANGED vars
  BY <1>1, <1>7, CounterFrame DEF vars, counterVars, runVars
<1> QED BY <1>1, <1>2, <1>4, <1>6, <1>7 DEF Next

\* However captures fall between the stores that clear the counters, the drops of
\* a run are of its reports, save one, and its rate is within its total.
THEOREM CountersOfOneRun == Spec => []CountersAgree
<1>1. Init => SentType /\ FilterInv /\ CounterInv
  <2>1. Init => SentType
    BY DEF Init, SentType, None
  <2> QED BY <2>1, InitFilter, InitCounters
<1>2. SentType /\ FilterInv /\ CounterInv /\ [Next]_vars
        => (SentType /\ FilterInv /\ CounterInv)'
  BY SentStep, FilterStep, CounterStep DEF FilterInv
<1>3. CounterInv => CountersAgree
  BY SMT DEF CounterInv, CounterTypes, DropsWithinReports, RateWithinReports, Pending,
     CountersAgree, Cleared
<1> QED BY <1>1, <1>2, <1>3, PTL DEF Spec
-----------------------------------------------------------------------------
\* The types that neither invariant above needed.
RestTypes ==
    /\ chip \in Chips
    /\ run \in {"idle", "reset", "arm", "enter", "collect", "work", "trailing", "leave"}
    /\ kind \in Kinds /\ runs \in 0..MaxRuns
    /\ armed \in BOOLEAN /\ detect \in BOOLEAN /\ forget \in BOOLEAN /\ changed \in BOOLEAN
    /\ events \in 0..MaxEvents

LEMMA RestStep == ASSUME RestTypes, [Next]_vars PROVE RestTypes'
<1> USE DEF RestTypes
<1>0. MaxRuns \in Nat /\ MaxEvents \in Nat /\ UNCHANGED chip
  BY StatsAssumption DEF Next, vars
<1>1. CASE NodeTask
  <2>1. ASSUME NEW k \in Kinds, run_inner(k) PROVE RestTypes'
    BY <1>0, <2>1, SMT DEF run_inner
  <2>2. CASE reset
    BY <1>0, <2>2, SMT DEF reset
  <2>3. CASE stats_begin_run
    BY <1>0, <2>3, SMT DEF stats_begin_run
  <2>4. CASE EnterProcess
    BY <1>0, <2>4, SMT DEF EnterProcess
  <2>5. CASE OutputChanged \/ RateTick
    <3>1. forget' \in BOOLEAN /\ changed' \in BOOLEAN
      BY <2>5, Zenon DEF OutputChanged, RateTick
    <3>2. UNCHANGED <<run, kind, runs, armed, detect, events>>
      BY <2>5, Zenon DEF OutputChanged, RateTick
    <3> QED BY <1>0, <3>1, <3>2, SMT
  <2>6. CASE set_csi
    <3>1. detect' \in BOOLEAN
      BY <2>6, Zenon DEF set_csi
    <3>2. armed' \in BOOLEAN
      BY <2>6, Zenon DEF set_csi
    <3>3. run' \in {"enter", "work"}
      BY <2>6, Zenon DEF set_csi
    <3>4. UNCHANGED <<kind, runs, forget, changed, events>>
      BY <2>6, Zenon DEF set_csi
    <3> QED BY <1>0, <3>1, <3>2, <3>3, <3>4, SMT
  <2>7. CASE StopRun
    BY <1>0, <2>7, SMT DEF StopRun, Kinds
  <2> QED BY <1>1, <2>1, <2>2, <2>3, <2>4, <2>5, <2>6, <2>7 DEF NodeTask
<1>2. CASE User
  <2>1. changed' \in BOOLEAN
    BY <1>2, Zenon DEF User, set_csi_output_enabled, set_csi_peer_filter,
       set_csi_min_sig_mode, refresh_filter_active, LoadFilter, StoreActive
  <2>2. events' = events \/ Happens
    BY <1>2, Zenon DEF User, set_csi_output_enabled, set_csi_peer_filter,
       set_csi_min_sig_mode, refresh_filter_active, LoadFilter, StoreActive
  <2>3. UNCHANGED <<run, kind, runs, armed, detect, forget>>
    BY <1>2, Zenon DEF User, set_csi_output_enabled, set_csi_peer_filter,
       set_csi_min_sig_mode, refresh_filter_active, LoadFilter, StoreActive, runVars
  <2>4. events' \in 0..MaxEvents
    BY <1>0, <2>2, SMT DEF Happens
  <2> QED BY <1>0, <2>1, <2>3, <2>4
<1>3. ASSUME NEW m \in Macs, NEW sig \in {0, 1}, NEW frame \in Receivable(m),
             capture_csi_info(m, sig, frame)
      PROVE  RestTypes'
  <2>1. Happens /\ UNCHANGED <<run, kind, runs, armed, detect, forget, changed>>
    BY <1>3, Zenon DEF capture_csi_info, runVars
  <2>2. events' \in 0..MaxEvents
    BY <1>0, <2>1, SMT DEF Happens
  <2> QED BY <1>0, <2>1, <2>2
<1>4. CASE csi_passes_filter \/ Reject \/ from_wifi_csi_info \/ Deliver
  BY <1>0, <1>4, SMT DEF csi_passes_filter, LoadActive, LoadPeer, LoadMin, Reject, CountDrop,
     from_wifi_csi_info, Deliver, runVars
<1>5. CASE TrackSequence
  <2>1. forget' \in BOOLEAN
    BY <1>5, Zenon DEF TrackSequence
  <2>2. UNCHANGED <<run, kind, runs, armed, detect, changed, events>>
    BY <1>5, Zenon DEF TrackSequence, runVars
  <2> QED BY <1>0, <2>1, <2>2, SMT
<1>6. CASE UNCHANGED vars
  BY <1>0, <1>6, SMT DEF vars, runVars
<1> QED BY <1>1, <1>2, <1>3, <1>4, <1>5, <1>6 DEF Next, WifiTask

TrackerBound == IsFiniteSet(DOMAIN tracker) /\ Cardinality(DOMAIN tracker) <= TrackCap

\* The map takes a new entry only while it has room.
LEMMA RememberBound ==
    ASSUME NEW map, NEW m, NEW n, IsFiniteSet(DOMAIN map), Cardinality(DOMAIN map) <= TrackCap
    PROVE  /\ IsFiniteSet(DOMAIN Remember(map, m, n))
           /\ Cardinality(DOMAIN Remember(map, m, n)) <= TrackCap
<1>1. TrackCap \in Nat \ {0} /\ Cardinality(DOMAIN map) \in Nat
  BY StatsAssumption, FS_CardinalityType
<1>5. IsFiniteSet({m}) /\ Cardinality({m}) = 1
  BY FS_Singleton, Zenon
<1>2. CASE m \in DOMAIN map
  <2>1. DOMAIN Remember(map, m, n) = DOMAIN map
    BY <1>2 DEF Remember
  <2> QED BY <2>1
<1>3. CASE m \notin DOMAIN map /\ Cardinality(DOMAIN map) < TrackCap
  <2>1. DOMAIN Remember(map, m, n) = DOMAIN map \cup {m}
    BY <1>3 DEF Remember
  <2>2. Cardinality(DOMAIN map \cup {m}) = Cardinality(DOMAIN map) + 1
    BY <1>3, FS_AddElement
  <2>3. IsFiniteSet(DOMAIN map \cup {m})
    BY FS_AddElement
  <2> QED BY <1>1, <1>3, <2>1, <2>2, <2>3
<1>4. CASE ~(m \in DOMAIN map \/ Cardinality(DOMAIN map) < TrackCap)
  <2>1. DOMAIN Remember(map, m, n) = {m}
    BY <1>4 DEF Remember
  <2>2. Cardinality({m}) <= TrackCap
    BY <1>1, <1>5
  <2> QED BY <1>5, <2>1, <2>2, Zenon
<1> QED BY <1>2, <1>3, <1>4

LEMMA TrackerStep == ASSUME TrackerBound, [Next]_vars PROVE TrackerBound'
<1>1. CASE UNCHANGED tracker
  BY <1>1 DEF TrackerBound
<1>2. CASE TrackSequence
  <2>1. IsFiniteSet(DOMAIN Known) /\ Cardinality(DOMAIN Known) <= TrackCap
    <3>1. DOMAIN << >> = {} /\ TrackCap >= 0
      BY StatsAssumption
    <3> QED BY <3>1, FS_EmptySet DEF TrackerBound, Known
  <2> QED BY <1>2, <2>1, RememberBound DEF TrackSequence, TrackerBound
<1>3. UNCHANGED tracker \/ TrackSequence
  BY DEF Next, NodeTask, run_inner, reset, stats_begin_run, set_csi, EnterProcess,
     OutputChanged, RateTick, StopRun, User, set_csi_output_enabled, set_csi_peer_filter,
     set_csi_min_sig_mode, refresh_filter_active, LoadFilter, StoreActive, WifiTask,
     capture_csi_info, csi_passes_filter, LoadActive, LoadPeer, LoadMin, Reject, CountDrop,
     from_wifi_csi_info, Deliver, vars
<1> QED BY <1>1, <1>2, <1>3

-----------------------------------------------------------------------------
\* The arithmetic of the sequence numbers.
LEMMA Divides ==
    ASSUME NEW a \in Int
    PROVE  a % SeqMod \in 0..(SeqMod - 1) /\ \E q \in Int : a = SeqMod * q + (a % SeqMod)
<1>1. a % SeqMod \in 0..(SeqMod - 1)
  BY StatsAssumption
<1>2. a \div SeqMod \in Int /\ a = SeqMod * (a \div SeqMod) + (a % SeqMod)
  BY StatsAssumption
<1> QED BY <1>1, <1>2

LEMMA Remains ==
    ASSUME NEW n \in Nat, NEW q \in Int, NEW r \in 0..(SeqMod - 1), n = SeqMod * q + r
    PROVE  r <= n
<1>1. q >= 0
  <2>1. SUFFICES ASSUME q <= -1 PROVE FALSE
    OBVIOUS
  <2>2. SeqMod * q <= SeqMod * (-1)
    BY <2>1, StatsAssumption
  <2>3. SeqMod * (-1) = -SeqMod /\ SeqMod * q \in Int
    BY StatsAssumption
  <2> QED BY <2>2, <2>3, StatsAssumption
<1>2. SeqMod * q >= 0
  BY <1>1, StatsAssumption
<1> QED BY <1>2, StatsAssumption

LEMMA Quotient ==
    ASSUME NEW nth \in Nat
    PROVE  \E x \in Int : SeqMod - 2 + nth = SeqMod * x + Number(nth)
<1> DEFINE n == SeqMod - 2 + nth
<1>1. n \in Int /\ Number(nth) = n % SeqMod
  BY StatsAssumption DEF Number
<1> HIDE DEF n
<1>2. \E x \in Int : n = SeqMod * x + (n % SeqMod)
  BY <1>1, Divides
<1> QED BY <1>1, <1>2 DEF n

\* Between two frames of a running count the estimate finds no more than were sent in
\* between, however often the numbers wrapped.
LEMMA Between ==
    ASSUME NEW a \in Nat, NEW b \in Nat, a <= b
    PROVE  /\ Lost(Number(a), Number(b)) \in Nat
           /\ Lost(Number(a), Number(b)) + (IF b = a THEN 0 ELSE 1) <= b - a
<1> DEFINE diff == (Number(b) - Number(a)) % SeqMod
<1>1. Number(a) \in 0..(SeqMod - 1) /\ Number(b) \in 0..(SeqMod - 1)
  BY NumberType
<1>2. PICK x \in Int : SeqMod - 2 + a = SeqMod * x + Number(a)
  BY Quotient
<1>3. PICK y \in Int : SeqMod - 2 + b = SeqMod * y + Number(b)
  BY Quotient
<1>4. diff \in 0..(SeqMod - 1) /\ \E z \in Int : Number(b) - Number(a) = SeqMod * z + diff
  BY <1>1, Divides
<1>5. PICK z \in Int : Number(b) - Number(a) = SeqMod * z + diff
  BY <1>4
<1>6. Lost(Number(a), Number(b)) = IF diff > 1 /\ diff - 1 < LossCap THEN diff - 1 ELSE 0
  BY DEF Lost
<1> HIDE DEF diff
<1>7. SeqMod * (y - x + z) = SeqMod * y - SeqMod * x + SeqMod * z
      /\ SeqMod * y \in Int /\ SeqMod * x \in Int /\ SeqMod * z \in Int
  BY StatsAssumption
<1>8. b - a = SeqMod * (y - x + z) + diff
  BY <1>1, <1>2, <1>3, <1>4, <1>5, <1>7, StatsAssumption
<1>9. diff <= b - a
  BY <1>4, <1>8, Remains
<1> QED BY <1>4, <1>6, <1>9, StatsAssumption

-----------------------------------------------------------------------------
(***************************************************************************)
(* GapsWereMissed is not inductive: the estimate may count, at a step, all *)
(* that a transmitter's numbers span.  So the frames sent since the last   *)
(* one it was shown are set aside: they were missed, and nothing has been  *)
(* counted for them yet.  The tracker holds the number of that last frame, *)
(* unless it was shown a number of another count.                          *)
(***************************************************************************)
GapTypes ==
    /\ sent \in [Macs -> Nat] /\ seen \in [Macs -> Nat]
    /\ missed \in [Macs -> Nat] /\ guessed \in [Macs -> Nat]
    /\ mixed \subseteq Macs

\* The report being captured is of no frame older than the last one shown.
Newest ==
    cap.at # "idle" /\ cap.frame.nth # Stray =>
        /\ cap.frame.nth >= seen[cap.mac] /\ cap.frame.nth <= sent[cap.mac]
        /\ cap.frame.seq = Number(cap.frame.nth)

Charged ==
    \A m \in Macs :
        /\ seen[m] <= sent[m] /\ sent[m] - seen[m] <= missed[m]
        /\ m \notin mixed => guessed[m] + sent[m] - seen[m] <= missed[m]

Held == \A m \in DOMAIN tracker : m \notin mixed => tracker[m] = Number(seen[m])

GapInv == GapTypes /\ Newest /\ Charged /\ Held

LEMMA GapInit == Init => GapInv
BY SMT DEF Init, GapInv, GapTypes, Newest, Charged, Held, None, Quiet

\* A frame that is received: it and those lost before it are missed so far.
LEMMA CaptureGap ==
    ASSUME GapInv, SentType, NEW m \in Macs, NEW sig \in {0, 1}, NEW frame \in Receivable(m),
           capture_csi_info(m, sig, frame)
    PROVE  GapInv'
<1>1. /\ UNCHANGED <<tracker, mixed, seen, guessed>> /\ SendUpTo(m, frame.nth)
      /\ cap'.at = "idle" \/ (cap'.mac = m /\ cap'.frame = frame)
  BY DEF capture_csi_info, Quiet
<1>2. frame.nth \in Nat \/ frame.nth = Stray
  BY ReceivableType
<1>3. frame.nth # Stray => /\ frame.nth \in Nat /\ frame.nth >= sent[m]
                           /\ frame.seq = Number(frame.nth)
  BY ReceivableType
<1>4. /\ sent[m] \in Nat /\ seen[m] \in Nat /\ missed[m] \in Nat
      /\ sent' \in [Macs -> Nat] /\ missed' \in [Macs -> Nat]
      /\ \A k \in Macs : k # m => sent'[k] = sent[k] /\ missed'[k] = missed[k]
      /\ sent'[m] >= sent[m] /\ missed'[m] - missed[m] = sent'[m] - sent[m]
      /\ frame.nth # Stray => frame.nth = sent'[m]
  <2>1. CASE frame.nth > sent[m]
    BY <1>1, <1>2, <1>3, <2>1 DEF GapInv, GapTypes, SendUpTo, Stray
  <2>2. CASE ~(frame.nth > sent[m])
    BY <1>1, <1>2, <1>3, <2>2 DEF GapInv, GapTypes, SendUpTo, Stray
  <2> QED BY <2>1, <2>2
<1>5. GapTypes' /\ Held'
  BY <1>1, <1>4 DEF GapInv, GapTypes, Held
<1>6. Charged'
  <2>1. ASSUME NEW k \in Macs
        PROVE  /\ seen[k] <= sent'[k] /\ sent'[k] - seen[k] <= missed'[k]
               /\ k \notin mixed => guessed[k] + sent'[k] - seen[k] <= missed'[k]
    <3>1. /\ sent[k] \in Nat /\ seen[k] \in Nat /\ missed[k] \in Nat /\ guessed[k] \in Nat
          /\ sent'[k] \in Nat /\ missed'[k] \in Nat
      BY <1>4 DEF GapInv, GapTypes
    <3>2. /\ seen[k] <= sent[k] /\ sent[k] - seen[k] <= missed[k]
          /\ k \notin mixed => guessed[k] + sent[k] - seen[k] <= missed[k]
      BY DEF GapInv, Charged
    <3>3. CASE k = m
      BY <1>4, <3>1, <3>2, <3>3
    <3>4. CASE k # m
      BY <1>4, <3>1, <3>2, <3>4
    <3> QED BY <3>3, <3>4
  <2> QED BY <1>1, <2>1 DEF Charged
<1>7. Newest'
  <2>1. seen[m] <= sent[m]
    BY DEF GapInv, Charged
  <2> QED BY <1>1, <1>3, <1>4, <2>1 DEF Newest
<1> QED BY <1>5, <1>6, <1>7 DEF GapInv

\* The estimate itself: what it counts is of frames that were set aside.
LEMMA TrackGap ==
    ASSUME GapInv, FilterTypes, CounterTypes, TrackSequence
    PROVE  GapInv'
<1> DEFINE m == cap.mac
           nth == cap.frame.nth
           lost == IF m \in DOMAIN Known THEN Lost(Known[m], cap.frame.seq) ELSE 0
<1>1. /\ cap \in Captures /\ cap.at = "track" /\ m \in Macs /\ nth \in Nat \cup {Stray}
      /\ cap.frame.seq \in 0..(SeqMod - 1)
  BY DEF TrackSequence, At, FilterTypes, Captures
<1>2. /\ guessed' = [guessed EXCEPT ![m] = @ + lost]
      /\ tracker' = Remember(Known, m, cap.frame.seq)
      /\ Show(m, nth) /\ UNCHANGED sent /\ cap' = [cap EXCEPT !.at = "deliver"]
  BY DEF TrackSequence, Goto
<1>3. cap'.mac = m /\ cap'.frame = cap.frame
  BY <1>1, <1>2 DEF Captures
<1>4. lost \in Nat
  BY <1>1, KnownType, LostType
<1>5. /\ m \in DOMAIN tracker' /\ tracker'[m] = cap.frame.seq
      /\ \A k \in DOMAIN tracker' : k # m => k \in DOMAIN tracker /\ tracker'[k] = tracker[k]
  BY <1>2 DEF Remember, Known
<1>6. \A k \in Macs : /\ sent[k] \in Nat /\ seen[k] \in Nat
                      /\ missed[k] \in Nat /\ guessed[k] \in Nat
  BY DEF GapInv, GapTypes
<1>7. \A k \in Macs :
         /\ seen[k] <= sent[k] /\ sent[k] - seen[k] <= missed[k]
         /\ k \notin mixed => guessed[k] + sent[k] - seen[k] <= missed[k]
  BY DEF GapInv, Charged
<1>8. CASE nth = Stray
  <2>1. mixed' = mixed \cup {m} /\ UNCHANGED <<seen, missed>>
    BY <1>2, <1>8 DEF Show
  <2>2. GapTypes'
    <3> HIDE DEF lost, m
    <3> QED BY <1>1, <1>2, <1>4, <2>1 DEF GapInv, GapTypes
  <2>3. Newest'
    BY <1>3, <1>8 DEF Newest
  <2>4. Charged'
    <3>1. \A k \in Macs : k # m => guessed'[k] = guessed[k]
      BY <1>2 DEF GapInv, GapTypes
    <3> QED BY <1>2, <1>7, <2>1, <3>1 DEF Charged
  <2>5. Held'
    BY <1>5, <2>1 DEF GapInv, Held
  <2> QED BY <2>2, <2>3, <2>4, <2>5 DEF GapInv
<1>9. CASE nth # Stray
  <2>1. /\ nth \in Nat /\ nth >= seen[m] /\ nth <= sent[m] /\ cap.frame.seq = Number(nth)
    BY <1>1, <1>9 DEF GapInv, Newest
  <2>2. /\ seen' = [seen EXCEPT ![m] = nth] /\ UNCHANGED mixed
        /\ missed' = [missed EXCEPT ![m] = IF nth = seen[m] THEN @ ELSE @ - 1]
    BY <1>2, <1>9 DEF Show
  <2>3. m \notin mixed => lost + (IF nth = seen[m] THEN 0 ELSE 1) <= nth - seen[m]
    <3>1. CASE m \in DOMAIN Known
      <4>1. m \in DOMAIN tracker /\ Known[m] = tracker[m]
        BY <3>1 DEF Known
      <4>2. m \notin mixed => lost = Lost(Number(seen[m]), Number(nth))
        BY <2>1, <3>1, <4>1 DEF GapInv, Held
      <4> QED BY <1>1, <1>6, <2>1, <4>2, Between
    <3>2. CASE m \notin DOMAIN Known
      <4>1. lost = 0
        BY <3>2
      <4> HIDE DEF lost
      <4> QED BY <1>1, <1>6, <2>1, <4>1
    <3> QED BY <3>1, <3>2
  <2> HIDE DEF lost
  <2>4. /\ missed'[m] = (IF nth = seen[m] THEN missed[m] ELSE missed[m] - 1)
        /\ seen'[m] = nth /\ guessed'[m] = guessed[m] + lost
        /\ \A k \in Macs : k # m => /\ missed'[k] = missed[k] /\ seen'[k] = seen[k]
                                    /\ guessed'[k] = guessed[k]
    BY <1>1, <1>2, <2>2 DEF GapInv, GapTypes
  <2>5. missed'[m] \in Nat
    BY <1>1, <1>6, <1>7, <2>1, <2>4
  <2>6. GapTypes'
    <3>1. missed' \in [Macs -> Nat]
      <4>1. (IF nth = seen[m] THEN missed[m] ELSE missed[m] - 1) \in Nat
        BY <2>4, <2>5
      <4> HIDE DEF m, nth
      <4> QED BY <2>2, <4>1 DEF GapInv, GapTypes
    <3>2. seen' \in [Macs -> Nat] /\ guessed' \in [Macs -> Nat]
      <4> HIDE DEF m, nth
      <4> QED BY <1>1, <1>2, <1>4, <1>6, <2>1, <2>2 DEF GapInv, GapTypes
    <3> QED BY <1>2, <2>2, <3>1, <3>2 DEF GapInv, GapTypes
  <2>7. Newest'
    BY <1>2, <1>3, <2>1, <2>4 DEF Newest
  <2>8. Charged'
    <3>1. ASSUME NEW k \in Macs
          PROVE  /\ seen'[k] <= sent[k] /\ sent[k] - seen'[k] <= missed'[k]
                 /\ k \notin mixed => guessed'[k] + sent[k] - seen'[k] <= missed'[k]
      <4>1. CASE k = m
        <5>1. /\ sent[m] \in Nat /\ seen[m] \in Nat /\ missed[m] \in Nat /\ guessed[m] \in Nat
              /\ seen[m] <= sent[m] /\ sent[m] - seen[m] <= missed[m]
              /\ m \notin mixed => guessed[m] + sent[m] - seen[m] <= missed[m]
          BY <1>1, <1>6, <1>7
        <5> HIDE DEF m, nth
        <5> QED BY <1>4, <2>1, <2>3, <2>4, <4>1, <5>1
      <4>2. CASE k # m
        BY <1>7, <2>4, <4>2
      <4> QED BY <4>1, <4>2
    <3> QED BY <1>2, <2>2, <3>1 DEF Charged
  <2>9. Held'
    <3>1. tracker'[m] = Number(seen'[m])
      BY <1>5, <2>1, <2>4
    <3>2. ASSUME NEW k \in DOMAIN tracker', k # m, k \notin mixed
          PROVE  tracker'[k] = Number(seen'[k])
      <4>1. k \in DOMAIN tracker /\ tracker'[k] = tracker[k] /\ k \in Macs
        BY <1>5, <3>2 DEF CounterTypes
      <4>2. tracker[k] = Number(seen[k])
        BY <3>2, <4>1 DEF GapInv, Held
      <4> QED BY <2>4, <3>2, <4>1, <4>2
    <3> HIDE DEF m
    <3> QED BY <2>2, <3>1, <3>2 DEF Held
  <2> QED BY <2>6, <2>7, <2>8, <2>9 DEF GapInv
<1> QED BY <1>8, <1>9

LEMMA GapStep ==
    ASSUME GapInv, SentType, FilterTypes, CounterTypes, [Next]_vars
    PROVE  GapInv'
<1>1. cap.at = "idle" \/ cap \in Captures
  BY DEF FilterTypes
<1>2. ASSUME UNCHANGED <<tracker, airVars>>,
             cap'.at # "idle" => /\ cap.at # "idle" /\ cap'.mac = cap.mac
                                 /\ cap'.frame = cap.frame
      PROVE  GapInv'
  <2>1. Newest'
    BY <1>2 DEF GapInv, Newest, airVars
  <2> QED BY <1>2, <2>1 DEF GapInv, GapTypes, Charged, Held, airVars
<1>3. CASE NodeTask \/ UNCHANGED vars
  <2>1. UNCHANGED <<tracker, airVars, cap>>
    BY <1>3 DEF NodeTask, run_inner, reset, stats_begin_run, set_csi, EnterProcess,
       OutputChanged, RateTick, StopRun, vars
  <2> QED BY <1>2, <2>1
<1>4. CASE User
  <2>1. UNCHANGED <<tracker, airVars>>
    BY <1>4 DEF User, set_csi_output_enabled, set_csi_peer_filter, set_csi_min_sig_mode,
       refresh_filter_active, LoadFilter, StoreActive
  <2>2. cap' = cap \/ cap' = IF cap.at = "idle" THEN cap ELSE [cap EXCEPT !.settled = FALSE]
    BY <1>4 DEF User, set_csi_output_enabled, set_csi_peer_filter, set_csi_min_sig_mode,
       refresh_filter_active, LoadFilter, StoreActive
  <2>3. cap.at # "idle" => LET c == [cap EXCEPT !.settled = FALSE]
                           IN  c.at = cap.at /\ c.mac = cap.mac /\ c.frame = cap.frame
    BY <1>1, Zenon DEF Captures
  <2>4. cap'.at # "idle" => /\ cap.at # "idle" /\ cap'.mac = cap.mac
                            /\ cap'.frame = cap.frame
    BY <2>2, <2>3, Zenon
  <2> QED BY <1>2, <2>1, <2>4
<1>5. CASE csi_passes_filter \/ Reject \/ from_wifi_csi_info \/ Deliver
  <2>1. UNCHANGED <<tracker, airVars>>
    BY <1>5 DEF csi_passes_filter, LoadActive, LoadPeer, LoadMin, Reject, CountDrop,
       from_wifi_csi_info, Deliver
  <2>2. cap'.at = "idle" \/ (cap.at # "idle" /\ \E at \in Steps : Goto(at))
    BY <1>5 DEF csi_passes_filter, LoadActive, LoadPeer, LoadMin, Reject, CountDrop,
       from_wifi_csi_info, Deliver, At, Steps, Quiet
  <2>3. ASSUME NEW at \in Steps, cap.at # "idle", Goto(at)
        PROVE  cap'.mac = cap.mac /\ cap'.frame = cap.frame
    BY <1>1, <2>3 DEF Captures, Goto
  <2>4. cap'.at # "idle" => /\ cap.at # "idle" /\ cap'.mac = cap.mac
                            /\ cap'.frame = cap.frame
    BY <2>2, <2>3
  <2> QED BY <1>2, <2>1, <2>4
<1> QED BY <1>3, <1>4, <1>5, CaptureGap, TrackGap DEF Next, WifiTask

\* Every variable keeps its type: the table of sequence numbers stays within its
\* capacity, and no frame is shown to it more often than it was sent.
THEOREM StatsTypes == Spec => []TypeOK
<1> DEFINE Types == SentType /\ FilterInv /\ CounterInv /\ RestTypes /\ GapInv /\ TrackerBound
<1>1. Init => Types
  <2>1. Init => SentType
    BY DEF Init, SentType, None
  <2>2. Init => RestTypes
    <3>1. Init => /\ armed \in BOOLEAN /\ detect \in BOOLEAN
                  /\ forget \in BOOLEAN /\ changed \in BOOLEAN
      BY Zenon DEF Init
    <3>2. 0 \in 0..MaxRuns /\ 0 \in 0..MaxEvents
      BY StatsAssumption
    <3> QED BY <3>1, <3>2 DEF Init, RestTypes, Kinds
  <2>3. Init => TrackerBound
    <3>1. DOMAIN << >> = {} /\ TrackCap >= 0
      BY StatsAssumption
    <3> QED BY <3>1, FS_EmptySet DEF Init, TrackerBound
  <2> QED BY <2>1, <2>2, <2>3, InitFilter, InitCounters, GapInit
<1>2. Types /\ [Next]_vars => Types'
  BY SentStep, FilterStep, CounterStep, RestStep, GapStep, TrackerStep
     DEF FilterInv, CounterInv
<1>3. Types => TypeOK
  BY DEF SentType, FilterInv, FilterTypes, CounterInv, CounterTypes, RestTypes, GapInv,
     GapTypes, TrackerBound, TypeOK
<1> HIDE DEF Types
<1> QED BY <1>1, <1>2, <1>3, PTL DEF Spec

\* The drops that the sequence-gap estimate charges to a transmitter with one running
\* count are of frames that it really sent and that were not seen, for any transmitters
\* and any length of the number cycle: across its wraps, frames sent again, rejected
\* reports, a full or forgotten table, the ends of runs and the stray numbers of others.
THEOREM GapsAreReal == Spec => []GapsWereMissed
<1> DEFINE All == SentType /\ FilterInv /\ CounterInv /\ GapInv
<1>1. Init => All
  <2>1. Init => SentType
    BY DEF Init, SentType, None
  <2> QED BY <2>1, InitFilter, InitCounters, GapInit
<1>2. All /\ [Next]_vars => All'
  BY SentStep, FilterStep, CounterStep, GapStep DEF FilterInv, CounterInv
<1>3. All => GapsWereMissed
  BY DEF GapInv, GapTypes, Charged, GapsWereMissed
<1> HIDE DEF All
<1> QED BY <1>1, <1>2, <1>3, PTL DEF Spec
=============================================================================
