------------------------ MODULE EspNowExchange_proofs ------------------------
(***************************************************************************)
(* Theorems about EspNowExchange, for any centrals, pool capacity,         *)
(* hysteresis, configurations and number of runs.                          *)
(***************************************************************************)
EXTENDS EspNowExchange, TLAPS

\* The frames that are heard are frames.
LEMMA HeardFrames ==
    ASSUME TypeOK, NEW c \in Centrals, central[c] # Off
    PROVE  ControlPacket(c) \in Frames
  BY DEF TypeOK, AllCentralKinds, ControlPacket, Frames

\* The pool loses nothing but the newest frame: what a step makes of it.
LEMMA PoolTypes ==
    ASSUME TypeOK
    PROVE  /\ \A f \in Frames : pool_rcv_cb(f) =>
                 /\ pool' \in Seq(Frames)
                 /\ Len(pool') <= PoolCap
           /\ pool # <<>> =>
                 /\ Head(pool) \in Frames
                 /\ Tail(pool) \in Seq(Frames)
                 /\ Len(Tail(pool)) <= PoolCap
<1>1. pool \in Seq(Frames) /\ Len(pool) <= PoolCap /\ PoolCap \in Nat
  BY ExchangeAssumption DEF TypeOK
<1>2. ASSUME NEW f \in Frames, pool_rcv_cb(f)
      PROVE  pool' \in Seq(Frames) /\ Len(pool') <= PoolCap
  <2>1. CASE Len(pool) < PoolCap
    <3>1. pool' = Append(pool, f)
      BY <1>2, <2>1 DEF pool_rcv_cb
    <3> QED
      BY <1>1, <2>1, <3>1
  <2>2. CASE ~(Len(pool) < PoolCap)
    BY <1>1, <1>2, <2>2 DEF pool_rcv_cb
  <2> QED
    BY <2>1, <2>2
<1>3. ASSUME pool # <<>>
      PROVE  /\ Head(pool) \in Frames
             /\ Tail(pool) \in Seq(Frames)
             /\ Len(Tail(pool)) <= PoolCap
  BY <1>1, <1>3
<1> QED
  BY <1>2, <1>3

\* An accepted frame comes from a central.
LEMMA AcceptedFrames ==
    ASSUME NEW f \in Frames, Accepted(f)
    PROVE  f.src \in Centrals /\ f.listener \in BOOLEAN
  BY DEF Accepted, Frames, Noise

LEMMA FollowTypes ==
    ASSUME NEW s \in Responders, NEW listener \in BOOLEAN
    PROVE  /\ Follow(s, listener) \in Responders
           /\ Follow(s, listener).connected = s.connected
           /\ Follow(s, listener).central = s.central
           /\ Follow(s, listener).pending = s.pending
<1>1. StreakMax \in Nat /\ Hysteresis \in Nat /\ StreakMax > 1
  BY ExchangeAssumption
<1> DEFINE streak == IF s.streak < StreakMax THEN s.streak + 1 ELSE StreakMax
<1>2. streak \in 0..StreakMax /\ 1 \in 0..StreakMax
  BY <1>1 DEF Responders
<1> HIDE DEF streak
<1>3. CASE listener # s.prev
  BY <1>2, <1>3 DEF Follow, Responders
<1>4. CASE listener = s.prev
  <2>1. Follow(s, listener) = [s EXCEPT !.streak = streak,
                                        !.collector = @ \/ (streak = Hysteresis /\ listener)]
    BY <1>4 DEF Follow, streak
  <2>2. (s.collector \/ (streak = Hysteresis /\ listener)) \in BOOLEAN
    BY Zenon DEF Responders
  <2> QED
    BY <1>2, <2>1, <2>2 DEF Responders
<1> QED
  BY <1>3, <1>4

LEMMA AnsweringTypes ==
    ASSUME NEW s \in Responders, NEW f \in Frames, f.src \in Centrals, NEW registers \in BOOLEAN
    PROVE  /\ Answering(s, f, registers) \in Responders
           /\ Answering(s, f, registers).connected = (s.connected \/ registers)
           /\ Answering(s, f, registers).central \in {s.central, f.src}
           /\ s.connected => Answering(s, f, registers).central = s.central
           /\ ~s.connected /\ registers => Answering(s, f, registers).central = f.src
           /\ Answering(s, f, registers).prev = s.prev
           /\ Answering(s, f, registers).streak = s.streak
           /\ Answering(s, f, registers).collector = s.collector
<1>1. (s.connected \/ registers) \in BOOLEAN
  BY Zenon DEF Responders
<1> QED
  BY <1>1 DEF Answering, Responders

Histories == [from : SUBSET Centrals, row : 0..Hysteresis, steady : BOOLEAN]

LEMMA NoteTypes ==
    ASSUME heard \in Histories, NEW f \in Frames, f.src \in Centrals
    PROVE  Note(f) \in Histories
<1> DEFINE row == IF ~f.listener THEN 0
                  ELSE IF heard.row < Hysteresis THEN heard.row + 1 ELSE Hysteresis
<1>1. row \in 0..Hysteresis
  BY ExchangeAssumption DEF Histories
<1> HIDE DEF row
<1>2. (heard.steady \/ row = Hysteresis) \in BOOLEAN
  BY Zenon DEF Histories
<1>3. Note(f) = [from |-> heard.from \cup {f.src}, row |-> row,
                 steady |-> heard.steady \/ row = Hysteresis]
  BY DEF Note, row
<1> QED
  BY <1>1, <1>2, <1>3 DEF Histories

LEMMA IngestTypes ==
    ASSUME TypeOK, NEW f \in Frames, ingest_control_packet(f)
    PROVE  shared' \in Responders /\ heard' \in Histories
<1>1. shared \in Responders /\ heard \in Histories /\ setting.tx \in BOOLEAN
  BY DEF TypeOK, Histories, AllSettings
<1>2. CASE ~Accepted(f) /\ UNCHANGED <<shared, heard>>
  BY <1>1, <1>2
<1>3. CASE Accepted(f)
  <2>1. PICK registers \in BOOLEAN :
            shared' = Follow(IF setting.tx THEN Answering(shared, f, registers) ELSE shared,
                             f.listener)
    BY <1>3 DEF ingest_control_packet
  <2>2. f.src \in Centrals /\ f.listener \in BOOLEAN
    BY <1>3, AcceptedFrames
  <2>3. (IF setting.tx THEN Answering(shared, f, registers) ELSE shared) \in Responders
    BY <1>1, <2>2, AnsweringTypes
  <2>4. shared' \in Responders
    BY <2>1, <2>2, <2>3, FollowTypes
  <2>5. heard' = Note(f)
    BY <1>3 DEF ingest_control_packet
  <2> QED
    BY <1>1, <2>2, <2>4, <2>5, NoteTypes
<1> QED
  BY <1>2, <1>3 DEF ingest_control_packet

LEMMA ReceiveTypes ==
    ASSUME TypeOK, NEW from \in LoopPcs, NEW to \in LoopPcs, Receive(from, to)
    PROVE  TypeOK'
<1>1. Head(pool) \in Frames /\ pool' \in Seq(Frames) /\ Len(pool') <= PoolCap
  BY PoolTypes DEF Receive
<1>2. shared' \in Responders /\ heard' \in Histories
  BY <1>1, IngestTypes DEF Receive
<1> QED
  BY <1>1, <1>2 DEF Receive, TypeOK, Histories

LEMMA GotoTypes ==
    ASSUME TypeOK, NEW from \in LoopPcs, NEW to \in LoopPcs, Goto(from, to),
           registered' \in BOOLEAN, woken' \in BOOLEAN
    PROVE  TypeOK'
  BY DEF Goto, TypeOK

LEMMA FreshTypes ==
    ASSUME NEW peer \in Centrals \cup {NoCentral}, NEW collector \in BOOLEAN
    PROVE  Responder(peer, collector) \in Responders
<1>1. 0 \in 0..StreakMax
  BY ExchangeAssumption
<1> QED
  BY <1>1 DEF Responder, Responders

LEMMA TypeStep ==
    ASSUME TypeOK, [Next]_vars
    PROVE  TypeOK'
<1> USE ExchangeAssumption
<1>1. CASE UNCHANGED vars
  BY <1>1 DEF vars, receiver, TypeOK
<1>2. ASSUME NEW c \in Centrals, CentralStart(c) \/ CentralStop(c)
      PROVE  TypeOK'
  <2>1. central' \in [Centrals -> AllCentralKinds \cup {Off}]
    BY <1>2 DEF CentralStart, CentralStop, TypeOK
  <2> QED
    BY <1>2, <2>1 DEF CentralStart, CentralStop, receiver, TypeOK
<1>3. ASSUME NEW f \in Frames, pool_rcv_cb(f)
      PROVE  TypeOK'
  <2>1. pool' \in Seq(Frames) /\ Len(pool') <= PoolCap
    BY <1>3, PoolTypes
  <2> QED
    BY <1>3, <2>1 DEF pool_rcv_cb, TypeOK
<1>4. CASE Wake
  <2>1. (woken \/ registered) \in BOOLEAN
    BY Zenon DEF TypeOK
  <2> QED
    BY <1>4, <2>1 DEF Wake, TypeOK
<1>5. CASE set_raw_listen
  BY <1>5 DEF set_raw_listen, TypeOK
<1>6. ASSUME NEW s \in Settings, run_esp_now_peripheral(s)
      PROVE  TypeOK'
  <2>1. s \in AllSettings
    BY <1>6
  <2>2. Responder(s.peer, s.collector) \in Responders
    BY <2>1, FreshTypes DEF AllSettings
  <2> QED
    BY <1>6, <2>1, <2>2 DEF run_esp_now_peripheral, TypeOK, LoopPcs
<1>7. CASE suppress_espnow_rx
  BY <1>7 DEF suppress_espnow_rx, TypeOK
<1>8. CASE RunStop
  <2>1. Responder(NoCentral, FALSE) \in Responders
    BY FreshTypes
  <2>2. Silence \in [from : SUBSET Centrals, row : 0..Hysteresis, steady : BOOLEAN]
    BY DEF Silence
  <2>3. Idle \in AllSettings
    BY DEF Idle, AllSettings
  <2> QED
    BY <1>8, <2>1, <2>2, <2>3 DEF RunStop, receiver, TypeOK
<1>9. CASE Serve
  BY <1>9, ReceiveTypes, GotoTypes DEF Serve, LoopPcs, TypeOK
<1>10. CASE Reply
  <2>1. ASSUME pc' = "send", shared' = [shared EXCEPT !.pending = FALSE],
               heard' = [heard EXCEPT !.from = {}], UNCHANGED <<central, receiver, setting, due>>
        PROVE  TypeOK'
    <3>1. shared' \in Responders
      BY <2>1 DEF TypeOK, Responders
    <3>2. heard' \in [from : SUBSET Centrals, row : 0..Hysteresis, steady : BOOLEAN]
      BY <2>1 DEF TypeOK
    <3> QED
      BY <2>1, <3>1, <3>2 DEF receiver, TypeOK, LoopPcs
  <2>2. CASE Goto("tx", "await") /\ UNCHANGED <<registered, woken>>
    BY <2>2, GotoTypes DEF LoopPcs, TypeOK
  <2> QED
    BY <1>10, <2>1, <2>2 DEF Reply
<1>11. CASE SendDone
  BY <1>11 DEF SendDone, receiver, TypeOK, LoopPcs
<1>12. CASE Slept
  BY <1>12, GotoTypes DEF Slept, LoopPcs, TypeOK
<1>13. CASE receive_async
  BY <1>13, ReceiveTypes, GotoTypes DEF receive_async, LoopPcs, TypeOK
<1>14. CASE Drain
  BY <1>14, ReceiveTypes, GotoTypes DEF Drain, LoopPcs, TypeOK
<1>15. CASE Repoll
  BY <1>15, GotoTypes DEF Repoll, LoopPcs, TypeOK
<1>16. CASE Tick
  BY <1>16 DEF Tick, receiver, TypeOK
<1>17. ASSUME NEW c \in Centrals, Hear(c)
       PROVE  TypeOK'
  BY <1>3, <1>17, HeardFrames DEF Hear
<1>18. Noise \in Frames
  BY DEF Frames
<1> QED
  BY <1>1, <1>2, <1>3, <1>4, <1>5, <1>6, <1>7, <1>8, <1>9, <1>10, <1>11, <1>12, <1>13,
     <1>14, <1>15, <1>16, <1>17, <1>18 DEF Next, responder

\* Every reachable state has its type: the pool stays within its capacity and the
\* streak within its width.
THEOREM ExchangeTypes == Spec => []TypeOK
<1>1. Init => TypeOK
  <2>1. SUFFICES ASSUME Init PROVE TypeOK
    OBVIOUS
  <2>2. Responder(NoCentral, FALSE) \in Responders
    BY FreshTypes
  <2>3. Silence \in [from : SUBSET Centrals, row : 0..Hysteresis, steady : BOOLEAN]
    BY ExchangeAssumption DEF Silence
  <2>4. Idle \in AllSettings
    BY DEF Idle, AllSettings
  <2>5. pool \in Seq(Frames) /\ Len(pool) <= PoolCap
    BY <2>1, ExchangeAssumption DEF Init
  <2>6. central \in [Centrals -> AllCentralKinds \cup {Off}]
    BY <2>1 DEF Init
  <2> QED
    BY <2>1, <2>2, <2>3, <2>4, <2>5, <2>6 DEF Init, TypeOK
<1> QED
  BY <1>1, TypeStep, PTL DEF Spec

-----------------------------------------------------------------------------
(***************************************************************************)
(* The hysteresis.  The responder keeps the last mode and how often it was *)
(* seen in a row; the history counts listener's frames.  The two agree.    *)
(***************************************************************************)
Capped(n) == IF n < Hysteresis THEN n ELSE Hysteresis

HeardInv ==
    /\ pc = "off" => heard = Silence
    /\ pc # "off" =>
          /\ heard.row = IF shared.prev THEN Capped(shared.streak) ELSE 0
          /\ heard.row = Hysteresis => heard.steady
          /\ FollowsSteadyListener

\* Following one more frame, and noting it, keeps them in agreement.
LEMMA FollowAgrees ==
    ASSUME NEW s \in Responders, heard \in Histories, NEW f \in Frames,
           f.src \in Centrals, f.listener \in BOOLEAN, NEW started \in BOOLEAN,
           heard.row = IF s.prev THEN Capped(s.streak) ELSE 0,
           heard.row = Hysteresis => heard.steady,
           s.collector <=> started \/ heard.steady
    PROVE  LET t == Follow(s, f.listener)
               h == Note(f)
           IN  /\ h.row = IF t.prev THEN Capped(t.streak) ELSE 0
               /\ h.row = Hysteresis => h.steady
               /\ t.collector <=> started \/ h.steady
<1> DEFINE t == Follow(s, f.listener)
           h == Note(f)
<1>0. /\ Hysteresis \in Nat /\ Hysteresis > 1 /\ StreakMax \in Nat /\ StreakMax > Hysteresis
      /\ s.streak \in 0..StreakMax /\ s.prev \in BOOLEAN /\ s.collector \in BOOLEAN
      /\ heard.row \in 0..Hysteresis /\ heard.steady \in BOOLEAN
  BY ExchangeAssumption DEF Responders, Histories
<1>1. CASE ~f.listener
  <2>1. h.row = 0 /\ h.row # Hysteresis
    BY <1>0, <1>1 DEF Note
  <2>2. h.steady <=> heard.steady
    BY <1>0, <1>1 DEF Note
  <2>3. t.prev = FALSE
    BY <1>0, <1>1 DEF Follow, Responders
  <2>4. t.collector <=> s.collector
    BY <1>0, <1>1 DEF Follow, Responders
  <2> QED
    BY <2>1, <2>2, <2>3, <2>4
<1>2. CASE f.listener /\ ~s.prev
  <2>1. heard.row = 0
    BY <1>2
  <2>2. h.row = 1 /\ (h.steady <=> heard.steady)
    BY <1>0, <1>2, <2>1 DEF Note
  <2>3. t.prev = TRUE /\ t.streak = 1 /\ t.collector = s.collector
    BY <1>0, <1>2 DEF Follow, Responders
  <2> QED
    BY <1>0, <2>2, <2>3 DEF Capped
<1>3. CASE f.listener /\ s.prev
  <2> DEFINE streak == IF s.streak < StreakMax THEN s.streak + 1 ELSE StreakMax
             row == IF heard.row < Hysteresis THEN heard.row + 1 ELSE Hysteresis
  <2>1. h.row = row /\ (h.steady <=> heard.steady \/ row = Hysteresis)
    BY <1>0, <1>3 DEF Note
  <2>2. f.listener = s.prev
    BY <1>0, <1>3
  <2>3. t = [s EXCEPT !.streak = streak,
                      !.collector = @ \/ (streak = Hysteresis /\ f.listener)]
    BY <2>2 DEF Follow
  <2>4. /\ t.prev = s.prev
        /\ t.streak = streak
        /\ t.collector <=> s.collector \/ streak = Hysteresis
    BY <1>0, <1>3, <2>3 DEF Responders
  <2>5. heard.row = Capped(s.streak)
    BY <1>3
  <2>6. row = Capped(streak)
    BY <1>0, <2>5 DEF Capped
  <2>7. row = Hysteresis => heard.row = Hysteresis \/ streak = Hysteresis
    BY <1>0, <2>5 DEF Capped
  <2>8. streak = Hysteresis => row = Hysteresis
    BY <1>0, <2>6 DEF Capped
  <2> HIDE DEF streak, row
  <2>9. t.collector <=> started \/ h.steady
    BY <2>1, <2>4, <2>7, <2>8
  <2> QED
    BY <1>3, <2>1, <2>4, <2>6, <2>9
<1> QED
  BY <1>0, <1>1, <1>2, <1>3

LEMMA IngestAgrees ==
    ASSUME TypeOK, HeardInv, pc # "off", NEW f \in Frames, ingest_control_packet(f),
           pc' # "off", setting' = setting
    PROVE  HeardInv'
<1>0. /\ shared \in Responders /\ heard \in Histories
      /\ setting.tx \in BOOLEAN /\ setting.collector \in BOOLEAN
  BY DEF TypeOK, Histories, AllSettings
<1>1. CASE UNCHANGED <<shared, heard>>
  BY <1>1 DEF HeardInv, FollowsSteadyListener
<1>2. CASE Accepted(f)
  <2>1. PICK registers \in BOOLEAN :
            shared' = Follow(IF setting.tx THEN Answering(shared, f, registers) ELSE shared,
                             f.listener)
    BY <1>2 DEF ingest_control_packet
  <2> DEFINE s == IF setting.tx THEN Answering(shared, f, registers) ELSE shared
  <2>2. f.src \in Centrals /\ f.listener \in BOOLEAN
    BY <1>2, AcceptedFrames
  <2>3. s \in Responders /\ s.prev = shared.prev /\ s.streak = shared.streak
            /\ s.collector = shared.collector
    BY <1>0, <2>2, AnsweringTypes
  <2>4. heard' = Note(f) /\ shared' = Follow(s, f.listener)
    BY <1>2, <2>1 DEF ingest_control_packet
  <2> HIDE DEF s
  <2>5. /\ heard.row = IF s.prev THEN Capped(s.streak) ELSE 0
        /\ heard.row = Hysteresis => heard.steady
        /\ s.collector <=> setting.collector \/ heard.steady
    BY <2>3 DEF HeardInv, FollowsSteadyListener
  <2>6. LET t == Follow(s, f.listener)
            h == Note(f)
        IN  /\ h.row = IF t.prev THEN Capped(t.streak) ELSE 0
            /\ h.row = Hysteresis => h.steady
            /\ t.collector <=> setting.collector \/ h.steady
    BY <1>0, <2>2, <2>3, <2>5, FollowAgrees
  <2> QED
    BY <2>4, <2>6 DEF HeardInv, FollowsSteadyListener, Capped
<1> QED
  BY <1>1, <1>2 DEF ingest_control_packet

LEMMA HeardStep ==
    ASSUME TypeOK, HeardInv, [Next]_vars
    PROVE  HeardInv'
<1> USE DEF HeardInv, FollowsSteadyListener
<1>1. ASSUME UNCHANGED <<setting, shared, heard>>, pc' = "off" <=> pc = "off"
      PROVE  HeardInv'
  BY <1>1 DEF Capped
<1>2. ASSUME NEW from \in LoopPcs, NEW to \in LoopPcs, Goto(from, to)
      PROVE  HeardInv'
  BY <1>1, <1>2 DEF Goto, LoopPcs
<1>3. ASSUME NEW from \in LoopPcs, NEW to \in LoopPcs, Receive(from, to)
      PROVE  HeardInv'
  <2>1. Head(pool) \in Frames
    BY <1>3, PoolTypes DEF Receive
  <2>2. ingest_control_packet(Head(pool)) /\ pc # "off" /\ pc' # "off" /\ setting' = setting
    BY <1>3 DEF Receive, LoopPcs
  <2> QED
    BY <2>1, <2>2, IngestAgrees
<1>4. CASE UNCHANGED vars
  BY <1>1, <1>4 DEF vars
<1>5. ASSUME NEW c \in Centrals, CentralStart(c) \/ CentralStop(c)
      PROVE  HeardInv'
  BY <1>1, <1>5 DEF CentralStart, CentralStop
<1>6. ASSUME NEW f, pool_rcv_cb(f)
      PROVE  HeardInv'
  BY <1>1, <1>6 DEF pool_rcv_cb
<1>7. CASE Wake \/ set_raw_listen \/ suppress_espnow_rx \/ Tick
  BY <1>1, <1>7 DEF Wake, set_raw_listen, suppress_espnow_rx, Tick
<1>8. ASSUME NEW s \in Settings, run_esp_now_peripheral(s)
      PROVE  HeardInv'
  <2>1. heard' = Silence /\ setting' = s /\ shared' = Responder(s.peer, s.collector)
    BY <1>8 DEF run_esp_now_peripheral
  <2> QED
    BY <2>1, <1>8, ExchangeAssumption DEF run_esp_now_peripheral, Silence, Responder
<1>9. CASE RunStop
  BY <1>9 DEF RunStop
<1>10. CASE Reply
  <2>1. ASSUME pc = "tx", pc' = "send", shared' = [shared EXCEPT !.pending = FALSE],
               heard' = [heard EXCEPT !.from = {}], UNCHANGED <<central, receiver, setting, due>>
        PROVE  HeardInv'
    <3>1. /\ shared'.prev = shared.prev /\ shared'.streak = shared.streak
          /\ shared'.collector = shared.collector
      BY <2>1 DEF TypeOK, Responders
    <3>2. heard'.row = heard.row /\ heard'.steady = heard.steady
      BY <2>1 DEF TypeOK
    <3> QED
      BY <2>1, <3>1, <3>2 DEF Capped
  <2> QED
    BY <1>2, <1>10, <2>1 DEF Reply, LoopPcs
<1>11. CASE SendDone
  BY <1>1, <1>11 DEF SendDone
<1>12. CASE Serve \/ Slept \/ receive_async \/ Drain \/ Repoll
  BY <1>2, <1>3, <1>12 DEF Serve, Slept, receive_async, Drain, Repoll, LoopPcs
<1> QED
  BY <1>4, <1>5, <1>6, <1>7, <1>8, <1>9, <1>10, <1>11, <1>12 DEF Next, responder, Hear

\* A responder is a collector exactly if it was configured as one or has ingested
\* Hysteresis listener's frames in a row, for every length of the hysteresis.
THEOREM SteadyListenerFollowed == Spec => []FollowsSteadyListener
<1>1. Init => HeardInv
  BY DEF Init, HeardInv
<1>2. HeardInv => FollowsSteadyListener
  BY DEF HeardInv, FollowsSteadyListener
<1> QED
  BY <1>1, <1>2, ExchangeTypes, HeardStep, PTL DEF Spec

-----------------------------------------------------------------------------
(***************************************************************************)
(* The replies: an owed reply is owed to the locked central.               *)
(***************************************************************************)
OwedInv == shared.connected /\ shared.pending => shared.central \in heard.from

LEMMA OwedStep ==
    ASSUME TypeOK, OwedInv, [Next]_vars
    PROVE  OwedInv'
<1> USE DEF OwedInv
<1>1. ASSUME UNCHANGED <<shared, heard>>
      PROVE  OwedInv'
  BY <1>1
<1>2. ASSUME NEW from, NEW to, Goto(from, to)
      PROVE  OwedInv'
  BY <1>1, <1>2 DEF Goto
<1>3. ASSUME NEW from, NEW to, Receive(from, to)
      PROVE  OwedInv'
  <2>1. Head(pool) \in Frames /\ ingest_control_packet(Head(pool))
    BY <1>3, PoolTypes DEF Receive
  <2> DEFINE f == Head(pool)
  <2>2. CASE ~Accepted(f)
    BY <1>1, <2>1, <2>2 DEF ingest_control_packet
  <2>3. CASE Accepted(f)
    <3>1. PICK registers \in BOOLEAN :
              shared' = Follow(IF setting.tx THEN Answering(shared, f, registers) ELSE shared,
                               f.listener)
      BY <2>1, <2>3 DEF ingest_control_packet
    <3> DEFINE s == IF setting.tx THEN Answering(shared, f, registers) ELSE shared
    <3>2. f.src \in Centrals /\ f.listener \in BOOLEAN
      BY <2>1, <2>3, AcceptedFrames
    <3>3. shared \in Responders
      BY DEF TypeOK
    <3>4. s \in Responders
      BY <2>1, <3>2, <3>3, AnsweringTypes
    <3>5. /\ shared'.connected = s.connected /\ shared'.central = s.central
          /\ shared'.pending = s.pending
      BY <3>1, <3>2, <3>4, FollowTypes
    <3>6. heard'.from = heard.from \cup {f.src}
      BY <2>1, <2>3 DEF ingest_control_packet, Note
    <3>7. CASE setting.tx
      <4>1. shared.connected => s.central = shared.central
        BY <2>1, <3>2, <3>3, <3>7, AnsweringTypes
      <4>2. shared.connected => shared.central = f.src
        BY <2>3 DEF Accepted
      <4>3. ~shared.connected /\ s.connected => s.central = f.src
        BY <2>1, <3>2, <3>3, <3>7, AnsweringTypes
      <4> QED
        BY <3>5, <3>6, <4>1, <4>2, <4>3
    <3>8. CASE ~setting.tx
      BY <3>5, <3>6, <3>8
    <3> QED
      BY <3>7, <3>8
  <2> QED
    BY <2>2, <2>3
<1>4. CASE UNCHANGED vars
  BY <1>1, <1>4 DEF vars
<1>5. ASSUME NEW c \in Centrals, CentralStart(c) \/ CentralStop(c)
      PROVE  OwedInv'
  BY <1>1, <1>5 DEF CentralStart, CentralStop
<1>6. ASSUME NEW f, pool_rcv_cb(f)
      PROVE  OwedInv'
  BY <1>1, <1>6 DEF pool_rcv_cb
<1>7. CASE Wake \/ set_raw_listen \/ suppress_espnow_rx \/ Tick \/ SendDone
  BY <1>1, <1>7 DEF Wake, set_raw_listen, suppress_espnow_rx, Tick, SendDone
<1>8. ASSUME NEW s \in Settings, run_esp_now_peripheral(s)
      PROVE  OwedInv'
  BY <1>8 DEF run_esp_now_peripheral, Responder
<1>9. CASE RunStop
  BY <1>9 DEF RunStop, Responder
<1>10. CASE Reply
  <2>1. ASSUME shared' = [shared EXCEPT !.pending = FALSE]
        PROVE  OwedInv'
    BY <2>1 DEF TypeOK, Responders
  <2> QED
    BY <1>2, <1>10, <2>1 DEF Reply
<1>11. CASE Serve \/ Slept \/ receive_async \/ Drain \/ Repoll
  BY <1>2, <1>3, <1>11 DEF Serve, Slept, receive_async, Drain, Repoll
<1> QED
  BY <1>4, <1>5, <1>6, <1>7, <1>8, <1>9, <1>10, <1>11 DEF Next, responder, Hear

\* Each reply goes to a central that was heard since the reply before it.
THEOREM RepliesAnswer == Spec => ReplyAnswersControl
<1>1. Init => OwedInv
  BY DEF Init, OwedInv, Responder
<1>2. ASSUME OwedInv, [Next]_vars
      PROVE  [pc = "tx" /\ pc' = "send" => shared.central \in heard.from]_vars
  <2>1. CASE UNCHANGED vars
    BY <2>1
  <2>2. ASSUME pc = "tx", pc' = "send", Next
        PROVE  shared.connected /\ shared.pending
    BY <2>2 DEF Next, responder, Hear, CentralStart, CentralStop, pool_rcv_cb, Wake, set_raw_listen,
        run_esp_now_peripheral, suppress_espnow_rx, RunStop, Serve, Receive, Goto, Reply, Owing,
        SendDone, Slept, receive_async, Drain, Repoll, Tick
  <2> QED
    BY <1>2, <2>1, <2>2 DEF OwedInv
<1> QED
  BY <1>1, <1>2, ExchangeTypes, OwedStep, PTL DEF Spec, ReplyAnswersControl

-----------------------------------------------------------------------------
(***************************************************************************)
(* The wake-up of a receive-only responder.                                *)
(***************************************************************************)
SleepInv ==
    /\ pc \in {"recheck", "parked"} => registered
    /\ NoSleepOnFrames

LEMMA SleepStep ==
    ASSUME TypeOK, SleepInv, [Next]_vars
    PROVE  SleepInv'
<1> USE DEF SleepInv, NoSleepOnFrames
<1>1. CASE UNCHANGED vars
  BY <1>1 DEF vars, receiver
<1>2. ASSUME NEW c \in Centrals, CentralStart(c) \/ CentralStop(c)
      PROVE  SleepInv'
  BY <1>2 DEF CentralStart, CentralStop, receiver
<1>3. ASSUME NEW f, pool_rcv_cb(f)
      PROVE  SleepInv'
  BY <1>3 DEF pool_rcv_cb
<1>4. CASE Wake
  BY <1>4 DEF Wake
<1>5. CASE set_raw_listen \/ suppress_espnow_rx \/ RunStop \/ SendDone \/ Tick
  BY <1>5 DEF set_raw_listen, suppress_espnow_rx, RunStop, SendDone, Tick, receiver
<1>6. ASSUME NEW s \in Settings, run_esp_now_peripheral(s)
      PROVE  SleepInv'
  BY <1>6 DEF run_esp_now_peripheral
<1>7. CASE Serve \/ Slept \/ Drain
  BY <1>7 DEF Serve, Slept, Drain, Receive, Goto
<1>8. CASE Reply
  BY <1>8 DEF Reply, Goto, receiver
<1>9. CASE receive_async
  BY <1>9 DEF receive_async, Receive, Goto
<1>10. CASE Repoll
  BY <1>10 DEF Repoll, Goto
<1> QED
  BY <1>1, <1>2, <1>3, <1>4, <1>5, <1>6, <1>7, <1>8, <1>9, <1>10 DEF Next, responder, Hear

\* A receive-only responder does not sleep on a frame in its pool, for any capacity.
THEOREM PoolWakesResponder == Spec => []NoSleepOnFrames
<1>1. Init => SleepInv
  BY DEF Init, SleepInv, NoSleepOnFrames
<1>2. SleepInv => NoSleepOnFrames
  BY DEF SleepInv
<1> QED
  BY <1>1, <1>2, ExchangeTypes, SleepStep, PTL DEF Spec
=============================================================================
