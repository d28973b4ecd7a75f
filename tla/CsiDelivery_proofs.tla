------------------------- MODULE CsiDelivery_proofs -------------------------
(***************************************************************************)
(* Theorems about CsiDelivery and CsiDeliveryHistory, for every set of      *)
(* executors and callbacks, every queue capacity and number of frames.     *)
(***************************************************************************)
EXTENDS CsiDeliveryHistory, SequenceTheorems, TLAPS

ExecPcs == {"idle"} \cup SetterPcs \cup LazyPcs \cup PollPcs

\* Moving an executor's program counter keeps its type.
LEMMA GotoType ==
    ASSUME exec \in [Executors -> Activities], NEW e \in Executors,
           NEW from, NEW to \in ExecPcs, Goto(e, from, to)
    PROVE  exec' \in [Executors -> Activities]
<1>1. Quiet \in Activities
  BY DEF Quiet, Activities
<1>2. [exec[e] EXCEPT !.pc = to] \in Activities
  BY DEF Activities, ExecPcs
<1>3. QED
  BY <1>1, <1>2 DEF Goto

\* So does starting a call.
LEMMA BeginType ==
    ASSUME TypeOK, NEW e \in Executors, NEW pc \in ExecPcs,
           NEW fn \in Callbacks \cup {NoCallback}, NEW flag \in BOOLEAN,
           Begin(e, pc, fn, flag)
    PROVE  TypeOK'
<1>1. [pc |-> pc, fn |-> fn, flag |-> flag] \in Activities
  BY DEF Activities, ExecPcs
<1>2. exec' \in [Executors -> Activities]
  BY <1>1 DEF Begin, TypeOK
<1>3. QED
  BY <1>2 DEF Begin, TypeOK, drain

\* So does a store of a value of the field's type.
LEMMA StoreType ==
    ASSUME TypeOK, NEW e \in Executors, NEW from, NEW to \in ExecPcs,
           NEW field, NEW value, Store(e, from, to, field, value),
           [gate EXCEPT ![field] = value] \in Gates
    PROVE  TypeOK'
<1>1. exec' \in [Executors -> Activities]
  BY GotoType DEF Store, TypeOK
<1>2. QED
  BY <1>1 DEF Store, TypeOK, drain

LEMMA GateStores ==
    ASSUME gate \in Gates
    PROVE  /\ \A b \in BOOLEAN : /\ [gate EXCEPT !["publish"] = b] \in Gates
                                 /\ [gate EXCEPT !["inline"] = b] \in Gates
                                 /\ [gate EXCEPT !["output"] = b] \in Gates
                                 /\ [gate EXCEPT !["raw"] = b] \in Gates
           /\ \A m \in Modes : [gate EXCEPT !["mode"] = m] \in Gates
           /\ \A fn \in Callbacks \cup {NoCallback} : [gate EXCEPT !["fn"] = fn] \in Gates
  BY DEF Gates

\* Every setter keeps the types.
LEMMA SetterType == ASSUME TypeOK, NEW e \in Executors, Setter(e) PROVE TypeOK'
<1> USE GateStores
<1>0. /\ gate \in Gates
      /\ exec[e].fn \in Callbacks \cup {NoCallback}
      /\ exec[e].flag \in BOOLEAN
      /\ {"idle"} \cup SetterPcs \subseteq ExecPcs
      /\ "Off" \in Modes /\ "Callback" \in Modes /\ "Async" \in Modes
  BY DEF TypeOK, Activities, ExecPcs, Modes
<1>1. CASE set_csi_callback(e)
  BY <1>0, <1>1, BeginType, StoreType DEF set_csi_callback, SetterPcs
<1>2. CASE clear_csi_callback(e)
  BY <1>0, <1>2, BeginType, StoreType DEF clear_csi_callback, SetterPcs
<1>3. CASE set_csi_raw_callback(e)
  BY <1>0, <1>3, BeginType, StoreType DEF set_csi_raw_callback, SetterPcs
<1>4. CASE set_csi_logging_enabled(e)
  <2>1. ASSUME NEW flag \in LoggingArgs, Begin(e, "logging:inline", NoCallback, flag)
        PROVE  TypeOK'
    <3>1. flag \in BOOLEAN
      BY ConstantsAssumption
    <3>2. "logging:inline" \in ExecPcs
      BY DEF ExecPcs, SetterPcs
    <3>3. QED
      BY <2>1, <3>1, <3>2, BeginType
  <2>2. CASE Store(e, "logging:inline", "logging:publish", "inline", exec[e].flag)
    BY <1>0, <2>2, StoreType DEF SetterPcs
  <2>3. CASE Store(e, "logging:publish", "idle", "publish", exec[e].flag)
    BY <1>0, <2>3, StoreType DEF SetterPcs
  <2>4. QED
    BY <1>4, <2>1, <2>2, <2>3 DEF set_csi_logging_enabled
<1>5. CASE set_csi_delivery_mode(e)
  BY <1>0, <1>5, StoreType, ConstantsAssumption DEF set_csi_delivery_mode, SetterPcs
<1>6. CASE set_csi_output_enabled(e)
  BY <1>0, <1>6, StoreType, ConstantsAssumption DEF set_csi_output_enabled, SetterPcs
<1>7. CASE reset(e)
  BY <1>0, <1>7, BeginType, StoreType DEF reset, SetterPcs
<1> QED BY <1>1, <1>2, <1>3, <1>4, <1>5, <1>6, <1>7 DEF Setter

\* Every step of the client task keeps the types.
LEMMA ClientType ==
    ASSUME TypeOK, NextPacketCall \/ LazySelect \/ Poll \/ Repoll \/ Cancel
    PROVE  TypeOK'
<1> USE ConstantsAssumption
<1>0. /\ {"idle"} \cup LazyPcs \cup PollPcs \subseteq ExecPcs
      /\ exec \in [Executors -> Activities]
  BY DEF TypeOK, ExecPcs
<1>1. CASE NextPacketCall
  <2>1. exec' \in [Executors -> Activities]
    BY <1>0, <1>1, GotoType DEF NextPacketCall, LazyPcs
  <2>2. QED
    BY <1>1, <2>1 DEF NextPacketCall, TypeOK
<1>2. CASE LazySelect
  <2>1. CASE Goto(Home, "lazy:test", IF gate.mode = "Off" THEN "lazy:mode" ELSE "poll:dequeue")
              /\ UNCHANGED <<gate, drain, cap, stats>>
    <3>1. exec' \in [Executors -> Activities]
      BY <1>0, <2>1, GotoType DEF LazyPcs, PollPcs
    <3>2. QED
      BY <2>1, <3>1 DEF TypeOK, drain
  <2>2. CASE Store(Home, "lazy:mode", "lazy:publish", "mode", "Async")
    BY <1>0, <2>2, StoreType, GateStores DEF LazyPcs, Modes, TypeOK
  <2>3. CASE Store(Home, "lazy:publish", "poll:dequeue", "publish", TRUE)
    BY <1>0, <2>3, StoreType, GateStores DEF PollPcs, TypeOK
  <2>4. QED
    BY <1>2, <2>1, <2>2, <2>3 DEF LazySelect
<1>3. CASE Poll
  <2>1. ASSUME NEW pc, Take(pc) PROVE TypeOK'
    <3>1. exec' \in [Executors -> Activities]
      BY <1>0, <2>1, GotoType DEF Take
    <3>2. queue' \in Seq(0..MaxFrames) /\ Len(queue') <= QueueCap
      BY <2>1, HeadTailProperties DEF Take, TypeOK
    <3>3. QED
      BY <2>1, <3>1, <3>2 DEF Take, TypeOK
  <2>2. ASSUME NEW from, NEW to \in {"idle", "poll:register"}, Goto(Home, from, to),
               UNCHANGED <<gate, drain, cap, stats>>
        PROVE  TypeOK'
    <3>1. exec' \in [Executors -> Activities]
      BY <1>0, <2>2, GotoType DEF PollPcs
    <3>2. QED
      BY <2>2, <3>1 DEF TypeOK, drain
  <2>3. CASE Register("poll:recheck")
    <3>1. exec' \in [Executors -> Activities]
      BY <1>0, <2>3, GotoType DEF Register, PollPcs
    <3>2. QED
      BY <2>3, <3>1 DEF Register, TypeOK
  <2>4. QED
    BY <1>3, <2>1, <2>2, <2>3 DEF Poll
<1>4. CASE Repoll
  <2>1. exec' \in [Executors -> Activities]
    BY <1>0, <1>4, GotoType DEF Repoll, PollPcs
  <2>2. QED
    BY <1>4, <2>1 DEF Repoll, TypeOK
<1>5. CASE Cancel
  BY <1>5 DEF Cancel, TypeOK
<1>6. QED
  BY <1>1, <1>2, <1>3, <1>4, <1>5

LEMMA CaptureGotoType ==
    ASSUME TypeOK, NEW from, NEW to \in CapturePcs, CaptureGoto(from, to)
    PROVE  cap' \in Captures
<1>1. NoCapture \in Captures
  BY ConstantsAssumption DEF NoCapture, Captures, CapturePcs
<1>2. [cap EXCEPT !.pc = to] \in Captures
  BY DEF TypeOK, Captures
<1>3. QED
  BY <1>1, <1>2 DEF CaptureGoto

\* Every step of the Wi-Fi task keeps the types.
LEMMA CaptureType == ASSUME TypeOK, CaptureStart \/ CaptureStep PROVE TypeOK'
<1>1. CASE CaptureStart
  <2>1. stats.rx + 1 \in 0..MaxFrames /\ stats' \in [rx : 0..MaxFrames, drop : Nat]
    <3>1. stats.rx \in 0..MaxFrames /\ stats \in [rx : 0..MaxFrames, drop : Nat]
      BY DEF TypeOK
    <3>2. stats.rx + 1 \in 0..MaxFrames
      BY <1>1, <3>1, ConstantsAssumption DEF CaptureStart
    <3>3. QED
      BY <1>1, <3>1, <3>2 DEF CaptureStart
  <2>2. cap' \in Captures
    BY <1>1, <2>1 DEF CaptureStart, Captures, CapturePcs
  <2>3. QED
    BY <1>1, <2>1, <2>2 DEF CaptureStart, TypeOK, drain
<1>2. ASSUME NEW from, NEW to \in CapturePcs, CaptureGoto(from, to),
             UNCHANGED <<queue, stats>>, woken' \in BOOLEAN
      PROVE  TypeOK'
  BY <1>2, CaptureGotoType DEF CaptureGoto, TypeOK
<1>3. ASSUME NEW from, CaptureGoto(from, "idle"),
             stats' = [stats EXCEPT !.drop = @ + 1], UNCHANGED <<queue, woken>>
      PROVE  TypeOK'
  <2>1. stats' \in [rx : 0..MaxFrames, drop : Nat]
    BY <1>3 DEF TypeOK
  <2>2. cap' \in Captures
    BY <1>3, CaptureGotoType DEF CapturePcs
  <2>3. QED
    BY <1>3, <2>1, <2>2 DEF CaptureGoto, TypeOK
<1>4. woken \in BOOLEAN /\ registered \in BOOLEAN /\ gate.mode \in Modes
  BY DEF TypeOK, Gates
<1>5. CASE LoadRawCallback
  BY <1>2, <1>4, <1>5 DEF LoadRawCallback, CapturePcs
<1>6. CASE LoadPublishGate
  BY <1>2, <1>4, <1>6 DEF LoadPublishGate, CapturePcs
<1>7. CASE FilterFrame
  BY <1>2, <1>3, <1>4, <1>7 DEF FilterFrame, Judge, CapturePcs
<1>8. CASE BuildPacket
  BY <1>2, <1>3, <1>4, <1>8 DEF BuildPacket, Judge, CapturePcs
<1>9. CASE LoadDeliveryMode
  BY <1>2, <1>4, <1>9 DEF LoadDeliveryMode, CapturePcs, Modes
<1>10. CASE LoadCallback
  <2>1. NoCapture \in Captures
    BY ConstantsAssumption DEF NoCapture, Captures, CapturePcs
  <2>2. [cap EXCEPT !.pc = "call", !.fn = gate.fn] \in Captures
    BY DEF TypeOK, Captures, CapturePcs, Gates
  <2>3. QED
    BY <1>10, <2>1, <2>2 DEF LoadCallback, TypeOK, drain
<1>11. CASE RunCallback
  BY <1>2, <1>4, <1>11 DEF RunCallback, CapturePcs
<1>12. CASE Enqueue
  <2>1. CASE /\ Len(queue) < QueueCap
             /\ queue' = Append(queue, cap.frame)
             /\ CaptureGoto("enqueue", "wake")
             /\ UNCHANGED <<woken, stats>>
    <3>1. cap.frame \in 0..MaxFrames
      BY DEF TypeOK, Captures
    <3>2. queue' \in Seq(0..MaxFrames) /\ Len(queue') <= QueueCap
      BY <2>1, <3>1, AppendProperties, ConstantsAssumption DEF TypeOK
    <3>3. cap' \in Captures
      BY <2>1, CaptureGotoType DEF CapturePcs
    <3>4. QED
      BY <2>1, <3>2, <3>3 DEF CaptureGoto, TypeOK
  <2>2. QED
    BY <1>3, <1>12, <2>1 DEF Enqueue
<1>13. CASE Wake
  BY <1>2, <1>4, <1>13 DEF Wake, CapturePcs
<1>14. CASE LoadInlineGate
  BY <1>2, <1>4, <1>14 DEF LoadInlineGate, CapturePcs
<1>15. QED
  BY <1>1, <1>5, <1>6, <1>7, <1>8, <1>9, <1>10, <1>11, <1>12, <1>13, <1>14 DEF CaptureStep

LEMMA InitType == Init => TypeOK
<1> SUFFICES ASSUME Init PROVE TypeOK
  OBVIOUS
<1> USE ConstantsAssumption
<1>1. Quiet \in Activities /\ NoCapture \in Captures
  BY DEF Quiet, Activities, NoCapture, Captures, CapturePcs
<1>2. gate \in Gates
  BY DEF Init, Gates, Modes
<1>3. queue \in Seq(0..MaxFrames) /\ Len(queue) <= QueueCap
  BY EmptySeq DEF Init
<1>4. [rx |-> 0, drop |-> 0] \in [rx : 0..MaxFrames, drop : Nat]
  OBVIOUS
<1>5. exec \in [Executors -> Activities]
  BY <1>1 DEF Init
<1>6. QED
  BY <1>1, <1>2, <1>3, <1>4, <1>5 DEF Init, TypeOK

LEMMA NextType == ASSUME TypeOK, [Next]_vars PROVE TypeOK'
<1>1. CASE UNCHANGED vars
  BY <1>1 DEF vars, drain, TypeOK
<1>2. QED
  BY <1>1, SetterType, ClientType, CaptureType DEF Next

\* The delivery state is well typed in every reachable state; in particular
\* CSI_QUEUE never holds more packets than its capacity.
THEOREM TypeCorrect == Spec => []TypeOK
<1>1. Init => TypeOK
  BY InitType
<1>2. TypeOK /\ [Next]_vars => TypeOK'
  BY NextType
<1>3. QED
  BY <1>1, <1>2, PTL DEF Spec

-----------------------------------------------------------------------------
(***************************************************************************)
(* No lost wake-up.  Inductive invariant: a client that is polling is      *)
(* awaiting; one that has registered, or parked, has its waker in the slot *)
(* (nobody ever takes it out); and a parked client is in the run queue, or *)
(* about to be woken, whenever the queue holds a packet.                   *)
(***************************************************************************)
WakeInv ==
    /\ Polling => client = "awaiting"
    /\ client = "awaiting" /\ ~Polling => registered
    /\ exec[Home].pc = "poll:recheck" => registered
    /\ NoLostWakeup

\* A setter disturbs neither the queue nor the client's place in its poll.
LEMMA SetterFrame ==
    ASSUME TypeOK, NEW e \in Executors, Setter(e)
    PROVE  /\ UNCHANGED <<drain, cap, stats>>
           /\ exec'[Home].pc \in PollPcs \cup LazyPcs => exec'[Home] = exec[Home]
           /\ exec[Home].pc \in PollPcs \cup LazyPcs => exec'[Home] = exec[Home]
<1> DEFINE Frame ==
        /\ UNCHANGED <<drain, cap, stats>>
        /\ exec'[Home].pc \in PollPcs \cup LazyPcs => exec'[Home] = exec[Home]
        /\ exec[Home].pc \in PollPcs \cup LazyPcs => exec'[Home] = exec[Home]
<1>1. ASSUME NEW from \in {"idle"} \cup SetterPcs, NEW to \in {"idle"} \cup SetterPcs,
             NEW field, NEW value, Store(e, from, to, field, value)
      PROVE  Frame
  BY <1>1, ConstantsAssumption
  DEF Store, Goto, TypeOK, Activities, SetterPcs, PollPcs, LazyPcs, Quiet
<1>2. ASSUME NEW pc \in SetterPcs, NEW fn, NEW flag, Begin(e, pc, fn, flag)
      PROVE  Frame
  BY <1>2, ConstantsAssumption
  DEF Begin, drain, TypeOK, Activities, SetterPcs, PollPcs, LazyPcs
<1> HIDE DEF Frame
<1>3. ASSUME set_csi_callback(e) PROVE Frame
  BY <1>1, <1>2, <1>3 DEF set_csi_callback, SetterPcs
<1>4. ASSUME clear_csi_callback(e) PROVE Frame
  BY <1>1, <1>2, <1>4 DEF clear_csi_callback, SetterPcs
<1>5. ASSUME set_csi_raw_callback(e) PROVE Frame
  BY <1>1, <1>2, <1>5 DEF set_csi_raw_callback, SetterPcs
<1>6. ASSUME set_csi_logging_enabled(e) PROVE Frame
  BY <1>1, <1>2, <1>6 DEF set_csi_logging_enabled, SetterPcs
<1>7. ASSUME set_csi_delivery_mode(e) PROVE Frame
  BY <1>1, <1>7 DEF set_csi_delivery_mode
<1>8. ASSUME set_csi_output_enabled(e) PROVE Frame
  BY <1>1, <1>8 DEF set_csi_output_enabled
<1>9. ASSUME reset(e) PROVE Frame
  BY <1>1, <1>2, <1>9 DEF reset, SetterPcs
<1>10. Frame
  BY <1>3, <1>4, <1>5, <1>6, <1>7, <1>8, <1>9 DEF Setter
<1>11. QED
  BY <1>10 DEF Frame

LEMMA WakeInit == Init => WakeInv
  BY ConstantsAssumption
  DEF Init, WakeInv, NoLostWakeup, Polling, Quiet, LazyPcs, PollPcs

LEMMA WakeStep == ASSUME TypeOK, WakeInv, [Next]_vars PROVE WakeInv'
<1> USE ConstantsAssumption DEF WakeInv, NoLostWakeup, Polling
<1>0. /\ exec \in [Executors -> Activities] /\ Home \in Executors
      /\ woken \in BOOLEAN /\ registered \in BOOLEAN
  BY DEF TypeOK
<1>1. CASE UNCHANGED vars
  BY <1>1 DEF vars, drain
<1>2. ASSUME NEW e \in Executors, Setter(e) PROVE WakeInv'
  <2>1. /\ UNCHANGED <<queue, registered, woken, client, cap>>
        /\ exec'[Home].pc \in PollPcs \cup LazyPcs <=> exec[Home].pc \in PollPcs \cup LazyPcs
        /\ exec'[Home].pc = "poll:recheck" => exec[Home].pc = "poll:recheck"
    BY <1>2, SetterFrame DEF drain, PollPcs
  <2>2. QED
    BY <2>1
<1>3. CASE NextPacketCall
  BY <1>0, <1>3 DEF NextPacketCall, Goto, LazyPcs, PollPcs, Quiet
<1>4. CASE LazySelect
  <2>1. ASSUME NEW from \in LazyPcs, NEW to \in LazyPcs \cup {"poll:dequeue"},
               Goto(Home, from, to), UNCHANGED <<drain, cap>>
        PROVE  WakeInv'
    BY <1>0, <2>1 DEF Goto, drain, LazyPcs, PollPcs, Quiet
  <2>2. QED
    BY <1>4, <2>1 DEF LazySelect, Store, LazyPcs
<1>5. CASE Poll
  <2>1. ASSUME NEW pc, Take(pc) PROVE WakeInv'
    BY <1>0, <2>1 DEF Take, Goto, LazyPcs, PollPcs, Quiet
  <2>2. CASE Register("poll:recheck")
    BY <1>0, <2>2 DEF Register, Goto, LazyPcs, PollPcs, Quiet
  <2>3. ASSUME queue = <<>>, Goto(Home, "poll:dequeue", "poll:register"),
               UNCHANGED <<gate, drain, cap, stats>>
        PROVE  WakeInv'
    BY <1>0, <2>3 DEF Goto, drain, LazyPcs, PollPcs, Quiet
  <2>4. ASSUME queue = <<>>, Goto(Home, "poll:recheck", "idle"),
               UNCHANGED <<gate, drain, cap, stats>>
        PROVE  WakeInv'
    BY <1>0, <2>4 DEF Goto, drain, LazyPcs, PollPcs, Quiet
  <2>5. QED
    BY <1>5, <2>1, <2>2, <2>3, <2>4 DEF Poll
<1>6. CASE Repoll
  BY <1>0, <1>6 DEF Repoll, Goto, LazyPcs, PollPcs, Quiet
<1>7. CASE Cancel
  BY <1>0, <1>7 DEF Cancel, LazyPcs, PollPcs
<1>8. CASE CaptureStart
  BY <1>0, <1>8 DEF CaptureStart, drain
<1>9. CASE CaptureStep
  <2>1. ASSUME NEW from, NEW to, from # "wake", CaptureGoto(from, to),
               UNCHANGED <<queue, woken>>
        PROVE  WakeInv'
    BY <1>0, <2>1 DEF CaptureGoto
  <2>2. CASE LoadCallback
    BY <1>0, <2>2 DEF LoadCallback, drain
  <2>3. CASE Enqueue
    <3>1. CASE queue' = Append(queue, cap.frame) /\ CaptureGoto("enqueue", "wake")
                 /\ UNCHANGED woken
      <4>1. cap'.pc = "wake"
        BY <3>1 DEF CaptureGoto, TypeOK, Captures
      <4>2. QED
        BY <1>0, <3>1, <4>1 DEF CaptureGoto
    <3>2. QED
      BY <2>1, <2>3, <3>1 DEF Enqueue
  <2>4. CASE Wake
    BY <1>0, <2>4 DEF Wake, CaptureGoto
  <2>5. CASE LoadRawCallback \/ LoadPublishGate \/ FilterFrame \/ BuildPacket
               \/ LoadDeliveryMode \/ RunCallback \/ LoadInlineGate
    BY <2>1, <2>5 DEF LoadRawCallback, LoadPublishGate, FilterFrame, BuildPacket, Judge,
                      LoadDeliveryMode, RunCallback, LoadInlineGate
  <2>6. QED
    BY <1>9, <2>2, <2>3, <2>4, <2>5 DEF CaptureStep
<1>10. QED
  BY <1>1, <1>2, <1>3, <1>4, <1>5, <1>6, <1>7, <1>8, <1>9 DEF Next

\* next_csi_packet loses no wake-up: whatever the Wi-Fi task, the setters and
\* cancelled awaits do between its steps, a parked client with a packet in the
\* queue is scheduled or about to be.
THEOREM WakeupNotLost == Spec => []NoLostWakeup
<1>1. Init => TypeOK /\ WakeInv
  BY InitType, WakeInit
<1>2. TypeOK /\ WakeInv /\ [Next]_vars => (TypeOK /\ WakeInv)'
  BY NextType, WakeStep
<1>3. TypeOK /\ WakeInv => NoLostWakeup
  BY DEF WakeInv
<1>4. QED
  BY <1>1, <1>2, <1>3, PTL DEF Spec

-----------------------------------------------------------------------------
(***************************************************************************)
(* Refinement.  The frame in progress carries the number the capture       *)
(* counted last, so what Enqueue appends is what the channel was offered.  *)
(***************************************************************************)
FrameInv ==
    /\ cap.pc # "idle" => cap.frame = stats.rx
    /\ Polling => client = "awaiting"

ChannelStep == [Channel!Next]_(Channel!chanVars)

\* A step of the Wi-Fi task that ends or continues a capture without touching
\* the queue loses the offered frame or changes nothing of the channel.
LEMMA CaptureLoses ==
    ASSUME TypeOK, NEW from \in CapturePcs \ {"idle", "wake"}, NEW to \in CapturePcs \ {"wake"},
           CaptureGoto(from, to), queue' = queue, stats'.rx = stats.rx
    PROVE  ChannelStep
<1>1. cap'.pc = to
  BY DEF CaptureGoto, TypeOK, Captures, NoCapture
<1>2. CASE to = "idle"
  BY <1>1, <1>2 DEF ChannelStep, CaptureGoto, Channel!Next, Channel!Lose
<1>3. CASE to # "idle"
  BY <1>1, <1>3 DEF ChannelStep, CaptureGoto, Channel!chanVars
<1>4. QED
  BY <1>2, <1>3

LEMMA FrameInit == Init => FrameInv
  BY ConstantsAssumption DEF Init, FrameInv, Polling, NoCapture, Quiet, LazyPcs, PollPcs

LEMMA ChannelInit == Init => Channel!Init
  BY DEF Init, Channel!Init, NoCapture

LEMMA ChannelNext ==
    ASSUME TypeOK, FrameInv, WakeInv, [Next]_vars
    PROVE  ChannelStep /\ FrameInv'
<1> USE ConstantsAssumption
<1>0. /\ exec \in [Executors -> Activities] /\ Home \in Executors
      /\ stats \in [rx : 0..MaxFrames, drop : Nat] /\ cap \in Captures
  BY DEF TypeOK
<1>a. (Polling => client = "awaiting")'
  BY WakeStep DEF WakeInv
<1>1. CASE UNCHANGED vars
  BY <1>1 DEF vars, drain, FrameInv, Polling, ChannelStep, Channel!chanVars
<1>2. ASSUME UNCHANGED <<queue, client, cap, stats>> PROVE ChannelStep /\ FrameInv'
  BY <1>2, <1>a DEF FrameInv, ChannelStep, Channel!chanVars
<1>3. ASSUME NEW e \in Executors, Setter(e) PROVE ChannelStep /\ FrameInv'
  BY <1>2, <1>3, SetterFrame DEF drain
<1>4. CASE NextPacketCall
  BY <1>4, <1>a DEF NextPacketCall, FrameInv, ChannelStep, Channel!Next, Channel!Await
<1>5. CASE LazySelect
  BY <1>2, <1>5 DEF LazySelect, Store, drain
<1>6. CASE Poll
  <2>1. ASSUME NEW pc \in PollPcs, Take(pc) PROVE ChannelStep /\ FrameInv'
    <3>1. client = "awaiting"
      BY <2>1 DEF FrameInv, Polling, Take, Goto
    <3>2. QED
      BY <2>1, <3>1, <1>a DEF Take, FrameInv, ChannelStep, Channel!Next, Channel!Get
  <2>2. CASE Register("poll:recheck")
    BY <1>2, <2>2 DEF Register
  <2>3. QED
    BY <1>2, <1>6, <2>1, <2>2 DEF Poll, PollPcs, drain
<1>7. CASE Repoll
  BY <1>2, <1>7 DEF Repoll
<1>8. CASE Cancel
  BY <1>8, <1>a DEF Cancel, FrameInv, ChannelStep, Channel!Next, Channel!GiveUp
<1>9. CASE CaptureStart
  <2>1. cap'.pc = "raw" /\ cap'.frame = stats'.rx /\ stats'.rx = stats.rx + 1
    BY <1>0, <1>9 DEF CaptureStart
  <2>2. QED
    BY <1>9, <1>a, <2>1
    DEF CaptureStart, drain, FrameInv, ChannelStep, Channel!Next, Channel!Offer
<1>10. CASE CaptureStep
  <2>1. ASSUME NEW from \in CapturePcs \ {"idle", "wake"}, NEW to \in CapturePcs \ {"wake"},
               CaptureGoto(from, to), queue' = queue, stats'.rx = stats.rx
        PROVE  ChannelStep /\ FrameInv'
    <3>1. cap'.pc # "idle" => cap'.frame = cap.frame /\ cap.pc # "idle"
      BY <1>0, <2>1 DEF CaptureGoto, Captures, NoCapture
    <3>2. QED
      BY <2>1, <3>1, <1>a, CaptureLoses DEF FrameInv
  <2>2. CASE LoadCallback
    <3>1. CASE gate.fn = NoCallback
      BY <1>a, <2>2, <3>1 DEF LoadCallback, drain, FrameInv, NoCapture, ChannelStep,
                             Channel!Next, Channel!Lose
    <3>2. CASE gate.fn # NoCallback
      <4>1. cap'.pc = "call" /\ cap'.frame = cap.frame
        BY <1>0, <2>2, <3>2 DEF LoadCallback, Captures
      <4>2. QED
        BY <1>a, <2>2, <4>1 DEF LoadCallback, drain, FrameInv, ChannelStep, Channel!chanVars
    <3>3. QED
      BY <3>1, <3>2
  <2>3. CASE Enqueue
    <3>1. CASE /\ Len(queue) < QueueCap
               /\ queue' = Append(queue, cap.frame)
               /\ CaptureGoto("enqueue", "wake")
               /\ UNCHANGED <<woken, stats>>
      <4>1. cap'.pc = "wake" /\ cap'.frame = cap.frame /\ cap.frame = stats.rx
        BY <1>0, <3>1 DEF CaptureGoto, Captures, FrameInv
      <4>2. QED
        BY <1>a, <3>1, <4>1 DEF CaptureGoto, FrameInv, ChannelStep, Channel!Next, Channel!Put
    <3>2. CASE /\ CaptureGoto("enqueue", "idle")
               /\ stats' = [stats EXCEPT !.drop = @ + 1]
               /\ UNCHANGED <<queue, woken>>
      BY <1>0, <2>1, <3>2 DEF CapturePcs
    <3>3. QED
      BY <2>3, <3>1, <3>2 DEF Enqueue
  <2>4. CASE Wake
    BY <1>0, <1>a, <2>4 DEF Wake, CaptureGoto, NoCapture, FrameInv, ChannelStep, Channel!chanVars
  <2>5. CASE LoadRawCallback \/ LoadPublishGate
    BY <2>1, <2>5 DEF LoadRawCallback, LoadPublishGate, CapturePcs
  <2>6. CASE FilterFrame \/ BuildPacket
    BY <1>0, <2>1, <2>6 DEF FilterFrame, BuildPacket, Judge, CapturePcs
  <2>7. CASE LoadDeliveryMode \/ RunCallback \/ LoadInlineGate
    BY <2>1, <2>7 DEF LoadDeliveryMode, RunCallback, LoadInlineGate, CapturePcs, TypeOK, Gates, Modes
  <2>8. QED
    BY <1>10, <2>2, <2>3, <2>4, <2>5, <2>6, <2>7 DEF CaptureStep
<1>11. QED
  BY <1>1, <1>3, <1>4, <1>5, <1>6, <1>7, <1>8, <1>9, <1>10 DEF Next

\* Capture, setters and client together implement the bounded FIFO channel.
THEOREM ImplementsChannel == Spec => ChannelSafety
<1>1. Init => TypeOK /\ WakeInv /\ FrameInv /\ Channel!Init
  BY InitType, WakeInit, FrameInit, ChannelInit
<1>2. TypeOK /\ WakeInv /\ FrameInv /\ [Next]_vars
        => (TypeOK /\ WakeInv /\ FrameInv)' /\ [Channel!Next]_(Channel!chanVars)
  BY NextType, WakeStep, ChannelNext DEF ChannelStep
<1>3. QED
  BY <1>1, <1>2, PTL DEF Spec, ChannelSafety, Channel!SafeSpec

-----------------------------------------------------------------------------
(***************************************************************************)
(* The store orders of the setters.  On a single executor no two setters   *)
(* overlap, and the mode is Callback only while a function is stored.      *)
(***************************************************************************)
SingleExecutor == \A e \in Executors : e = Home

OrderInv ==
    /\ gate.mode = "Callback" => gate.fn # NoCallback
    /\ exec[Home].pc \in {"callback:fn", "callback:mode"} => exec[Home].fn \in Callbacks
    /\ exec[Home].pc = "callback:mode" => gate.fn # NoCallback
    /\ exec[Home].pc \in {"clear:fn", "reset:fn"} => gate.mode = "Off"

LEMMA OrderStep ==
    ASSUME SingleExecutor, "Callback" \notin ModeArgs, TypeOK, OrderInv, [Next]_vars
    PROVE  OrderInv'
<1> USE ConstantsAssumption DEF OrderInv
<1>0. /\ exec \in [Executors -> Activities] /\ Home \in Executors
      /\ gate \in Gates
  BY DEF TypeOK
<1>1. CASE UNCHANGED vars
  BY <1>1 DEF vars
<1>2. ASSUME UNCHANGED gate,
             exec'[Home].pc \notin {"callback:fn", "callback:mode", "clear:fn", "reset:fn"}
      PROVE  OrderInv'
  BY <1>2
<1>3. ASSUME UNCHANGED <<gate, exec>> PROVE OrderInv'
  BY <1>3
<1>4. ASSUME NEW e \in Executors, Setter(e) PROVE OrderInv'
  <2>1. e = Home
    BY DEF SingleExecutor
  <2>2. ASSUME NEW pc \in SetterPcs \ {"callback:fn"}, NEW flag \in BOOLEAN,
               Begin(e, pc, NoCallback, flag),
               pc \in {"clear:mode", "raw:fn", "logging:inline", "reset:inline"}
        PROVE  OrderInv'
    BY <1>0, <2>1, <2>2 DEF Begin
  <2>3. ASSUME NEW from, NEW to \in {"idle", "raw:publish", "logging:publish",
                                     "reset:publish", "reset:mode", "callback:publish"},
               NEW field \in {"publish", "inline", "raw", "output"}, NEW value,
               Store(e, from, to, field, value)
        PROVE  OrderInv'
    <3>1. gate'.mode = gate.mode /\ gate'.fn = gate.fn
      BY <1>0, <2>3 DEF Store, Gates
    <3>2. exec'[Home].pc = to
      BY <1>0, <2>1, <2>3 DEF Store, Goto, Activities, Quiet
    <3>3. QED
      BY <3>1, <3>2
  <2>4. CASE set_csi_callback(e)
    <3>1. ASSUME NEW fn \in Callbacks, Begin(e, "callback:fn", fn, FALSE) PROVE OrderInv'
      BY <1>0, <2>1, <3>1 DEF Begin
    <3>2. CASE Store(e, "callback:fn", "callback:mode", "fn", exec[e].fn)
      BY <1>0, <2>1, <3>2 DEF Store, Goto, Gates, Activities
    <3>3. CASE Store(e, "callback:mode", "callback:publish", "mode", "Callback")
      BY <1>0, <2>1, <3>3 DEF Store, Goto, Gates, Activities
    <3>4. QED
      BY <2>3, <2>4, <3>1, <3>2, <3>3 DEF set_csi_callback
  <2>5. CASE clear_csi_callback(e)
    <3>1. CASE Store(e, "clear:mode", "clear:fn", "mode", "Off")
      BY <1>0, <2>1, <3>1 DEF Store, Goto, Gates, Activities
    <3>2. CASE Store(e, "clear:fn", "idle", "fn", NoCallback)
      BY <1>0, <2>1, <3>2 DEF Store, Goto, Gates, Activities, Quiet
    <3>3. QED
      BY <2>2, <2>5, <3>1, <3>2 DEF clear_csi_callback, SetterPcs
  <2>6. CASE reset(e)
    <3>1. CASE Store(e, "reset:mode", "reset:fn", "mode", "Off")
      BY <1>0, <2>1, <3>1 DEF Store, Goto, Gates, Activities
    <3>2. CASE Store(e, "reset:fn", "idle", "fn", NoCallback)
      BY <1>0, <2>1, <3>2 DEF Store, Goto, Gates, Activities, Quiet
    <3>3. QED
      BY <2>2, <2>3, <2>6, <3>1, <3>2 DEF reset, SetterPcs
  <2>7. CASE set_csi_raw_callback(e)
    BY <2>2, <2>3, <2>7 DEF set_csi_raw_callback, SetterPcs
  <2>8. CASE set_csi_logging_enabled(e)
    <3>1. ASSUME NEW flag \in LoggingArgs, Begin(e, "logging:inline", NoCallback, flag)
          PROVE  OrderInv'
      BY <1>0, <2>1, <3>1 DEF Begin
    <3>2. QED
      BY <2>3, <2>8, <3>1 DEF set_csi_logging_enabled
  <2>9. CASE set_csi_delivery_mode(e)
    <3>1. PICK mode \in ModeArgs : Store(e, "idle", "idle", "mode", mode)
      BY <2>9 DEF set_csi_delivery_mode
    <3>2. gate'.mode # "Callback" /\ exec'[Home].pc = "idle"
      BY <1>0, <2>1, <3>1 DEF Store, Goto, Gates, Quiet
    <3>3. QED
      BY <3>2
  <2>10. CASE set_csi_output_enabled(e)
    BY <2>3, <2>10 DEF set_csi_output_enabled
  <2>11. QED
    BY <1>4, <2>4, <2>5, <2>6, <2>7, <2>8, <2>9, <2>10 DEF Setter
<1>5. CASE NextPacketCall
  BY <1>0, <1>2, <1>5 DEF NextPacketCall, Goto, Activities
<1>6. CASE LazySelect
  <2>1. CASE Goto(Home, "lazy:test", IF gate.mode = "Off" THEN "lazy:mode" ELSE "poll:dequeue")
              /\ UNCHANGED <<gate, drain, cap, stats>>
    BY <1>0, <1>2, <2>1 DEF Goto, Activities
  <2>2. CASE Store(Home, "lazy:mode", "lazy:publish", "mode", "Async")
    BY <1>0, <2>2 DEF Store, Goto, Gates, Activities
  <2>3. CASE Store(Home, "lazy:publish", "poll:dequeue", "publish", TRUE)
    BY <1>0, <2>3 DEF Store, Goto, Gates, Activities
  <2>4. QED
    BY <1>6, <2>1, <2>2, <2>3 DEF LazySelect
<1>7. CASE Poll
  <2>1. /\ UNCHANGED gate
        /\ exec'[Home].pc \in {"idle", "poll:register", "poll:recheck"}
    BY <1>0, <1>7 DEF Poll, Take, Register, Goto, Activities, Quiet
  <2>2. QED
    BY <1>2, <2>1
<1>8. CASE Repoll
  BY <1>0, <1>2, <1>8 DEF Repoll, Goto, Activities
<1>9. CASE Cancel \/ CaptureStart
  BY <1>3, <1>9 DEF Cancel, CaptureStart
<1>10. CASE CaptureStep
  BY <1>3, <1>10 DEF CaptureStep, LoadRawCallback, LoadPublishGate, FilterFrame, BuildPacket,
                     Judge, LoadDeliveryMode, LoadCallback, RunCallback, Enqueue, Wake,
                     LoadInlineGate, CaptureGoto
<1>11. QED
  BY <1>1, <1>4, <1>5, <1>6, <1>7, <1>8, <1>9, <1>10 DEF Next

\* With every application task on one executor, and no user selecting Callback
\* mode without a callback, the Wi-Fi callback never sees the mode switched to
\* Callback while CSI_CALLBACK is null.  (With two executors it can: a clear on
\* the other one may null the pointer between the two stores of a registration.)
THEOREM CallbackStoredFirst ==
    ASSUME SingleExecutor, "Callback" \notin ModeArgs
    PROVE  Spec => []CallbackModeHasCallback
<1>1. Init => TypeOK /\ OrderInv
  BY InitType, ConstantsAssumption DEF Init, OrderInv, Quiet
<1>2. TypeOK /\ OrderInv /\ [Next]_vars => (TypeOK /\ OrderInv)'
  BY NextType, OrderStep
<1>3. OrderInv => CallbackModeHasCallback
  BY DEF OrderInv, CallbackModeHasCallback
<1>4. QED
  BY <1>1, <1>2, <1>3, PTL DEF Spec
-----------------------------------------------------------------------------
(***************************************************************************)
(* With the history.  After a reset nothing a late Wi-Fi callback does     *)
(* reaches past the publish gate, for every set of executors.              *)
(***************************************************************************)
NobodyOpening == \A e \in Executors : ~Opening(exec[e])

(***************************************************************************)
(* The inductive invariant.  A reset that no opening call overlaps has     *)
(* closed the gate once it is past its second store; the gate stays closed *)
(* while no call opens it; and a late frame never passes a closed gate.    *)
(***************************************************************************)
SealInv ==
    /\ hist.closing =>
          /\ exec[Home].pc \in ResetPcs
          /\ NobodyOpening
          /\ exec[Home].pc \in {"reset:mode", "reset:fn"} => ~gate.publish
    /\ hist.sealed => NobodyOpening /\ ~gate.publish
    /\ hist.late => hist.sealed /\ cap.pc \in {"raw", "rawcall", "publish"}

\* The publish gate is only opened by a call that was opening it.
LEMMA OnlyOpeningOpens ==
    ASSUME TypeOK, [Next]_vars, ~gate.publish, NobodyOpening
    PROVE  ~gate'.publish
<1> USE ConstantsAssumption
<1>0. gate \in Gates /\ exec \in [Executors -> Activities]
  BY DEF TypeOK
<1>1. ASSUME NEW e, NEW from, NEW to, NEW field \in {"inline", "raw", "output", "mode", "fn"},
             NEW value, Store(e, from, to, field, value)
      PROVE  ~gate'.publish
  BY <1>0, <1>1 DEF Store, Gates
<1>2. ASSUME UNCHANGED gate PROVE ~gate'.publish
  BY <1>2
<1>3. ASSUME NEW e \in Executors, Setter(e) PROVE ~gate'.publish
  <2>1. ASSUME NEW pc, NEW fn, NEW flag, Begin(e, pc, fn, flag) PROVE ~gate'.publish
    BY <2>1 DEF Begin
  <2>2. CASE set_csi_callback(e)
    BY <1>1, <2>1, <2>2 DEF set_csi_callback, Store, Goto, NobodyOpening, Opening, CallbackPcs
  <2>3. CASE clear_csi_callback(e)
    BY <1>1, <2>1, <2>3 DEF clear_csi_callback
  <2>4. CASE set_csi_raw_callback(e)
    BY <1>1, <2>1, <2>4 DEF set_csi_raw_callback, Store, Goto, NobodyOpening, Opening
  <2>5. CASE set_csi_logging_enabled(e)
    <3>1. CASE Store(e, "logging:publish", "idle", "publish", exec[e].flag)
      <4>1. ~exec[e].flag
        BY <3>1 DEF Store, Goto, NobodyOpening, Opening
      <4>2. QED
        BY <1>0, <3>1, <4>1 DEF Store, Gates, Activities
    <3>2. QED
      BY <1>1, <2>1, <2>5, <3>1 DEF set_csi_logging_enabled
  <2>6. CASE set_csi_delivery_mode(e)
    BY <1>1, <2>6 DEF set_csi_delivery_mode
  <2>7. CASE set_csi_output_enabled(e)
    BY <1>1, <2>7 DEF set_csi_output_enabled
  <2>8. CASE reset(e)
    <3>1. CASE Store(e, "reset:publish", "reset:mode", "publish", FALSE)
      BY <1>0, <3>1 DEF Store, Gates
    <3>2. QED
      BY <1>1, <2>1, <2>8, <3>1 DEF reset
  <2>9. QED
    BY <1>3, <2>2, <2>3, <2>4, <2>5, <2>6, <2>7, <2>8 DEF Setter
<1>4. CASE LazySelect
  BY <1>1, <1>2, <1>4 DEF LazySelect, Store, Goto, NobodyOpening, Opening
<1>5. CASE NextPacketCall \/ Poll \/ Repoll \/ Cancel
  BY <1>2, <1>5 DEF NextPacketCall, Poll, Take, Register, Repoll, Cancel
<1>6. CASE CaptureStart \/ CaptureStep
  BY <1>2, <1>6 DEF CaptureStart, CaptureStep, LoadRawCallback, LoadPublishGate, FilterFrame,
     BuildPacket, Judge, LoadDeliveryMode, LoadCallback, RunCallback, Enqueue, Wake,
     LoadInlineGate, CaptureGoto
<1>7. CASE UNCHANGED vars
  BY <1>2, <1>7 DEF vars
<1>8. QED
  BY <1>3, <1>4, <1>5, <1>6, <1>7 DEF Next

\* A reset makes its stores in order: it is past the gate's store only when
\* that store closed the gate or when it was past it before.
LEMMA ResetOrder ==
    ASSUME TypeOK, [Next]_vars, exec[Home].pc \in ResetPcs \cup {"idle"}
    PROVE  /\ exec[Home].pc = "idle" => exec'[Home].pc \notin {"reset:publish", "reset:mode", "reset:fn"}
           /\ exec[Home].pc \in ResetPcs =>
                \/ exec'[Home].pc = exec[Home].pc
                \/ exec[Home].pc = "reset:inline" /\ exec'[Home].pc = "reset:publish"
                \/ exec[Home].pc = "reset:publish" /\ exec'[Home].pc = "reset:mode" /\ ~gate'.publish
                \/ exec[Home].pc = "reset:mode" /\ exec'[Home].pc = "reset:fn"
                \/ exec[Home].pc = "reset:fn" /\ exec'[Home].pc = "idle"
<1> USE ConstantsAssumption
<1>0. gate \in Gates /\ exec \in [Executors -> Activities] /\ Home \in Executors
  BY DEF TypeOK
<1> DEFINE Order ==
           /\ exec[Home].pc = "idle" => exec'[Home].pc \notin {"reset:publish", "reset:mode", "reset:fn"}
           /\ exec[Home].pc \in ResetPcs =>
                \/ exec'[Home].pc = exec[Home].pc
                \/ exec[Home].pc = "reset:inline" /\ exec'[Home].pc = "reset:publish"
                \/ exec[Home].pc = "reset:publish" /\ exec'[Home].pc = "reset:mode" /\ ~gate'.publish
                \/ exec[Home].pc = "reset:mode" /\ exec'[Home].pc = "reset:fn"
                \/ exec[Home].pc = "reset:fn" /\ exec'[Home].pc = "idle"
<1>1. ASSUME exec'[Home] = exec[Home] PROVE Order
  BY <1>1
<1>2. ASSUME NEW from, NEW to, from \notin ResetPcs,
             to \notin {"reset:publish", "reset:mode", "reset:fn"}, Goto(Home, from, to)
      PROVE  Order
  BY <1>0, <1>2 DEF Goto, Activities, Quiet
<1>3. ASSUME NEW pc, pc \notin {"reset:publish", "reset:mode", "reset:fn"}, NEW fn, NEW flag,
             Begin(Home, pc, fn, flag)
      PROVE  Order
  BY <1>0, <1>3 DEF Begin, ResetPcs
<1>4. ASSUME reset(Home) PROVE Order
  <2>1. CASE Store(Home, "reset:inline", "reset:publish", "inline", FALSE)
    BY <1>0, <2>1 DEF Store, Goto, Activities
  <2>2. CASE Store(Home, "reset:publish", "reset:mode", "publish", FALSE)
    BY <1>0, <2>2 DEF Store, Goto, Activities, Gates
  <2>3. CASE Store(Home, "reset:mode", "reset:fn", "mode", "Off")
    BY <1>0, <2>3 DEF Store, Goto, Activities
  <2>4. CASE Store(Home, "reset:fn", "idle", "fn", NoCallback)
    BY <1>0, <2>4 DEF Store, Goto, Activities, Quiet
  <2>5. QED
    BY <1>3, <1>4, <2>1, <2>2, <2>3, <2>4 DEF reset
<1> HIDE DEF Order
<1>5. ASSUME NEW e \in Executors, Setter(e) PROVE Order
  <2>1. ASSUME e # Home PROVE Order
    <3>1. exec'[Home] = exec[Home]
      BY <1>0, <1>5, <2>1 DEF Setter, set_csi_callback, clear_csi_callback,
         set_csi_raw_callback, set_csi_logging_enabled, set_csi_delivery_mode,
         set_csi_output_enabled, reset, Store, Begin, Goto
    <3>2. QED
      BY <1>1, <3>1
  <2>2. ASSUME Setter(Home), ~reset(Home) PROVE Order
    BY <1>2, <1>3, <2>2 DEF Setter, set_csi_callback, clear_csi_callback,
         set_csi_raw_callback, set_csi_logging_enabled, set_csi_delivery_mode,
         set_csi_output_enabled, Store, ResetPcs
  <2>3. QED
    BY <1>4, <1>5, <2>1, <2>2 DEF Order
<1>6. ASSUME NextPacketCall \/ LazySelect \/ Poll \/ Repoll PROVE Order
  BY <1>2, <1>6 DEF NextPacketCall, LazySelect, Poll, Take, Register, Repoll, Store, ResetPcs
<1>7. ASSUME Cancel \/ CaptureStart \/ CaptureStep \/ UNCHANGED vars PROVE Order
  BY <1>1, <1>7 DEF Cancel, CaptureStart, CaptureStep, LoadRawCallback, LoadPublishGate,
     FilterFrame, BuildPacket, Judge, LoadDeliveryMode, LoadCallback, RunCallback, Enqueue,
     Wake, LoadInlineGate, CaptureGoto, vars
<1>8. Order
  BY <1>5, <1>6, <1>7 DEF Next
<1>9. QED
  BY <1>8 DEF Order

LEMMA SealStep == ASSUME TypeOK, SealInv, [HNext]_hvars PROVE SealInv'
<1>1. CASE UNCHANGED hvars
  BY <1>1 DEF hvars, vars, SealInv, NobodyOpening
<1>2. CASE HNext
  <2>1. [Next]_vars
    BY <1>2 DEF HNext
  <2>2. /\ hist'.closing = Closing
        /\ hist'.sealed = Sealed
        /\ hist'.late = OfFrame(hist.sealed, hist.late, Sealed)
    BY <1>2 DEF HNext
  <2>3. Closing \/ Sealed => NobodyOpening'
    BY DEF Closing, Sealed, NobodyOpens, NobodyOpening, Opening
  <2>4. hist'.closing => exec'[Home].pc \in ResetPcs /\ NobodyOpening'
    BY <2>2, <2>3 DEF Closing
  <2>5. ASSUME hist'.closing, exec'[Home].pc \in {"reset:mode", "reset:fn"}
        PROVE  ~gate'.publish
    <3>1. hist.closing
      BY <2>1, <2>2, <2>5, ResetOrder DEF Closing
    <3>2. CASE exec[Home].pc \in {"reset:mode", "reset:fn"}
      BY <2>1, <3>1, <3>2, OnlyOpeningOpens DEF SealInv
    <3>3. CASE exec[Home].pc \in {"reset:inline", "reset:publish"}
      BY <2>1, <2>5, <3>3, ResetOrder DEF ResetPcs
    <3>4. QED
      BY <3>1, <3>2, <3>3 DEF SealInv, ResetPcs
  <2>6. ASSUME hist'.sealed PROVE ~gate'.publish
    <3>1. CASE hist.sealed
      BY <2>1, <3>1, OnlyOpeningOpens DEF SealInv
    <3>2. CASE hist.closing /\ Returns(Home, ResetPcs)
      <4>1. exec[Home].pc = "reset:fn"
        BY <2>1, <3>2, ResetOrder DEF Returns, ResetPcs
      <4>2. QED
        BY <2>1, <3>2, <4>1, OnlyOpeningOpens DEF SealInv
    <3>3. QED
      BY <2>2, <2>6, <3>1, <3>2 DEF Sealed
  <2>7. ASSUME hist'.late PROVE hist'.sealed /\ cap'.pc \in {"raw", "rawcall", "publish"}
    <3>1. cap'.pc # "idle" /\ IF cap.pc = "idle" THEN hist.sealed ELSE hist.late /\ Sealed
      BY <2>2, <2>7 DEF OfFrame
    <3>2. CASE cap.pc = "idle"
      <4>1. CaptureStart
        <5>1. cap' # cap
          BY <3>1, <3>2
        <5>2. ~CaptureStep
          BY <3>2 DEF CaptureStep, LoadRawCallback, LoadPublishGate, FilterFrame, BuildPacket,
             Judge, LoadDeliveryMode, LoadCallback, RunCallback, Enqueue, Wake,
             LoadInlineGate, CaptureGoto
        <5>3. \A e \in Executors : Setter(e) => UNCHANGED cap
          BY SetterFrame
        <5>4. NextPacketCall \/ LazySelect \/ Poll \/ Repoll \/ Cancel => UNCHANGED cap
          BY DEF NextPacketCall, LazySelect, Store, Poll, Take, Register, Repoll, Cancel
        <5>5. QED
          BY <2>1, <5>1, <5>2, <5>3, <5>4 DEF Next, vars
      <4>2. hist.sealed /\ exec' = exec /\ cap'.pc = "raw"
        BY <3>1, <3>2, <4>1 DEF CaptureStart
      <4>3. Sealed
        BY <4>2 DEF Sealed, NobodyOpens, SealInv, NobodyOpening, Opening
      <4>4. QED
        BY <2>2, <4>2, <4>3
    <3>3. CASE cap.pc # "idle"
      <4>1. /\ hist.late /\ Sealed /\ ~gate.publish
            /\ cap.pc \in {"raw", "rawcall", "publish"}
        BY <3>1, <3>3 DEF SealInv
      <4>2. CASE CaptureStep
        BY <2>2, <3>1, <4>1, <4>2 DEF CaptureStep, LoadRawCallback, LoadPublishGate, FilterFrame,
           BuildPacket, Judge, LoadDeliveryMode, LoadCallback, RunCallback, Enqueue, Wake,
           LoadInlineGate, CaptureGoto, TypeOK, Captures, NoCapture
      <4>3. CASE UNCHANGED cap
        BY <2>2, <4>1, <4>3
      <4>4. \A e \in Executors : Setter(e) => UNCHANGED cap
        BY SetterFrame
      <4>5. NextPacketCall \/ LazySelect \/ Poll \/ Repoll \/ Cancel => UNCHANGED cap
        BY DEF NextPacketCall, LazySelect, Store, Poll, Take, Register, Repoll, Cancel
      <4>6. ~CaptureStart
        BY <3>3 DEF CaptureStart
      <4>7. cap'.pc \in {"raw", "rawcall", "publish"}
        BY <2>1, <4>2, <4>3, <4>4, <4>5, <4>6 DEF Next, vars
      <4>8. QED
        BY <2>2, <4>1, <4>7
    <3>4. QED
      BY <3>2, <3>3
  <2>8. QED
    BY <2>2, <2>3, <2>4, <2>5, <2>6, <2>7 DEF SealInv
<1>3. QED
  BY <1>1, <1>2

\* No step takes a raw callback back: reset() does not, and nothing else could.
LEMMA RawKept ==
    ASSUME TypeOK, [Next]_vars, gate.raw
    PROVE  gate'.raw
<1>0. gate \in Gates
  BY DEF TypeOK
<1>1. ASSUME NEW e, NEW from, NEW to, NEW field \in {"inline", "publish", "output", "mode", "fn"},
             NEW value, Store(e, from, to, field, value)
      PROVE  gate'.raw
  BY <1>0, <1>1 DEF Store, Gates
<1>2. ASSUME UNCHANGED gate PROVE gate'.raw
  BY <1>2
<1>3. ASSUME NEW e \in Executors, Setter(e) PROVE gate'.raw
  <2>1. ASSUME NEW pc, NEW fn, NEW flag, Begin(e, pc, fn, flag) PROVE gate'.raw
    BY <2>1 DEF Begin
  <2>2. CASE Store(e, "raw:fn", "raw:publish", "raw", TRUE)
    BY <1>0, <2>2 DEF Store, Gates
  <2>3. CASE set_csi_callback(e) \/ clear_csi_callback(e)
    BY <1>1, <2>1, <2>3 DEF set_csi_callback, clear_csi_callback
  <2>4. CASE set_csi_raw_callback(e)
    BY <1>1, <2>1, <2>2, <2>4 DEF set_csi_raw_callback
  <2>5. CASE set_csi_logging_enabled(e) \/ reset(e)
    BY <1>1, <2>1, <2>5 DEF set_csi_logging_enabled, reset
  <2>6. CASE set_csi_delivery_mode(e) \/ set_csi_output_enabled(e)
    BY <1>1, <2>6 DEF set_csi_delivery_mode, set_csi_output_enabled
  <2>7. QED
    BY <1>3, <2>3, <2>4, <2>5, <2>6 DEF Setter
<1>4. CASE LazySelect
  BY <1>1, <1>2, <1>4 DEF LazySelect
<1>5. CASE NextPacketCall \/ Poll \/ Repoll \/ Cancel
  BY <1>2, <1>5 DEF NextPacketCall, Poll, Take, Register, Repoll, Cancel
<1>6. CASE CaptureStart \/ CaptureStep
  BY <1>2, <1>6 DEF CaptureStart, CaptureStep, LoadRawCallback, LoadPublishGate, FilterFrame,
     BuildPacket, Judge, LoadDeliveryMode, LoadCallback, RunCallback, Enqueue, Wake,
     LoadInlineGate, CaptureGoto
<1>7. CASE UNCHANGED vars
  BY <1>2, <1>7 DEF vars
<1>8. QED
  BY <1>3, <1>4, <1>5, <1>6, <1>7 DEF Next

\* Only a registered raw callback is run.
RawInv == cap.pc = "rawcall" => gate.raw

LEMMA RawStep == ASSUME TypeOK, RawInv, [Next]_vars PROVE RawInv'
<1> USE DEF RawInv
<1>1. CASE UNCHANGED cap
  BY <1>1, RawKept
<1>2. CASE CaptureStart
  BY <1>2 DEF CaptureStart
<1>3. CASE CaptureStep
  <2> USE DEF TypeOK, Captures, NoCapture, CaptureGoto
  <2>1. CASE LoadRawCallback
    BY <2>1 DEF LoadRawCallback
  <2>2. CASE LoadPublishGate \/ FilterFrame \/ BuildPacket
    BY <2>2 DEF LoadPublishGate, FilterFrame, BuildPacket, Judge
  <2>3. CASE LoadDeliveryMode \/ LoadCallback
    <3>1. gate.mode \in {"Callback", "Async", "Off"}
      BY DEF Gates, Modes
    <3>2. CASE LoadDeliveryMode
      BY <3>1, <3>2 DEF LoadDeliveryMode
    <3>3. CASE LoadCallback
      BY <3>3 DEF LoadCallback
    <3>4. QED
      BY <2>3, <3>2, <3>3
  <2>4. CASE RunCallback \/ Enqueue \/ Wake \/ LoadInlineGate
    BY <2>4 DEF RunCallback, Enqueue, Wake, LoadInlineGate
  <2>5. QED
    BY <1>3, <2>1, <2>2, <2>3, <2>4 DEF CaptureStep
<1>4. \A e \in Executors : Setter(e) => UNCHANGED cap
  BY SetterFrame
<1>5. NextPacketCall \/ LazySelect \/ Poll \/ Repoll \/ Cancel => UNCHANGED cap
  BY DEF NextPacketCall, LazySelect, Store, Poll, Take, Register, Repoll, Cancel
<1>6. QED
  BY <1>1, <1>2, <1>3, <1>4, <1>5 DEF Next, vars

\* After reset(), with no opening call since it began, every late Wi-Fi callback
\* stops at the publish gate: the old callback, the queue and the log are out
\* of its reach, and only a raw callback that is still registered is run.
THEOREM LateFramesStop == HSpec => []LateFramesStopAtGate
<1>1. HInit => TypeOK /\ SealInv /\ RawInv
  BY InitType DEF HInit, SealInv, RawInv, Init, NoCapture
<1>2. TypeOK /\ SealInv /\ RawInv /\ [HNext]_hvars => (TypeOK /\ SealInv /\ RawInv)'
  <2>1. [HNext]_hvars => [Next]_vars
    BY DEF HNext, hvars
  <2>2. QED
    BY <2>1, NextType, SealStep, RawStep
<1>3. SealInv /\ RawInv => LateFramesStopAtGate
  BY DEF SealInv, RawInv, LateFramesStopAtGate
<1>4. QED
  BY <1>1, <1>2, <1>3, PTL DEF HSpec

-----------------------------------------------------------------------------
(***************************************************************************)
(* The function that a capture runs.  With one executor a step moves the   *)
(* stored function only as follows.                                        *)
(***************************************************************************)
FunctionMove ==
    \/ exec'[Home] = exec[Home] /\ gate'.fn = gate.fn
    \/ /\ exec[Home].pc \notin CallbackPcs /\ exec'[Home].pc \notin CallbackPcs
       /\ ~Returns(Home, ClearPcs \cup ResetPcs)
       /\ gate'.fn = gate.fn
    \/ /\ exec[Home].pc = "idle" /\ exec'[Home].pc = "callback:fn"
       /\ gate'.fn = gate.fn
    \/ /\ exec[Home].pc = "callback:fn" /\ exec'[Home].pc = "callback:mode"
       /\ exec'[Home].fn = exec[Home].fn
       /\ gate'.fn = exec[Home].fn
    \/ /\ exec[Home].pc = "callback:mode" /\ exec'[Home].pc = "callback:publish"
       /\ exec'[Home].fn = exec[Home].fn
       /\ gate'.fn = gate.fn
    \/ /\ exec[Home].pc = "callback:publish" /\ exec'[Home].pc = "idle"
       /\ gate'.fn = gate.fn
    \/ /\ exec[Home].pc \in {"clear:fn", "reset:fn"} /\ exec'[Home].pc = "idle"
       /\ gate'.fn = NoCallback

\* Every step is such a move.
LEMMA FunctionMoves == ASSUME SingleExecutor, TypeOK, [Next]_vars PROVE FunctionMove
<1> USE ConstantsAssumption
<1>0. /\ exec \in [Executors -> Activities] /\ Home \in Executors /\ gate \in Gates
      /\ \A e \in Executors : e = Home
  BY DEF TypeOK, SingleExecutor
<1>1. ASSUME UNCHANGED <<gate, exec>> PROVE FunctionMove
  BY <1>1 DEF FunctionMove
<1>2. ASSUME NEW from, NEW to, NEW field, NEW value, Store(Home, from, to, field, value),
             field # "fn", from \notin CallbackPcs, to \notin CallbackPcs,
             to = "idle" => from \notin ClearPcs \cup ResetPcs
      PROVE  FunctionMove
  BY <1>0, <1>2 DEF Store, Goto, Gates, Activities, FunctionMove, Returns, CallbackPcs, Quiet
<1>3. ASSUME NEW pc, NEW fn, NEW flag, Begin(Home, pc, fn, flag), pc # "idle",
             pc \notin CallbackPcs
      PROVE  FunctionMove
  BY <1>0, <1>3 DEF Begin, Activities, FunctionMove, Returns, CallbackPcs, ClearPcs, ResetPcs
<1>4. ASSUME NEW from, NEW to, Goto(Home, from, to), UNCHANGED gate, to \notin CallbackPcs,
             from \notin CallbackPcs \cup ClearPcs \cup ResetPcs
      PROVE  FunctionMove
  BY <1>0, <1>4 DEF Goto, Activities, FunctionMove, Returns, CallbackPcs, Quiet
<1>5. ASSUME NEW e \in Executors, Setter(e) PROVE FunctionMove
  <2>1. e = Home
    BY <1>0
  <2>2. CASE set_csi_callback(Home)
    <3>1. ASSUME NEW fn \in Callbacks, Begin(Home, "callback:fn", fn, FALSE) PROVE FunctionMove
      BY <1>0, <3>1 DEF Begin, Activities, FunctionMove
    <3>2. CASE Store(Home, "callback:fn", "callback:mode", "fn", exec[Home].fn)
      BY <1>0, <3>2 DEF Store, Goto, Gates, Activities, FunctionMove
    <3>3. CASE Store(Home, "callback:mode", "callback:publish", "mode", "Callback")
      BY <1>0, <3>3 DEF Store, Goto, Gates, Activities, FunctionMove
    <3>4. CASE Store(Home, "callback:publish", "idle", "publish", TRUE)
      BY <1>0, <3>4 DEF Store, Goto, Gates, Activities, FunctionMove, Quiet
    <3>5. QED
      BY <2>2, <3>1, <3>2, <3>3, <3>4 DEF set_csi_callback
  <2>3. CASE clear_csi_callback(Home)
    <3>1. CASE Store(Home, "clear:fn", "idle", "fn", NoCallback)
      BY <1>0, <3>1 DEF Store, Goto, Gates, Activities, FunctionMove, Quiet
    <3>2. CASE Begin(Home, "clear:mode", NoCallback, FALSE)
      BY <1>3, <3>2 DEF CallbackPcs
    <3>3. CASE Store(Home, "clear:mode", "clear:fn", "mode", "Off")
      BY <1>2, <3>3 DEF CallbackPcs
    <3>4. QED
      BY <2>3, <3>1, <3>2, <3>3 DEF clear_csi_callback
  <2>4. CASE reset(Home)
    <3>1. CASE Store(Home, "reset:fn", "idle", "fn", NoCallback)
      BY <1>0, <3>1 DEF Store, Goto, Gates, Activities, FunctionMove, Quiet
    <3>2. CASE Begin(Home, "reset:inline", NoCallback, FALSE)
      BY <1>3, <3>2 DEF CallbackPcs
    <3>3. CASE Store(Home, "reset:inline", "reset:publish", "inline", FALSE)
      BY <1>2, <3>3 DEF CallbackPcs
    <3>4. CASE Store(Home, "reset:publish", "reset:mode", "publish", FALSE)
      BY <1>2, <3>4 DEF CallbackPcs
    <3>5. CASE Store(Home, "reset:mode", "reset:fn", "mode", "Off")
      BY <1>2, <3>5 DEF CallbackPcs
    <3>6. QED
      BY <2>4, <3>1, <3>2, <3>3, <3>4, <3>5 DEF reset
  <2>5. CASE set_csi_raw_callback(Home)
    BY <1>2, <1>3, <2>5 DEF set_csi_raw_callback, CallbackPcs, ClearPcs, ResetPcs
  <2>6. CASE set_csi_logging_enabled(Home)
    BY <1>2, <1>3, <2>6 DEF set_csi_logging_enabled, CallbackPcs, ClearPcs, ResetPcs
  <2>7. CASE set_csi_delivery_mode(Home)
    BY <1>2, <2>7 DEF set_csi_delivery_mode, CallbackPcs, ClearPcs, ResetPcs
  <2>8. CASE set_csi_output_enabled(Home)
    BY <1>2, <2>8 DEF set_csi_output_enabled, CallbackPcs, ClearPcs, ResetPcs
  <2>9. QED
    BY <1>5, <2>1, <2>2, <2>3, <2>4, <2>5, <2>6, <2>7, <2>8 DEF Setter
<1>6. CASE LazySelect
  BY <1>2, <1>4, <1>6 DEF LazySelect, CallbackPcs, ClearPcs, ResetPcs
<1>7. CASE NextPacketCall \/ Poll \/ Repoll
  BY <1>4, <1>7 DEF NextPacketCall, Poll, Take, Register, Repoll, CallbackPcs, ClearPcs, ResetPcs
<1>8. CASE Cancel \/ CaptureStart \/ CaptureStep \/ UNCHANGED vars
  BY <1>1, <1>8 DEF Cancel, CaptureStart, CaptureStep, LoadRawCallback, LoadPublishGate,
     FilterFrame, BuildPacket, Judge, LoadDeliveryMode, LoadCallback, RunCallback, Enqueue,
     Wake, LoadInlineGate, CaptureGoto, vars
<1>9. QED
  BY <1>5, <1>6, <1>7, <1>8 DEF Next

\* What is registered after a step, when every call is Home's.
LEMMA FnsOfHome ==
    ASSUME SingleExecutor
    PROVE  Fns = IF Returns(Home, ClearPcs \cup ResetPcs) THEN {}
                 ELSE IF Returns(Home, CallbackPcs) THEN {exec[Home].fn}
                 ELSE hist.fns \cup IF exec'[Home].pc \in CallbackPcs THEN {exec'[Home].fn}
                                                                      ELSE {}
<1>1. Executors = {Home}
  BY ConstantsAssumption DEF SingleExecutor
<1>2. QED
  BY <1>1 DEF Fns

(***************************************************************************)
(* The inductive invariant: the stored function is registered, and what is *)
(* registered was so at some time during the capture.                      *)
(***************************************************************************)
FnsInv ==
    /\ gate.fn # NoCallback => gate.fn \in hist.fns
    /\ exec[Home].pc \in CallbackPcs => exec[Home].fn \in hist.fns
    /\ exec[Home].pc \in {"callback:mode", "callback:publish"} => gate.fn = exec[Home].fn
    /\ cap.pc # "idle" => hist.fns \subseteq hist.live
    /\ cap.pc = "call" => cap.fn \in hist.live

\* A capture is at its call only when it has just loaded the function.
LEMMA CallMoves ==
    ASSUME TypeOK, [Next]_vars, cap'.pc = "call"
    PROVE  \/ cap.pc = "call" /\ cap' = cap
           \/ cap.pc = "fn" /\ cap'.fn = gate.fn /\ gate.fn # NoCallback /\ UNCHANGED gate
<1> USE DEF TypeOK, Captures
<1>1. CASE CaptureStep
  <2>1. ASSUME NEW from, NEW to, CaptureGoto(from, to), to # "call" PROVE FALSE
    BY <2>1 DEF CaptureGoto, NoCapture
  <2>2. ~LoadRawCallback /\ ~LoadPublishGate /\ ~FilterFrame /\ ~BuildPacket
    BY <2>1 DEF LoadRawCallback, LoadPublishGate, FilterFrame, BuildPacket, Judge
  <2>3. ~LoadDeliveryMode
    BY <2>1 DEF LoadDeliveryMode, Gates, Modes
  <2>4. ~RunCallback /\ ~Enqueue /\ ~Wake /\ ~LoadInlineGate
    BY <2>1 DEF RunCallback, Enqueue, Wake, LoadInlineGate
  <2>5. CASE LoadCallback
    BY <2>5 DEF LoadCallback, NoCapture
  <2>6. QED
    BY <1>1, <2>2, <2>3, <2>4, <2>5 DEF CaptureStep
<1>2. CASE CaptureStart
  BY <1>2 DEF CaptureStart
<1>3. \A e \in Executors : Setter(e) => UNCHANGED cap
  BY SetterFrame
<1>4. NextPacketCall \/ LazySelect \/ Poll \/ Repoll \/ Cancel => UNCHANGED cap
  BY DEF NextPacketCall, LazySelect, Store, Poll, Take, Register, Repoll, Cancel
<1>5. QED
  BY <1>1, <1>2, <1>3, <1>4 DEF Next, vars

LEMMA FnsStep ==
    ASSUME SingleExecutor, TypeOK, FnsInv, [HNext]_hvars
    PROVE  FnsInv'
<1>1. CASE UNCHANGED hvars
  BY <1>1 DEF hvars, vars, FnsInv
<1>2. CASE HNext
  <2>1. [Next]_vars /\ hist'.fns = Fns
        /\ hist'.live = (IF cap'.pc = "idle" THEN {} ELSE hist.live \cup Fns)
    BY <1>2 DEF HNext
  <2>2. /\ gate'.fn # NoCallback => gate'.fn \in Fns
        /\ exec'[Home].pc \in CallbackPcs => exec'[Home].fn \in Fns
        /\ exec'[Home].pc \in {"callback:mode", "callback:publish"}
             => gate'.fn = exec'[Home].fn
    BY <2>1, FunctionMoves, FnsOfHome DEF FunctionMove, FnsInv, Returns, CallbackPcs, ClearPcs,
       ResetPcs
  <2>3. cap'.pc # "idle" => Fns \subseteq hist'.live
    BY <2>1
  <2>4. cap'.pc = "call" => cap'.fn \in hist'.live
    BY <2>1, CallMoves DEF FnsInv
  <2>5. QED
    BY <2>1, <2>2, <2>3, <2>4 DEF FnsInv
<1>3. QED
  BY <1>1, <1>2

\* With every application task on one executor, a frame is handed to a function
\* only if it was registered at some time during the capture: when
\* clear_csi_callback, reset or the registration of another function has returned,
\* no later frame runs the old one.
THEOREM WithdrawnIsNotRun ==
    ASSUME SingleExecutor
    PROVE  HSpec => []NoStaleCallback
<1>1. HInit => TypeOK /\ FnsInv
  BY InitType, ConstantsAssumption DEF HInit, Init, FnsInv, Quiet, NoCapture, CallbackPcs
<1>2. TypeOK /\ FnsInv /\ [HNext]_hvars => (TypeOK /\ FnsInv)'
  <2>1. [HNext]_hvars => [Next]_vars
    BY DEF HNext, hvars
  <2>2. QED
    BY <2>1, NextType, FnsStep
<1>3. FnsInv => NoStaleCallback
  BY DEF FnsInv, NoStaleCallback
<1>4. QED
  BY <1>1, <1>2, <1>3, PTL DEF HSpec

-----------------------------------------------------------------------------
(***************************************************************************)
(* The service of a registered callback, with one executor.  Invariant of  *)
(* the calls: each store builds on those before it.                        *)
(***************************************************************************)
CallInv ==
    /\ exec[Home].pc = "idle" => exec[Home] = Quiet
    /\ exec[Home].pc \in CallbackPcs => exec[Home].fn \in Callbacks
    /\ exec[Home].pc \in {"callback:mode", "callback:publish"} => gate.fn \in Callbacks
    /\ exec[Home].pc = "callback:publish" => gate.mode = "Callback"

\* What the gates are from a registration to what withdraws it.
Serving ==
    /\ gate.mode = "Callback" /\ gate.fn \in Callbacks /\ gate.publish /\ ~gate.raw
    /\ exec[Home].pc \notin ClearPcs \cup ResetPcs \cup {"lazy:mode", "lazy:publish"}
    /\ ~Disabling(exec[Home])

\* The step withdraws nothing.
NotWithdrawn ==
    /\ exec'[Home].pc \notin ClearPcs \cup ResetPcs
    /\ ~Disabling(exec'[Home])
    /\ ~gate'.raw
    /\ gate'.mode = gate.mode \/ exec' # exec

ServiceMove ==
    /\ CallInv'
    /\ Serving /\ NotWithdrawn => Serving'
    /\ Returns(Home, CallbackPcs) /\ NotWithdrawn => Serving'

\* Every step keeps the calls' invariant and the service, and the return of
\* set_csi_callback begins it.
LEMMA ServiceMoves ==
    ASSUME SingleExecutor, TypeOK, CallInv, [Next]_vars
    PROVE  ServiceMove
<1> USE ConstantsAssumption
<1>0. /\ exec \in [Executors -> Activities] /\ Home \in Executors /\ gate \in Gates
      /\ \A e \in Executors : e = Home
  BY DEF TypeOK, SingleExecutor
<1> USE <1>0 DEF Gates, Activities, ServiceMove, CallInv, Serving, NotWithdrawn, Returns,
                 Disabling, CallbackPcs, ClearPcs, ResetPcs
<1>1. ASSUME UNCHANGED <<gate, exec>> PROVE ServiceMove
  BY <1>1
<1>2. ASSUME NEW pc, NEW flag \in BOOLEAN, Begin(Home, pc, NoCallback, flag),
             pc \in {"clear:mode", "raw:fn", "reset:inline"}
      PROVE  ServiceMove
  BY <1>2 DEF Begin
<1>3. CASE set_csi_callback(Home)
  <2>1. ASSUME NEW fn \in Callbacks, Begin(Home, "callback:fn", fn, FALSE) PROVE ServiceMove
    BY <2>1 DEF Begin
  <2>2. CASE Store(Home, "callback:fn", "callback:mode", "fn", exec[Home].fn)
    BY <2>2 DEF Store, Goto
  <2>3. CASE Store(Home, "callback:mode", "callback:publish", "mode", "Callback")
    BY <2>3 DEF Store, Goto
  <2>4. CASE Store(Home, "callback:publish", "idle", "publish", TRUE)
    BY <2>4 DEF Store, Goto, Quiet
  <2>5. QED
    BY <1>3, <2>1, <2>2, <2>3, <2>4 DEF set_csi_callback
<1>4. CASE clear_csi_callback(Home)
  <2>1. CASE Store(Home, "clear:mode", "clear:fn", "mode", "Off")
    BY <2>1 DEF Store, Goto
  <2>2. CASE Store(Home, "clear:fn", "idle", "fn", NoCallback)
    BY <2>2 DEF Store, Goto, Quiet
  <2>3. QED
    BY <1>2, <1>4, <2>1, <2>2 DEF clear_csi_callback
<1>5. CASE set_csi_raw_callback(Home)
  <2>1. CASE Store(Home, "raw:fn", "raw:publish", "raw", TRUE)
    BY <2>1 DEF Store, Goto
  <2>2. CASE Store(Home, "raw:publish", "idle", "publish", TRUE)
    BY <2>2 DEF Store, Goto, Quiet
  <2>3. QED
    BY <1>2, <1>5, <2>1, <2>2 DEF set_csi_raw_callback
<1>6. CASE set_csi_logging_enabled(Home)
  <2>1. ASSUME NEW flag \in LoggingArgs, Begin(Home, "logging:inline", NoCallback, flag)
        PROVE  ServiceMove
    BY <2>1 DEF Begin
  <2>2. CASE Store(Home, "logging:inline", "logging:publish", "inline", exec[Home].flag)
    BY <2>2 DEF Store, Goto
  <2>3. CASE Store(Home, "logging:publish", "idle", "publish", exec[Home].flag)
    BY <2>3 DEF Store, Goto, Quiet
  <2>4. QED
    BY <1>6, <2>1, <2>2, <2>3 DEF set_csi_logging_enabled
<1>7. CASE set_csi_delivery_mode(Home)
  <2>1. PICK mode \in ModeArgs : Store(Home, "idle", "idle", "mode", mode)
    BY <1>7 DEF set_csi_delivery_mode
  <2>2. exec' = exec /\ exec[Home].pc = "idle"
    BY <2>1 DEF Store, Goto
  <2>3. gate' = [gate EXCEPT !["mode"] = mode]
    BY <2>1 DEF Store
  <2>4. QED
    BY <2>2, <2>3
<1>8. CASE set_csi_output_enabled(Home)
  <2>1. PICK flag \in OutputArgs : Store(Home, "idle", "idle", "output", flag)
    BY <1>8 DEF set_csi_output_enabled
  <2>2. exec' = exec /\ exec[Home].pc = "idle"
    BY <2>1 DEF Store, Goto
  <2>3. gate' = [gate EXCEPT !["output"] = flag]
    BY <2>1 DEF Store
  <2>4. QED
    BY <2>2, <2>3
<1>9. CASE reset(Home)
  <2>1. CASE Store(Home, "reset:inline", "reset:publish", "inline", FALSE)
    BY <2>1 DEF Store, Goto
  <2>2. CASE Store(Home, "reset:publish", "reset:mode", "publish", FALSE)
    BY <2>2 DEF Store, Goto
  <2>3. CASE Store(Home, "reset:mode", "reset:fn", "mode", "Off")
    BY <2>3 DEF Store, Goto
  <2>4. CASE Store(Home, "reset:fn", "idle", "fn", NoCallback)
    BY <2>4 DEF Store, Goto, Quiet
  <2>5. QED
    BY <1>2, <1>9, <2>1, <2>2, <2>3, <2>4 DEF reset
<1>10. CASE LazySelect
  <2>1. CASE Goto(Home, "lazy:test", IF gate.mode = "Off" THEN "lazy:mode" ELSE "poll:dequeue")
             /\ UNCHANGED <<gate, drain, cap, stats>>
    BY <2>1 DEF Goto
  <2>2. CASE Store(Home, "lazy:mode", "lazy:publish", "mode", "Async")
    BY <2>2 DEF Store, Goto
  <2>3. CASE Store(Home, "lazy:publish", "poll:dequeue", "publish", TRUE)
    BY <2>3 DEF Store, Goto
  <2>4. QED
    BY <1>10, <2>1, <2>2, <2>3 DEF LazySelect
<1>11. ASSUME NEW from, NEW to \in {"idle", "lazy:test"} \cup PollPcs, Goto(Home, from, to),
              from \in {"idle"} \cup PollPcs, UNCHANGED gate
       PROVE  ServiceMove
  BY <1>11 DEF Goto, PollPcs, Quiet
<1>12. CASE NextPacketCall \/ Poll \/ Repoll
  BY <1>11, <1>12 DEF NextPacketCall, Poll, Take, Register, Repoll, PollPcs
<1>13. CASE Cancel \/ CaptureStart \/ CaptureStep \/ UNCHANGED vars
  BY <1>1, <1>13 DEF Cancel, CaptureStart, CaptureStep, LoadRawCallback, LoadPublishGate,
     FilterFrame, BuildPacket, Judge, LoadDeliveryMode, LoadCallback, RunCallback, Enqueue,
     Wake, LoadInlineGate, CaptureGoto, vars
<1>14. \A e \in Executors : Setter(e) => Setter(Home)
  BY <1>0
<1>15. QED
  BY <1>3, <1>4, <1>5, <1>6, <1>7, <1>8, <1>9, <1>10, <1>12, <1>13, <1>14 DEF Next, Setter

\* The inductive invariant: while a callback is owed the gates serve it, and a
\* frame it is owed is on its way to it.
OwedInv ==
    /\ CallInv
    /\ hist.owing => Serving
    /\ hist.owed => /\ hist.owing
                    /\ cap.pc \in {"raw", "publish", "filter", "build", "mode", "fn", "call"}

\* A served frame goes on towards the callback, or ends.
LEMMA ServedCapture ==
    ASSUME TypeOK, Serving, CaptureStep,
           cap.pc \in {"raw", "publish", "filter", "build", "mode", "fn", "call"}
    PROVE  cap'.pc \in {"idle", "publish", "filter", "build", "mode", "fn", "call"}
<1> USE ConstantsAssumption DEF Serving, TypeOK, Captures, NoCapture
<1>1. CASE LoadRawCallback \/ LoadPublishGate
  BY <1>1 DEF LoadRawCallback, LoadPublishGate, CaptureGoto
<1>2. CASE FilterFrame \/ BuildPacket
  BY <1>2 DEF FilterFrame, BuildPacket, Judge, CaptureGoto
<1>3. CASE LoadDeliveryMode \/ LoadCallback
  BY <1>3 DEF LoadDeliveryMode, LoadCallback, CaptureGoto
<1>4. CASE RunCallback \/ Enqueue \/ Wake \/ LoadInlineGate
  BY <1>4 DEF RunCallback, Enqueue, Wake, LoadInlineGate, CaptureGoto
<1>5. QED
  BY <1>1, <1>2, <1>3, <1>4 DEF CaptureStep

LEMMA OwedStep ==
    ASSUME SingleExecutor, TypeOK, OwedInv, [HNext]_hvars
    PROVE  OwedInv'
<1>1. CASE UNCHANGED hvars
  BY <1>1 DEF hvars, vars, OwedInv, CallInv, Serving, Disabling
<1>2. CASE HNext
  <2>1. /\ [Next]_vars
        /\ hist'.owing = Owing
        /\ hist'.owed = OfFrame(hist.owing, hist.owed, Owing)
    BY <1>2 DEF HNext
  <2>2. Executors = {Home}
    BY ConstantsAssumption DEF SingleExecutor
  <2>3. ServiceMove
    BY <2>1, ServiceMoves DEF OwedInv
  <2>4. Owing => NotWithdrawn /\ (hist.owing \/ Returns(Home, CallbackPcs))
    BY <2>2 DEF Owing, Withdrawn, NotWithdrawn
  <2>5. hist'.owing => Serving'
    BY <2>1, <2>3, <2>4 DEF OwedInv, ServiceMove
  <2>6. ASSUME hist'.owed
        PROVE  /\ hist'.owing
               /\ cap'.pc \in {"raw", "publish", "filter", "build", "mode", "fn", "call"}
    <3>1. cap'.pc # "idle" /\ IF cap.pc = "idle" THEN hist.owing ELSE hist.owed /\ Owing
      BY <2>1, <2>6 DEF OfFrame
    <3>2. \A e \in Executors : Setter(e) => UNCHANGED cap
      BY SetterFrame
    <3>3. NextPacketCall \/ LazySelect \/ Poll \/ Repoll \/ Cancel => UNCHANGED cap
      BY DEF NextPacketCall, LazySelect, Store, Poll, Take, Register, Repoll, Cancel
    <3>4. CaptureStart \/ CaptureStep \/ UNCHANGED cap
      BY <2>1, <3>2, <3>3 DEF Next, vars
    <3>5. CASE cap.pc = "idle"
      <4>1. ~CaptureStep
        BY <3>5 DEF CaptureStep, LoadRawCallback, LoadPublishGate, FilterFrame, BuildPacket,
           Judge, LoadDeliveryMode, LoadCallback, RunCallback, Enqueue, Wake,
           LoadInlineGate, CaptureGoto
      <4>2. cap'.pc = "raw" /\ exec' = exec /\ gate' = gate
        BY <3>1, <3>4, <3>5, <4>1 DEF CaptureStart
      <4>3. hist.owing /\ Serving
        BY <3>1, <3>5 DEF OwedInv
      <4>4. Owing
        BY <2>2, <4>2, <4>3 DEF Owing, Withdrawn, Serving
      <4>5. QED
        BY <2>1, <4>2, <4>4
    <3>6. CASE cap.pc # "idle"
      <4>1. /\ hist.owed /\ Owing /\ Serving
            /\ cap.pc \in {"raw", "publish", "filter", "build", "mode", "fn", "call"}
        BY <3>1, <3>6 DEF OwedInv
      <4>2. ~CaptureStart
        BY <3>6 DEF CaptureStart
      <4>3. cap'.pc \in {"raw", "publish", "filter", "build", "mode", "fn", "call"}
        BY <3>1, <3>4, <4>1, <4>2, ServedCapture
      <4>4. QED
        BY <2>1, <4>1, <4>3
    <3>7. QED
      BY <3>5, <3>6
  <2>7. QED
    BY <2>3, <2>5, <2>6 DEF OwedInv, ServiceMove
<1>3. QED
  BY <1>1, <1>2

\* With every application task on one executor, a frame captured between the
\* return of set_csi_callback and whatever withdraws it passes the gate, stays out
\* of the queue and of the log, and is never lost to a null pointer; users may
\* select any delivery mode and enable the log.  Disabling it withdraws.
THEOREM RegisteredIsServed ==
    ASSUME SingleExecutor
    PROVE  HSpec => []RegisteredCallbackIsServed
<1>1. HInit => TypeOK /\ OwedInv
  BY InitType, ConstantsAssumption
  DEF HInit, Init, OwedInv, CallInv, Quiet, NoCapture, CallbackPcs
<1>2. TypeOK /\ OwedInv /\ [HNext]_hvars => (TypeOK /\ OwedInv)'
  <2>1. [HNext]_hvars => [Next]_vars
    BY DEF HNext, hvars
  <2>2. QED
    BY <2>1, NextType, OwedStep
<1>3. OwedInv => RegisteredCallbackIsServed
  BY ConstantsAssumption DEF OwedInv, Serving, RegisteredCallbackIsServed
<1>4. QED
  BY <1>1, <1>2, <1>3, PTL DEF HSpec
============================================================================
