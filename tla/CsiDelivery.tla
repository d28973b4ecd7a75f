----------------------------- MODULE CsiDelivery -----------------------------
(***************************************************************************)
(* The delivery of captured CSI, csi/delivery.rs.  The Wi-Fi task runs     *)
(* capture_csi_info for every frame the radio measures; it reads a handful *)
(* of global atomics, one relaxed load at a time, and hands the frame to a *)
(* user callback, to the bounded queue, or to the inline logger.  The      *)
(* application sets those atomics, one store at a time, through the        *)
(* set_csi_* functions; the node closes them between runs with reset();    *)
(* and one client task drains the queue with next_csi_packet, parking on a *)
(* single-slot waker.                                                      *)
(*                                                                         *)
(* The Wi-Fi task preempts everything.  The application runs on Executors: *)
(* one cooperative executor, or two when the user starts one on the second *)
(* core.  Calls made on the same executor never overlap (none of them      *)
(* awaits between its stores); calls on different executors do.  Atomics   *)
(* are sequentially consistent here.                                       *)
(***************************************************************************)
EXTENDS Integers, Sequences

CONSTANTS
    Executors,     \* the cooperative executors that application tasks run on
    Home,          \* the executor of the node task and of the client task
    Callbacks,     \* the functions a user may register
    NoCallback,    \* the null function pointer
    QueueCap,      \* capacity of CSI_QUEUE (32 in the code)
    MaxFrames,     \* bound: frames captured in one behaviour
    RawAllowed,    \* whether users call set_csi_raw_callback
    LoggingArgs,   \* arguments users give set_csi_logging_enabled
    ModeArgs,      \* arguments users give set_csi_delivery_mode
    OutputArgs     \* arguments users give set_csi_output_enabled

Modes == {"Off", "Callback", "Async"}

ASSUME ConstantsAssumption ==
    /\ Home \in Executors
    /\ NoCallback \notin Callbacks
    /\ QueueCap \in Nat \ {0}
    /\ MaxFrames \in Nat
    /\ RawAllowed \in BOOLEAN
    /\ LoggingArgs \subseteq BOOLEAN
    /\ ModeArgs \subseteq Modes
    /\ OutputArgs \subseteq BOOLEAN

VARIABLES
    gate,        \* the delivery atomics
    queue,       \* CSI_QUEUE, by frame number
    registered,  \* whether CSI_WAKER holds the client task's waker
    woken,       \* whether the client task is in its executor's run queue
    client,      \* the client task: "out" of next_csi_packet or "awaiting" it
    exec,        \* per executor: the call or poll in progress
    cap,         \* the Wi-Fi task: the capture in progress
    stats        \* STATS.rx_count, and the part of rx_drop_count that delivery adds

drain == <<queue, registered, woken, client>>
vars == <<gate, drain, exec, cap, stats>>

(***************************************************************************)
(* Program counters.  An executor's pc names the next store or load of the *)
(* call in progress; the Wi-Fi task's names the next load of the capture.  *)
(***************************************************************************)
SetterPcs == {"callback:fn", "callback:mode", "callback:publish",
              "clear:mode", "clear:fn", "raw:fn", "raw:publish",
              "logging:inline", "logging:publish",
              "reset:inline", "reset:publish", "reset:mode", "reset:fn"}
LazyPcs == {"lazy:test", "lazy:mode", "lazy:publish"}
PollPcs == {"poll:dequeue", "poll:register", "poll:recheck"}
CapturePcs == {"idle", "raw", "rawcall", "publish", "filter", "build", "mode",
               "fn", "call", "enqueue", "wake", "inline"}

Quiet == [pc |-> "idle", fn |-> NoCallback, flag |-> FALSE]
NoCapture == [pc |-> "idle", frame |-> 0, fn |-> NoCallback]

Gates == [publish : BOOLEAN, inline : BOOLEAN, output : BOOLEAN, mode : Modes,
          fn : Callbacks \cup {NoCallback}, raw : BOOLEAN]
Activities == [pc : {"idle"} \cup SetterPcs \cup LazyPcs \cup PollPcs,
               fn : Callbacks \cup {NoCallback}, flag : BOOLEAN]
Captures == [pc : CapturePcs, frame : 0..MaxFrames, fn : Callbacks \cup {NoCallback}]

TypeOK ==
    /\ gate \in Gates
    /\ queue \in Seq(0..MaxFrames)
    /\ Len(queue) <= QueueCap
    /\ registered \in BOOLEAN
    /\ woken \in BOOLEAN
    /\ client \in {"out", "awaiting"}
    /\ exec \in [Executors -> Activities]
    /\ cap \in Captures
    /\ stats \in [rx : 0..MaxFrames, drop : Nat]

Init ==
    /\ gate = [publish |-> FALSE, inline |-> FALSE, output |-> FALSE,
               mode |-> "Off", fn |-> NoCallback, raw |-> FALSE]
    /\ queue = <<>>
    /\ registered = FALSE
    /\ woken = FALSE
    /\ client = "out"
    /\ exec = [e \in Executors |-> Quiet]
    /\ cap = NoCapture
    /\ stats = [rx |-> 0, drop |-> 0]

-----------------------------------------------------------------------------
(***************************************************************************)
(* The setters: a call starts on an idle executor and makes its stores in  *)
(* the order of the code; its last store returns.                          *)
(***************************************************************************)
Goto(e, from, to) ==
    /\ exec[e].pc = from
    /\ exec' = [exec EXCEPT ![e] = IF to = "idle" THEN Quiet ELSE [@ EXCEPT !.pc = to]]

Begin(e, pc, fn, flag) ==
    /\ exec[e].pc = "idle"
    /\ exec' = [exec EXCEPT ![e] = [pc |-> pc, fn |-> fn, flag |-> flag]]
    /\ UNCHANGED <<gate, drain, cap, stats>>

Store(e, from, to, field, value) ==
    /\ Goto(e, from, to)
    /\ gate' = [gate EXCEPT ![field] = value]
    /\ UNCHANGED <<drain, cap, stats>>

\* Mutated form: the mode is flipped before the function is stored.
SetCallbackModeFirst(e) ==
    \/ \E fn \in Callbacks : Begin(e, "callback:mode", fn, FALSE)
    \/ Store(e, "callback:mode", "callback:fn", "mode", "Callback")
    \/ Store(e, "callback:fn", "callback:publish", "fn", exec[e].fn)
    \/ Store(e, "callback:publish", "idle", "publish", TRUE)

set_csi_callback(e) ==
    \/ \E fn \in Callbacks : Begin(e, "callback:fn", fn, FALSE)
    \/ Store(e, "callback:fn", "callback:mode", "fn", exec[e].fn)
    \/ Store(e, "callback:mode", "callback:publish", "mode", "Callback")
    \/ Store(e, "callback:publish", "idle", "publish", TRUE)

clear_csi_callback(e) ==
    \/ Begin(e, "clear:mode", NoCallback, FALSE)
    \/ Store(e, "clear:mode", "clear:fn", "mode", "Off")
    \/ Store(e, "clear:fn", "idle", "fn", NoCallback)

set_csi_raw_callback(e) ==
    \/ RawAllowed /\ Begin(e, "raw:fn", NoCallback, FALSE)
    \/ Store(e, "raw:fn", "raw:publish", "raw", TRUE)
    \/ Store(e, "raw:publish", "idle", "publish", TRUE)

set_csi_logging_enabled(e) ==
    \/ \E flag \in LoggingArgs : Begin(e, "logging:inline", NoCallback, flag)
    \/ Store(e, "logging:inline", "logging:publish", "inline", exec[e].flag)
    \/ Store(e, "logging:publish", "idle", "publish", exec[e].flag)

set_csi_delivery_mode(e) ==
    \E mode \in ModeArgs : Store(e, "idle", "idle", "mode", mode)

\* The flag is stored here and, from the node's setting, by run_inner.
set_csi_output_enabled(e) ==
    \E flag \in OutputArgs : Store(e, "idle", "idle", "output", flag)

\* Mutated form: the publish gate is left open.
ResetWithoutGate(e) ==
    \/ e = Home /\ Begin(e, "reset:inline", NoCallback, FALSE)
    \/ Store(e, "reset:inline", "reset:mode", "inline", FALSE)
    \/ Store(e, "reset:mode", "reset:fn", "mode", "Off")
    \/ Store(e, "reset:fn", "idle", "fn", NoCallback)

\* Mutated form: the gates are closed, the consumer is not forgotten.
ResetGatesOnly(e) ==
    \/ e = Home /\ Begin(e, "reset:inline", NoCallback, FALSE)
    \/ Store(e, "reset:inline", "reset:publish", "inline", FALSE)
    \/ Store(e, "reset:publish", "idle", "publish", FALSE)

\* reset(), called by the node task at the end of every run.
reset(e) ==
    \/ e = Home /\ Begin(e, "reset:inline", NoCallback, FALSE)
    \/ Store(e, "reset:inline", "reset:publish", "inline", FALSE)
    \/ Store(e, "reset:publish", "reset:mode", "publish", FALSE)
    \/ Store(e, "reset:mode", "reset:fn", "mode", "Off")
    \/ Store(e, "reset:fn", "idle", "fn", NoCallback)

Setter(e) ==
    \/ set_csi_callback(e)
    \/ clear_csi_callback(e)
    \/ set_csi_raw_callback(e)
    \/ set_csi_logging_enabled(e)
    \/ set_csi_delivery_mode(e)
    \/ set_csi_output_enabled(e)
    \/ reset(e)

-----------------------------------------------------------------------------
(***************************************************************************)
(* next_csi_packet, on the client task.  The call selects Async mode when  *)
(* no path is active, then polls: dequeue, register the waker, dequeue     *)
(* again, park.  A parked task is polled again once something woke it.     *)
(***************************************************************************)
NextPacketCall ==
    /\ client = "out"
    /\ Goto(Home, "idle", "lazy:test")
    /\ client' = "awaiting"
    /\ woken' \in {woken, FALSE}    \* FALSE: the task ran since it was last woken
    /\ UNCHANGED <<gate, queue, registered, cap, stats>>

\* Mutated form: the call takes over whatever path is active.
LazySelectAlways ==
    \/ /\ Goto(Home, "lazy:test", "lazy:mode")
       /\ UNCHANGED <<gate, drain, cap, stats>>
    \/ Store(Home, "lazy:mode", "lazy:publish", "mode", "Async")
    \/ Store(Home, "lazy:publish", "poll:dequeue", "publish", TRUE)

LazySelect ==
    \/ /\ Goto(Home, "lazy:test", IF gate.mode = "Off" THEN "lazy:mode" ELSE "poll:dequeue")
       /\ UNCHANGED <<gate, drain, cap, stats>>
    \/ Store(Home, "lazy:mode", "lazy:publish", "mode", "Async")
    \/ Store(Home, "lazy:publish", "poll:dequeue", "publish", TRUE)

\* A successful dequeue, by which the future completes.
Take(pc) ==
    /\ queue # <<>>
    /\ Goto(Home, pc, "idle")
    /\ queue' = Tail(queue)
    /\ client' = "out"
    /\ UNCHANGED <<gate, registered, woken, cap, stats>>

Register(to) ==
    /\ Goto(Home, "poll:register", to)
    /\ registered' = TRUE
    /\ UNCHANGED <<gate, queue, woken, client, cap, stats>>

\* Mutated form: the task parks without looking at the queue again.
PollWithoutRecheck ==
    \/ Take("poll:dequeue")
    \/ /\ queue = <<>>
       /\ Goto(Home, "poll:dequeue", "poll:register")
       /\ UNCHANGED <<gate, drain, cap, stats>>
    \/ Register("idle")

Poll ==
    \/ Take("poll:dequeue")
    \/ /\ queue = <<>>
       /\ Goto(Home, "poll:dequeue", "poll:register")
       /\ UNCHANGED <<gate, drain, cap, stats>>
    \/ Register("poll:recheck")
    \/ Take("poll:recheck")
    \/ /\ queue = <<>>
       /\ Goto(Home, "poll:recheck", "idle")
       /\ UNCHANGED <<gate, drain, cap, stats>>

\* The executor takes the parked client task out of its run queue and polls it.
Repoll ==
    /\ client = "awaiting"
    /\ woken
    /\ Goto(Home, "idle", "poll:dequeue")
    /\ woken' = FALSE
    /\ UNCHANGED <<gate, queue, registered, client, cap, stats>>

\* The future is dropped at its await, by the with_timeout of
\* csi_data_collection or by a user's select.
Cancel ==
    /\ client = "awaiting"
    /\ exec[Home].pc = "idle"
    /\ client' = "out"
    /\ UNCHANGED <<gate, queue, registered, woken, exec, cap, stats>>

-----------------------------------------------------------------------------
(***************************************************************************)
(* capture_csi_info, in the Wi-Fi task.  Whether a frame passes the        *)
(* attribution filter and fits a CSIDataPacket is left open here, and so   *)
(* is the gap accounting between the build and the mode, which writes      *)
(* nothing that delivery reads.                                            *)
(***************************************************************************)
CaptureGoto(from, to) ==
    /\ cap.pc = from
    /\ cap' = IF to = "idle" THEN NoCapture ELSE [cap EXCEPT !.pc = to]
    /\ UNCHANGED <<gate, registered, client, exec>>

CaptureStart ==
    /\ cap.pc = "idle"
    /\ stats.rx < MaxFrames
    /\ stats' = [stats EXCEPT !.rx = @ + 1]
    /\ cap' = [pc |-> "raw", frame |-> stats.rx + 1, fn |-> NoCallback]
    /\ UNCHANGED <<gate, drain, exec>>

LoadRawCallback ==
    \/ /\ CaptureGoto("raw", IF gate.raw THEN "rawcall" ELSE "publish")
       /\ UNCHANGED <<queue, woken, stats>>
    \/ CaptureGoto("rawcall", "idle") /\ UNCHANGED <<queue, woken, stats>>

LoadPublishGate ==
    /\ CaptureGoto("publish", IF gate.publish THEN "filter" ELSE "idle")
    /\ UNCHANGED <<queue, woken, stats>>

\* A frame that a check rejects is counted as dropped.
Judge(from, to) ==
    \/ CaptureGoto(from, to) /\ UNCHANGED <<queue, woken, stats>>
    \/ /\ CaptureGoto(from, "idle")
       /\ stats' = [stats EXCEPT !.drop = @ + 1]
       /\ UNCHANGED <<queue, woken>>

FilterFrame == Judge("filter", "build")

BuildPacket == Judge("build", "mode")

LoadDeliveryMode ==
    /\ CaptureGoto("mode", CASE gate.mode = "Callback" -> "fn"
                             [] gate.mode = "Async"    -> "enqueue"
                             [] gate.mode = "Off"      -> "inline")
    /\ UNCHANGED <<queue, woken, stats>>

LoadCallback ==
    /\ cap.pc = "fn"
    /\ cap' = IF gate.fn = NoCallback
              THEN NoCapture
              ELSE [cap EXCEPT !.pc = "call", !.fn = gate.fn]
    /\ UNCHANGED <<gate, drain, exec, stats>>

RunCallback == CaptureGoto("call", "idle") /\ UNCHANGED <<queue, woken, stats>>

\* Mutated form: a full queue drops its oldest packet instead.
EnqueueDropOldest ==
    /\ queue' = Append(IF Len(queue) = QueueCap THEN Tail(queue) ELSE queue, cap.frame)
    /\ CaptureGoto("enqueue", "wake")
    /\ UNCHANGED <<woken, stats>>

Enqueue ==
    \/ /\ Len(queue) < QueueCap
       /\ queue' = Append(queue, cap.frame)
       /\ CaptureGoto("enqueue", "wake")
       /\ UNCHANGED <<woken, stats>>
    \/ /\ Len(queue) = QueueCap
       /\ CaptureGoto("enqueue", "idle")
       /\ stats' = [stats EXCEPT !.drop = @ + 1]
       /\ UNCHANGED <<queue, woken>>

Wake ==
    /\ CaptureGoto("wake", "idle")
    /\ woken' = (woken \/ registered)
    /\ UNCHANGED <<queue, stats>>

LoadInlineGate ==    \* and log_csi, when the gate is open
    CaptureGoto("inline", "idle") /\ UNCHANGED <<queue, woken, stats>>

CaptureStep ==
    \/ LoadRawCallback
    \/ LoadPublishGate
    \/ FilterFrame
    \/ BuildPacket
    \/ LoadDeliveryMode
    \/ LoadCallback
    \/ RunCallback
    \/ Enqueue
    \/ Wake
    \/ LoadInlineGate

-----------------------------------------------------------------------------
Next ==
    \/ \E e \in Executors : Setter(e)
    \/ NextPacketCall
    \/ LazySelect
    \/ Poll
    \/ Repoll
    \/ Cancel
    \/ CaptureStart
    \/ CaptureStep

\* A call in progress takes its next step.
Proceed(e) ==
    /\ exec[e].pc # "idle"
    /\ Setter(e) \/ (e = Home /\ (LazySelect \/ Poll))

(***************************************************************************)
(* The Wi-Fi task and a call in progress keep running (WF).  The executor  *)
(* polls every task of its run queue on each pass, so a woken client is    *)
(* polled however often other tasks of the executor run (SF).  Users may   *)
(* stop calling, and frames may stop arriving, at any time.                *)
(***************************************************************************)
Fairness ==
    /\ WF_vars(CaptureStep)
    /\ \A e \in Executors : WF_vars(Proceed(e))
    /\ SF_vars(Repoll)

Spec == Init /\ [][Next]_vars

FairSpec == Spec /\ Fairness

-----------------------------------------------------------------------------
Polling == exec[Home].pc \in LazyPcs \cup PollPcs

\* The lost-wakeup window of next_csi_packet is closed: a client parked on a
\* non-empty queue is already in the run queue, or the frame was enqueued so
\* recently that the Wi-Fi task has yet to wake the waker.
NoLostWakeup ==
    client = "awaiting" /\ ~Polling /\ queue # <<>> => woken \/ cap.pc = "wake"

\* "The WiFi callback never sees the mode flipped to Callback while
\* CSI_CALLBACK is still null": the store orders of set_csi_callback, of
\* clear_csi_callback and of reset together.
CallbackModeHasCallback == gate.mode = "Callback" => gate.fn # NoCallback

(***************************************************************************)
(* The enqueue, wake, register and poll steps implement a channel.         *)
(***************************************************************************)
Channel == INSTANCE CsiChannel WITH
    Cap <- QueueCap, chan <- queue, offered <- stats.rx,
    pending <- cap.pc \notin {"idle", "wake"}, reader <- client

\* Every behaviour of capture, setters and client is one of a bounded FIFO
\* channel that drops the newest frame when full: enqueue, dequeue and the
\* polls between them lose, duplicate and reorder nothing.
ChannelSafety == Channel!SafeSpec

\* The same, and an awaiting client is never left waiting on a channel that
\* holds a packet: the waker protocol loses no wake-up.
ChannelSpec == Channel!Spec
============================================================================
