-------------------------- MODULE CsiDeliveryHistory --------------------------
(***************************************************************************)
(* CsiDelivery with a history variable: what the API calls made so far     *)
(* entitle the frame being captured to.  The history only watches; every   *)
(* step of CsiDelivery is taken unchanged.                                 *)
(***************************************************************************)
EXTENDS CsiDelivery

VARIABLE hist

hvars == <<vars, hist>>

ClearPcs == {"clear:mode", "clear:fn"}
ResetPcs == {"reset:inline", "reset:publish", "reset:mode", "reset:fn"}
CallbackPcs == {"callback:fn", "callback:mode", "callback:publish"}

\* The call in progress x will open the publish gate before it returns.
Opening(x) ==
    \/ x.pc \in CallbackPcs \cup {"raw:fn", "raw:publish", "lazy:mode", "lazy:publish"}
    \/ x.pc \in {"logging:inline", "logging:publish"} /\ x.flag

\* The call that executor e was in, at one of the points pcs, returns.
Returns(e, pcs) == exec[e].pc \in pcs /\ exec'[e].pc = "idle"

(***************************************************************************)
(* The fields of hist.  Those of the frame being captured hold since the   *)
(* capture started; they are FALSE or empty when none is in progress.      *)
(*   closing a reset is in progress, and no opening call since it started  *)
(*   sealed  such a reset has returned, and still no opening call          *)
(*   late    sealed, for the frame                                         *)
(*   owing   set_csi_callback has returned and nothing withdrew it since:  *)
(*           no clear, reset, raw callback or other delivery mode, and no    *)
(*           call that disables the log                                      *)
(*   owed    owing, for the frame                                          *)
(*   fns     the functions a user has registered and not yet withdrawn     *)
(*   live    the functions in fns at some time during the capture          *)
(***************************************************************************)
HInit ==
    /\ Init
    /\ hist = [closing |-> FALSE, sealed |-> FALSE, late |-> FALSE,
               owing |-> FALSE, owed |-> FALSE, fns |-> {}, live |-> {}]

NobodyOpens == ~ \E e \in Executors : Opening(exec'[e])

Closing ==
    /\ exec'[Home].pc \in ResetPcs
    /\ hist.closing \/ exec[Home].pc = "idle"
    /\ NobodyOpens

Sealed ==
    /\ hist.sealed \/ (hist.closing /\ Returns(Home, ResetPcs))
    /\ NobodyOpens

\* The call in progress x disables the log, and closes the publish gate with it.
Disabling(x) == x.pc \in {"logging:inline", "logging:publish"} /\ ~x.flag

Withdrawn ==
    \/ \E e \in Executors : exec'[e].pc \in ClearPcs \cup ResetPcs \/ Disabling(exec'[e])
    \/ gate'.raw
    \/ gate'.mode # gate.mode /\ exec' = exec    \* set_csi_delivery_mode

Owing ==
    /\ hist.owing \/ \E e \in Executors : Returns(e, CallbackPcs)
    /\ ~Withdrawn

Fns == IF \E e \in Executors : Returns(e, ClearPcs \cup ResetPcs)
       THEN {}
       ELSE IF \E e \in Executors : Returns(e, CallbackPcs)
       THEN {exec[e].fn : e \in {x \in Executors : Returns(x, CallbackPcs)}}
       ELSE hist.fns \cup {exec'[e].fn : e \in {x \in Executors : exec'[x].pc \in CallbackPcs}}

\* A fact about the frame: as it was when the capture starts, and kept up.
OfFrame(atStart, kept, now) ==
    /\ cap'.pc # "idle"
    /\ IF cap.pc = "idle" THEN atStart ELSE kept /\ now

HNext ==
    /\ Next
    /\ hist' = [closing |-> Closing,
                sealed |-> Sealed,
                late   |-> OfFrame(hist.sealed, hist.late, Sealed),
                owing  |-> Owing,
                owed   |-> OfFrame(hist.owing, hist.owed, Owing),
                fns    |-> Fns,
                live   |-> IF cap'.pc = "idle" THEN {} ELSE hist.live \cup Fns]

HSpec == HInit /\ [][HNext]_hvars

FairHSpec == HSpec /\ Fairness

-----------------------------------------------------------------------------
\* A frame captured after reset() returned, with no call that opens a gate since
\* that reset began, is turned away at the publish gate: the previous run's
\* callback, the queue and the log cannot be reached by a late Wi-Fi callback.  A
\* raw callback can: reset() leaves it registered and it is looked at before the
\* gate (delivery.rs:378-386, 658-663), although 373-377 and node.rs:447-450 call
\* every late callback run a no-op.
LateFramesStopAtGate ==
    hist.late => cap.pc \in {"raw", "publish"} \/ (cap.pc = "rawcall" /\ gate.raw)

\* From the return of set_csi_callback until it is withdrawn, every captured
\* frame that passes the filter is handed to a callback: the gate is open for
\* it, neither the queue nor the logger gets it, and none is lost to a null
\* pointer.  Disabling the log withdraws it too: see CallbackKeepsGateOpen.
RegisteredCallbackIsServed ==
    hist.owed =>
        /\ cap.pc \notin {"rawcall", "enqueue", "wake", "inline"}
        /\ cap.pc = "publish" => gate.publish
        /\ cap.pc = "fn" => gate.fn # NoCallback

\* A function is only ever called for a frame during whose capture it was
\* registered: once clear_csi_callback, reset or the registration of another
\* function has returned, the old one is not run for a later frame.
NoStaleCallback == cap.pc = "call" => cap.fn \in hist.live

\* "A registered set_csi_callback keeps the publish gate open independently when
\* this is later disabled" (delivery.rs:158-160, and 135-138), where "this" is the
\* log: between calls, the mode of a registered callback comes with an open gate.
\* Not so: set_csi_logging_enabled(false) closes the one gate both share.
CallbackKeepsGateOpen ==
    gate.mode = "Callback" /\ (\A e \in Executors : exec[e].pc = "idle") => gate.publish
============================================================================
