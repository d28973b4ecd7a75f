--------------------------- MODULE EspNowExchange ----------------------------
(***************************************************************************)
(* The paired ESP-NOW exchange: centrals that broadcast control frames,    *)
(* central/esp_now.rs, and one peripheral that follows and answers them,   *)
(* peripheral/esp_now.rs.  Frames reach the peripheral through the receive *)
(* pool of esp_now_pool.rs, filled by the Wi-Fi task, which is never       *)
(* emptied between runs.  The air loses frames; it neither reorders nor    *)
(* duplicates them.                                                        *)
(*                                                                         *)
(* Left out: the adaptive pacing (a reply is due when the clock says so),  *)
(* the counters of the statistics feature, and what a central does with    *)
(* the replies, on which its control frames do not depend.                 *)
(***************************************************************************)
EXTENDS Integers, Sequences

CONSTANTS
    Centrals,      \* the nodes that may run as centrals, by MAC address
    NoCentral,     \* no address
    PoolCap,       \* POOL_CAPACITY (16 in the code)
    Hysteresis,    \* MODE_SWITCH_HYSTERESIS (3)
    StreakMax,     \* where the streak saturates (255)
    CentralKinds,  \* how centrals are configured: pairing and collection mode
    Settings       \* how the peripheral is configured, per run

\* A central paired by hand sends frames without the magic prefix.
AllCentralKinds == [form : {"magic", "plain"}, listener : BOOLEAN]

\* peer is the address the peripheral is paired with by hand.
AllSettings == [rx : BOOLEAN, tx : BOOLEAN, peer : Centrals \cup {NoCentral},
                collector : BOOLEAN]

ASSUME ExchangeAssumption ==
    /\ NoCentral \notin Centrals
    /\ PoolCap \in Nat \ {0}
    /\ Hysteresis \in Nat /\ Hysteresis > 1
    /\ StreakMax \in Nat /\ StreakMax > Hysteresis
    /\ CentralKinds \subseteq AllCentralKinds
    /\ Settings \subseteq AllSettings

VARIABLES
    central,     \* per central: its kind, or Off
    installed,   \* whether pool_rcv_cb is the driver's receive callback
    raw,         \* RAW_LISTEN and RAW_DROP, set together before a run
    pool,        \* QUEUE
    radio,       \* the Wi-Fi task: "idle", or about to "wake" the waker
    registered,  \* whether WAKER holds the node task's waker
    woken,       \* whether the node task is in its executor's run queue
    setting,     \* the configuration of the peripheral's run
    pc,          \* where the responder loop is
    due,         \* whether the clock has passed next_tx_us
    shared,      \* the responder's state, struct Shared
    heard        \* history: what this run has ingested

receiver == <<installed, raw, pool, radio, registered, woken>>
vars == <<central, receiver, setting, pc, due, shared, heard>>

Off == [form |-> "none", listener |-> FALSE]

\* An ESP-NOW frame that is no control frame, a reply of another peripheral say.
Noise == [src |-> NoCentral, form |-> "other", listener |-> FALSE]

Frames == [src : Centrals, form : {"magic", "plain"}, listener : BOOLEAN] \cup {Noise}

Responder(peer, collector) ==
    [connected |-> peer # NoCentral, central |-> peer, pending |-> FALSE,
     prev |-> FALSE, streak |-> 0, collector |-> collector]

Responders == [connected : BOOLEAN, central : Centrals \cup {NoCentral}, pending : BOOLEAN,
               prev : BOOLEAN, streak : 0..StreakMax, collector : BOOLEAN]

(***************************************************************************)
(* The history of a run: the centrals heard since the last reply, how many *)
(* of the last frames in a row came from a listener (counted up to         *)
(* Hysteresis), and whether that count was ever reached.                   *)
(***************************************************************************)
Silence == [from |-> {}, row |-> 0, steady |-> FALSE]

LoopPcs == {"loop", "tx", "send", "await", "dequeue", "register", "recheck", "parked", "drain"}

TypeOK ==
    /\ central \in [Centrals -> AllCentralKinds \cup {Off}]
    /\ installed \in BOOLEAN
    /\ raw \in BOOLEAN
    /\ pool \in Seq(Frames) /\ Len(pool) <= PoolCap
    /\ radio \in {"idle", "wake"}
    /\ registered \in BOOLEAN
    /\ woken \in BOOLEAN
    /\ setting \in AllSettings
    /\ pc \in {"off"} \cup LoopPcs
    /\ due \in BOOLEAN
    /\ shared \in Responders
    /\ heard \in [from : SUBSET Centrals, row : 0..Hysteresis, steady : BOOLEAN]

Idle == [rx |-> FALSE, tx |-> FALSE, peer |-> NoCentral, collector |-> FALSE]

Init ==
    /\ central = [c \in Centrals |-> Off]
    /\ installed = FALSE
    /\ raw = FALSE
    /\ pool = <<>>
    /\ radio = "idle"
    /\ registered = FALSE
    /\ woken = FALSE
    /\ setting = Idle
    /\ pc = "off"
    /\ due = FALSE
    /\ shared = Responder(NoCentral, FALSE)
    /\ heard = Silence

-----------------------------------------------------------------------------
(***************************************************************************)
(* The centrals, and the Wi-Fi task of the peripheral.                     *)
(***************************************************************************)
CentralStart(c) ==
    /\ central[c] = Off
    /\ \E kind \in CentralKinds : central' = [central EXCEPT ![c] = kind]
    /\ UNCHANGED <<receiver, setting, pc, due, shared, heard>>

CentralStop(c) ==
    /\ central[c] # Off
    /\ central' = [central EXCEPT ![c] = Off]
    /\ UNCHANGED <<receiver, setting, pc, due, shared, heard>>

\* The frame that run_esp_now_central sends.
ControlPacket(c) ==
    [src |-> c, form |-> central[c].form, listener |-> central[c].listener]

\* A frame that the air does not lose: the first half of pool_rcv_cb.
pool_rcv_cb(f) ==
    /\ installed
    /\ ~raw
    /\ radio = "idle"
    /\ pool' = IF Len(pool) < PoolCap THEN Append(pool, f) ELSE pool
    /\ radio' = "wake"
    /\ UNCHANGED <<central, installed, raw, registered, woken, setting, pc, due, shared, heard>>

Hear(c) == central[c] # Off /\ pool_rcv_cb(ControlPacket(c))

Wake ==
    /\ radio = "wake"
    /\ radio' = "idle"
    /\ woken' = (woken \/ registered)
    /\ UNCHANGED <<central, installed, raw, pool, registered, setting, pc, due, shared, heard>>

-----------------------------------------------------------------------------
(***************************************************************************)
(* The peripheral's runs.  A run of an 802.11 role in between takes the    *)
(* receive callback out of the driver.                                     *)
(***************************************************************************)
set_raw_listen ==
    /\ pc = "off"
    /\ raw' = ~raw
    /\ UNCHANGED <<central, installed, pool, radio, registered, woken, setting, pc, due, shared, heard>>

run_esp_now_peripheral(s) ==
    /\ pc = "off"
    /\ installed' = TRUE
    /\ setting' = s
    /\ pc' = "loop"
    /\ shared' = Responder(s.peer, s.collector)
    /\ woken' = FALSE
    /\ UNCHANGED <<central, raw, pool, radio, registered, due, heard>>

suppress_espnow_rx ==
    /\ pc = "off"
    /\ installed
    /\ installed' = FALSE
    /\ UNCHANGED <<central, raw, pool, radio, registered, woken, setting, pc, due, shared, heard>>

\* The stop wins a select; the responder's state goes with its future.
RunStop ==
    /\ pc \in {"await", "dequeue"}
    /\ pc' = "off"
    /\ setting' = Idle
    /\ due' = FALSE
    /\ shared' = Responder(NoCentral, FALSE)
    /\ heard' = Silence
    /\ UNCHANGED <<central, receiver>>

-----------------------------------------------------------------------------
(***************************************************************************)
(* ingest_control_packet.                                                  *)
(***************************************************************************)

\* The frame is from the locked central, if there is one, and parses.
Accepted(f) ==
    /\ ~raw
    /\ shared.connected => f.src = shared.central
    /\ f.form = IF setting.peer = NoCentral THEN "magic" ELSE "plain"

\* A transmitting responder locks onto the first central whose peer entry it can
\* make, and owes a reply in any case.
Answering(s, f, registers) ==
    [s EXCEPT !.connected = @ \/ registers,
              !.central = IF ~s.connected /\ registers THEN f.src ELSE @,
              !.pending = TRUE]

\* Mutated form: a change of mode does not start the streak over.
FollowWithoutRestart(s, listener) ==
    LET streak == IF s.streak < StreakMax THEN s.streak + 1 ELSE StreakMax
    IN [s EXCEPT !.prev = listener,
                 !.streak = streak,
                 !.collector = @ \/ (streak = Hysteresis /\ listener)]

\* Mutated form: the mode that was seen is not remembered.
FollowForgetful(s, listener) ==
    IF listener # s.prev
    THEN [s EXCEPT !.streak = 1]
    ELSE LET streak == IF s.streak < StreakMax THEN s.streak + 1 ELSE StreakMax
         IN [s EXCEPT !.streak = streak,
                      !.collector = @ \/ (streak = Hysteresis /\ listener)]

\* The mode hysteresis.
Follow(s, listener) ==
    IF listener # s.prev
    THEN [s EXCEPT !.prev = listener, !.streak = 1]
    ELSE LET streak == IF s.streak < StreakMax THEN s.streak + 1 ELSE StreakMax
         IN [s EXCEPT !.streak = streak,
                      !.collector = @ \/ (streak = Hysteresis /\ listener)]

\* What the history makes of an accepted frame.
Note(f) ==
    LET row == IF ~f.listener THEN 0
               ELSE IF heard.row < Hysteresis THEN heard.row + 1 ELSE Hysteresis
    IN [from |-> heard.from \cup {f.src}, row |-> row,
        steady |-> heard.steady \/ row = Hysteresis]

ingest_control_packet(f) ==
    \/ ~Accepted(f) /\ UNCHANGED <<shared, heard>>
    \/ /\ Accepted(f)
       /\ \E registers \in BOOLEAN :
            shared' = Follow(IF setting.tx THEN Answering(shared, f, registers) ELSE shared,
                             f.listener)
       /\ heard' = Note(f)

Receive(from, to) ==
    /\ pc = from
    /\ pool # <<>>
    /\ ingest_control_packet(Head(pool))
    /\ pool' = Tail(pool)
    /\ pc' = to
    /\ UNCHANGED <<central, installed, raw, radio, registered, woken, setting, due>>

-----------------------------------------------------------------------------
(***************************************************************************)
(* The loop of responder: with a transmitter, at most one frame (the burst *)
(* cap RX_BURST_MAX_WITH_TX), a reply if one is due and owed, a short      *)
(* sleep.                                                                  *)
(***************************************************************************)
Goto(from, to) ==
    /\ pc = from
    /\ pc' = to
    /\ UNCHANGED <<central, installed, raw, pool, radio, setting, due, shared, heard>>

\* Mutated form: the pool is drained before a reply is considered.
ServeAll ==
    \/ setting.rx /\ setting.tx /\ Receive("loop", "loop")
    \/ /\ setting.rx /\ setting.tx => pool = <<>>
       /\ Goto("loop", IF setting.tx THEN "tx" ELSE IF setting.rx THEN "dequeue" ELSE "await")
       /\ UNCHANGED <<registered, woken>>

Serve ==
    \/ setting.rx /\ setting.tx /\ Receive("loop", "tx")
    \/ /\ setting.rx /\ setting.tx => pool = <<>>
       /\ Goto("loop", IF setting.tx THEN "tx" ELSE IF setting.rx THEN "dequeue" ELSE "await")
       /\ UNCHANGED <<registered, woken>>

Owing == due /\ shared.connected /\ shared.pending

\* Mutated form: the pending flag is read and not taken.
ReplyWithoutTaking ==
    \/ /\ pc = "tx" /\ Owing
       /\ pc' = "send"
       /\ heard' = [heard EXCEPT !.from = {}]
       /\ UNCHANGED <<central, receiver, setting, due, shared>>
    \/ ~Owing /\ Goto("tx", "await") /\ UNCHANGED <<registered, woken>>

\* pending_flag.swap(false) comes last in the condition: a reply that is owed but
\* not due stays owed.
Reply ==
    \/ /\ pc = "tx" /\ Owing
       /\ pc' = "send"
       /\ shared' = [shared EXCEPT !.pending = FALSE]
       /\ heard' = [heard EXCEPT !.from = {}]
       /\ UNCHANGED <<central, receiver, setting, due>>
    \/ ~Owing /\ Goto("tx", "await") /\ UNCHANGED <<registered, woken>>

\* The send completes, in success or not, and is not repeated; the next
\* deadline may lie in the past already.
SendDone ==
    /\ pc = "send"
    /\ pc' = "await"
    /\ due' \in {due, FALSE}
    /\ UNCHANGED <<central, receiver, setting, shared, heard>>

Slept == Goto("await", "loop") /\ UNCHANGED <<registered, woken>>

Tick ==
    /\ setting.tx
    /\ ~due
    /\ due' = TRUE
    /\ UNCHANGED <<central, receiver, setting, pc, shared, heard>>

(***************************************************************************)
(* Without a transmitter: receive_async, then whatever else the pool       *)
(* holds, up to RX_BURST_MAX_RX_ONLY frames.                               *)
(***************************************************************************)

\* Mutated form: the task parks without looking at the pool again.
receive_async_once ==
    \/ Receive("dequeue", "drain")
    \/ pool = <<>> /\ Goto("dequeue", "register") /\ UNCHANGED <<registered, woken>>
    \/ Goto("register", "parked") /\ registered' = TRUE /\ UNCHANGED woken

receive_async ==
    \/ Receive("dequeue", "drain")
    \/ pool = <<>> /\ Goto("dequeue", "register") /\ UNCHANGED <<registered, woken>>
    \/ Goto("register", "recheck") /\ registered' = TRUE /\ UNCHANGED woken
    \/ Receive("recheck", "drain")
    \/ pool = <<>> /\ Goto("recheck", "parked") /\ UNCHANGED <<registered, woken>>

Drain ==
    \/ \E to \in {"drain", "dequeue"} : Receive("drain", to)
    \/ pool = <<>> /\ Goto("drain", "dequeue") /\ UNCHANGED <<registered, woken>>

\* The node task is polled again; something else may have woken it.
Repoll == Goto("parked", "dequeue") /\ woken' = FALSE /\ UNCHANGED registered

responder == Serve \/ Reply \/ SendDone \/ Slept \/ receive_async \/ Drain

Next ==
    \/ \E c \in Centrals : CentralStart(c) \/ CentralStop(c) \/ Hear(c)
    \/ pool_rcv_cb(Noise)
    \/ Wake
    \/ set_raw_listen
    \/ \E s \in Settings : run_esp_now_peripheral(s)
    \/ suppress_espnow_rx
    \/ RunStop
    \/ responder
    \/ Repoll
    \/ Tick

Spec == Init /\ [][Next]_vars

(***************************************************************************)
(* The loop runs, the clock advances, the Wi-Fi task finishes a callback,  *)
(* and a woken task is polled.  A central that goes on transmitting is     *)
(* heard now and then, with room in the pool.  A send completes.           *)
(***************************************************************************)
Fairness ==
    /\ WF_vars(responder)
    /\ WF_vars(Wake)
    /\ WF_vars(woken /\ Repoll)
    /\ WF_vars(Tick)
    /\ \A c \in Centrals : SF_vars(Len(pool) < PoolCap /\ Hear(c))

FairSpec == Spec /\ Fairness

-----------------------------------------------------------------------------
(***************************************************************************)
(* Properties.                                                             *)
(***************************************************************************)

\* Each reply answers: since the run began, and since the reply before it, a
\* control frame of the central that the peripheral is locked onto was ingested
\* (the pending flag, lines 397 and 569; stale frames and frames of other
\* centrals do not count).
ReplyAnswersControl ==
    [][pc = "tx" /\ pc' = "send" => shared.central \in heard.from]_vars

\* The hysteresis: a responder is a collector if it started as one, or has in
\* this run ingested Hysteresis listener's frames in a row - exactly then,
\* whatever modes were mixed before (lines 400-427).  That is the policy the
\* handler states and follows.  The head of the file (lines 3-4) and protocol.rs
\* (lines 23-24) have the peripheral mirror the advertised mode, which it never
\* does: a collector central changes nothing, and a listener's peer takes the
\* other mode.
FollowsSteadyListener ==
    pc # "off" => (shared.collector <=> setting.collector \/ heard.steady)

\* "Re-check after registering to close the lost-wake-up window": a receive-only
\* responder does not sleep on a pool that holds a frame (esp_now_pool.rs:207-221).
NoSleepOnFrames ==
    pc = "parked" /\ pool # <<>> => woken \/ radio = "wake"

\* "The burst cap and deadline guard keep replies from being starved by a busy RX
\* queue": an owed reply is sent, or the run ends (lines 528-569).
ReplyIsSent == shared.connected /\ shared.pending ~> ~shared.pending

\* "Ensuring someone is always collecting": a peripheral that stays locked onto a
\* listener which goes on transmitting ends up a collector (lines 400-427).
LockedOnListener(c) ==
    /\ pc # "off" /\ setting.rx /\ ~raw
    /\ shared.connected /\ shared.central = c
    /\ central[c].listener
    /\ central[c].form = IF setting.peer = NoCentral THEN "magic" ELSE "plain"

SomeoneCollects ==
    \A c \in Centrals : <>[]LockedOnListener(c) => <>[](shared.collector)
============================================================================
