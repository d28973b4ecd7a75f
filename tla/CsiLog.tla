-------------------------------- MODULE CsiLog --------------------------------
(***************************************************************************)
(* Logging of CSI packets, logging/logging.rs: the choice of the backend   *)
(* by init_logger, the formatters of the four modes with their bounded     *)
(* line buffer, the queue between the Wi-Fi callback and logger_backend,   *)
(* the text log that shares the backend, and the drop counter.             *)
(*                                                                         *)
(* The backend and the users share an executor: between two awaits of one  *)
(* the other does not run.  The Wi-Fi task preempts both at any store, and *)
(* without the backend formats and writes within its callback.             *)
(*                                                                         *)
(* A packet is the length of its line before the samples, and the samples. *)
(* Left out: what the other columns say, the bytes on the transport, and   *)
(* the defmt front end.                                                    *)
(***************************************************************************)
EXTENDS Integers, Sequences, FiniteSetsExt

CONSTANTS
    Builds,        \* the feature sets: "auto", "async-print", "blocking"
    Packets,       \* the packets a radio can deliver
    QueueCap,      \* CSI_LOG_CHANNEL_CAPACITY (32)
    TextCap,       \* TEXT_LOG_CHANNEL_CAPACITY (64)
    Buffer,        \* the bytes of a scratch buffer (3328)
    TailReserve,   \* TAIL_RESERVE (22)
    EmitCaps,      \* arguments of set_csi_tool_emit_cap, 0 for none
    DropMod,       \* the drop counter wraps here (2^32)
    WriteFails     \* whether the driver may fail a write

Modes == {"Text", "Serialized", "ArrayList", "EspCsiTool"}

Samples == -128..127

ASSUME LogAssumption ==
    /\ Builds \subseteq {"auto", "async-print", "blocking"}
    /\ Packets \subseteq [prefix : Nat, data : Seq(Samples)]
    /\ QueueCap \in Nat \ {0}
    /\ TextCap \in Nat \ {0}
    /\ Buffer \in Nat \ {0}
    /\ TailReserve \in Nat
    /\ 0 \in EmitCaps /\ EmitCaps \subseteq Nat
    /\ DropMod \in Nat \ {0}
    /\ WriteFails \in BOOLEAN

VARIABLES
    build,     \* the features the crate was built with
    host,      \* whether a USB host is attached; only the auto build asks
    user,      \* where the user's call is: init_logger or set_log_mode
    log,       \* LOG_MODE, ESP_CSI_TOOL_HEADER_PRINTED, ASYNC_LOG_ACTIVE, CSI_TOOL_EMIT_CAP
    csi,       \* CSI_CHANNEL
    texts,     \* the number of messages in LOG_CHANNEL
    drops,     \* LOG_DROPPED_PACKETS
    backend,   \* logger_backend: its place and the packet in its hands
    wire,      \* history: the last line on the transport, and the headers begun since the
               \* mode was last set
    tally      \* history, wrapping like drops: owed, the packets logged and neither written
               \* nor given up with an error of the driver, since drops was last cleared;
               \* early, those among them that met no path at all

vars == <<build, host, user, log, csi, texts, drops, backend, wire, tally>>

-----------------------------------------------------------------------------
(***************************************************************************)
(* Lines.  A row says how many samples it announces and how many follow.   *)
(***************************************************************************)
Rows == [kind : Modes, announced : Nat, samples : Nat]

Digits(n) == IF n < 10 THEN 1 ELSE IF n < 100 THEN 2 ELSE 3

\* The bytes of a sample with its separator.
write_i8_sep(v) == (IF v < 0 THEN 2 ELSE 1) + Digits(IF v < 0 THEN -v ELSE v)

\* The position in the line after each number of samples.
Position(p) ==
    LET at[i \in 0..Len(p.data)] ==
            IF i = 0 THEN p.prefix ELSE at[i - 1] + write_i8_sep(p.data[i])
    IN at

EmitLen(p, cap) == IF cap = 0 \/ Len(p.data) <= cap THEN Len(p.data) ELSE cap

\* Mutant: the cap shortens the samples and not the announced number.
FormatCapsBody(p, cap) ==
    [kind |-> "EspCsiTool", announced |-> Len(p.data), samples |-> EmitLen(p, cap)]

\* The body stops where a sample of five bytes might not fit in front of `]\n`.
format_csi_tool_into(p, cap) ==
    LET fits(k) == \A i \in 0..(k - 1) : Position(p)[i] + 5 <= Buffer - 2
    IN [kind |-> "EspCsiTool",
        announced |-> EmitLen(p, cap),
        samples |-> Max({k \in 0..EmitLen(p, cap) : fits(k)})]

\* A line that might not fit is refused, not cut.
Refused(m, p) ==
    m = "ArrayList" /\ p.prefix + 5 * Len(p.data) + TailReserve > Buffer

Row(m, p) ==
    IF m = "EspCsiTool"
    THEN format_csi_tool_into(p, log.cap)
    ELSE [kind |-> m, announced |-> Len(p.data), samples |-> Len(p.data)]

\* The flushes of a text body: an element, with its comma and blank except for the
\* last, that does not fit goes to the next one.
Flushes(p) ==
    LET width(i) == write_i8_sep(p.data[i]) + (IF i = Len(p.data) THEN -1 ELSE 1)
        fill[i \in 0..Len(p.data)] ==
            IF i = 0 THEN [offset |-> 0, flushed |-> 0]
            ELSE LET before == fill[i - 1]
                 IN IF before.offset + width(i) > Buffer
                    THEN [offset |-> width(i), flushed |-> before.flushed + 1]
                    ELSE [before EXCEPT !.offset = @ + width(i)]
    IN fill[Len(p.data)].flushed + (IF Len(p.data) = 0 THEN 0 ELSE 1)

\* The awaited writes of a record: a text has a head and a tail around its body.
Writes(m, p) == IF m = "Text" THEN 2 + Flushes(p) ELSE 1

\* What may precede a row of the tool; a header the driver failed to write counts.
Headed == {"header", "EspCsiTool", "failed"}

\* Headers are counted no further.
HeadBound == 2

Begun(w) == [w EXCEPT !.heads = IF @ < HeadBound THEN @ + 1 ELSE @]

\* A line starts on the wire, behind whatever rest is there, and ends.  It is mixed
\* with another if that one is still being written.
Started(w) == [w EXCEPT !.rest = "begun", !.mixed = w.rest = "begun"]
Ended(w) == [w EXCEPT !.rest = "none"]

\* A driver that fails a line's first write may have put a part of it on the wire;
\* nothing ends that line.
Torn(w, started) == {w, [started EXCEPT !.rest = "failed"]}

WithHeader(w) == Ended([Started(w) EXCEPT !.last = "header"])

StartedRow(w, kind) ==
    [Started(w) EXCEPT !.last = kind,
                       !.headless = kind = "EspCsiTool" /\ w.last \notin Headed]

EndedRow(w, row) == [Ended(w) EXCEPT !.whole = row.samples = row.announced]

WithRow(w, row) == EndedRow(StartedRow(w, row.kind), row)

-----------------------------------------------------------------------------
Nobody == [at |-> "none"]

Select == [at |-> "select"]

Drain == [at |-> "drain"]

InHand == backend.at \in {"header", "record"}

TypeOK ==
    /\ build \in Builds
    /\ host \in BOOLEAN
    /\ user \in {"fresh", "probe", "spawn", "ready", "switch"}
    /\ log \in [mode : Modes, header : BOOLEAN, async : BOOLEAN, cap : EmitCaps]
    /\ csi \in Seq(Packets) /\ Len(csi) <= QueueCap
    /\ texts \in 0..TextCap
    /\ drops \in 0..(DropMod - 1)
    /\ backend \in [at : {"none", "select", "drain", "drained", "message", "flush"}]
                   \cup [at : {"header"}, packet : Packets]
                   \cup [at : {"record"}, row : Rows, left : Nat \ {0}, begun : BOOLEAN]
    /\ wire \in [last : Modes \cup {"none", "header", "failed"},
                 headless : BOOLEAN, whole : BOOLEAN, heads : 0..HeadBound,
                 rest : {"none", "begun", "failed"}, mixed : BOOLEAN]
    /\ tally \in [owed : 0..(DropMod - 1), early : 0..(DropMod - 1)]

Init ==
    /\ build \in Builds
    /\ host \in BOOLEAN /\ (host => build = "auto")
    /\ user = "fresh"
    /\ log = [mode |-> "Text", header |-> FALSE, async |-> FALSE, cap |-> 0]
    /\ csi = <<>>
    /\ texts = 0
    /\ drops = 0
    /\ backend = Nobody
    /\ wire = [last |-> "none", headless |-> FALSE, whole |-> TRUE, heads |-> 0,
               rest |-> "none", mixed |-> FALSE]
    /\ tally = [owed |-> 0, early |-> 0]

-----------------------------------------------------------------------------
(***************************************************************************)
(* The user's calls, store by store.                                       *)
(***************************************************************************)

\* The executor is not inside a call, so its other tasks can run.
Free == user \in {"fresh", "ready"}

\* The mode is stored and the publish gate opened before the backend is chosen.
init_logger(m) ==
    /\ user = "fresh"
    /\ log' = [log EXCEPT !.mode = m, !.header = FALSE]
    /\ wire' = [wire EXCEPT !.heads = 0]
    /\ user' = "probe"
    /\ UNCHANGED <<build, host, csi, texts, drops, backend, tally>>

\* The latch is cleared first, so the probe sees a host that is attached now.
auto_usb_sof_seen == host

ChooseBackend ==
    /\ user = "probe"
    /\ LET async == build = "async-print" \/ (build = "auto" /\ auto_usb_sof_seen)
       IN /\ log' = [log EXCEPT !.async = async]
          /\ user' = IF async THEN "spawn" ELSE "ready"
    /\ UNCHANGED <<build, host, csi, texts, drops, backend, wire, tally>>

SpawnBackend ==
    /\ user = "spawn"
    /\ backend' = Select
    /\ user' = "ready"
    /\ UNCHANGED <<build, host, log, csi, texts, drops, wire, tally>>

set_log_mode(m) ==
    /\ user = "ready"
    /\ log' = [log EXCEPT !.mode = m]
    /\ wire' = [wire EXCEPT !.heads = 0]
    /\ user' = "switch"
    /\ UNCHANGED <<build, host, csi, texts, drops, backend, tally>>

\* Mutant: a switch of the mode leaves the header printed.
ForgetNothing ==
    /\ user = "switch"
    /\ user' = "ready"
    /\ UNCHANGED <<build, host, log, csi, texts, drops, backend, wire, tally>>

ForgetHeader ==
    /\ user = "switch"
    /\ log' = [log EXCEPT !.header = FALSE]
    /\ user' = "ready"
    /\ UNCHANGED <<build, host, csi, texts, drops, backend, wire, tally>>

set_csi_tool_emit_cap(n) ==
    /\ Free
    /\ log' = [log EXCEPT !.cap = n]
    /\ UNCHANGED <<build, host, user, csi, texts, drops, backend, wire, tally>>

\* A message that is too long for its slot, or finds no slot, is dropped.  Without the
\* backend it is printed at once.
log_ln(fits) ==
    /\ Free /\ log.async
    /\ texts' = IF fits /\ texts < TextCap THEN texts + 1 ELSE texts
    /\ UNCHANGED <<build, host, user, log, csi, drops, backend, wire, tally>>

\* n more packets are owed, or fewer.
Owe(n) == [tally EXCEPT !.owed = (@ + n) % DropMod]

\* The statistics of a run start from zero.
reset_global_log_drops ==
    /\ Free
    /\ drops' = 0
    /\ tally' = Owe(-drops)
    /\ UNCHANGED <<build, host, user, log, csi, texts, backend, wire>>

\* A host comes or goes; after the backend is chosen nothing asks.
Plug ==
    /\ build = "auto" /\ user \in {"fresh", "probe", "spawn"}
    /\ host' = ~host
    /\ UNCHANGED <<build, user, log, csi, texts, drops, backend, wire, tally>>

-----------------------------------------------------------------------------
(***************************************************************************)
(* The Wi-Fi callback.                                                     *)
(***************************************************************************)
More(n) == (n + 1) % DropMod

\* The blocking build has no counter.
record_log_drop == drops' = IF build = "blocking" THEN drops ELSE More(drops)

\* Mutant: the queue accepts one packet more than it has slots.
try_send_over(p) ==
    IF Len(csi) <= QueueCap
    THEN csi' = Append(csi, p) /\ UNCHANGED drops
    ELSE drops' = More(drops) /\ UNCHANGED csi

\* Mutant: a full queue drops the new packet and nobody counts it.
try_send_uncounted(p) ==
    /\ csi' = IF Len(csi) < QueueCap THEN Append(csi, p) ELSE csi
    /\ UNCHANGED drops

\* A full queue drops the new packet and counts it.
try_send(p) ==
    IF Len(csi) < QueueCap
    THEN csi' = Append(csi, p) /\ UNCHANGED drops
    ELSE drops' = More(drops) /\ UNCHANGED csi

log_csi_async(p) ==
    /\ user # "fresh" /\ log.async
    /\ try_send(p)
    /\ tally' = Owe(1)
    /\ UNCHANGED <<build, host, user, log, texts, backend, wire>>

\* The async-print build has no inline path: a packet that comes after the publish
\* gate was opened and before the backend is chosen is lost.
log_csi_early(p) ==
    /\ user # "fresh" /\ ~log.async
    /\ build = "async-print"
    /\ tally' = [Owe(1) EXCEPT !.early = More(@)]
    /\ UNCHANGED <<build, host, user, log, csi, texts, drops, backend, wire>>

\* Inline: the line is on the wire, or refused, when the callback returns.
log_csi_sync(p) ==
    /\ user # "fresh" /\ ~log.async
    /\ build # "async-print"
    /\ IF Refused(log.mode, p)
       THEN /\ record_log_drop
            /\ tally' = Owe(1)
            /\ UNCHANGED <<log, wire>>
       ELSE /\ LET heads == log.mode = "EspCsiTool" /\ ~log.header
                   w == IF heads THEN WithHeader(Begun(wire)) ELSE wire
               IN wire' = WithRow(w, Row(log.mode, p))
            /\ log' = [log EXCEPT !.header = @ \/ log.mode = "EspCsiTool"]
            /\ UNCHANGED <<drops, tally>>
    /\ UNCHANGED <<build, host, user, csi, texts, backend>>

-----------------------------------------------------------------------------
(***************************************************************************)
(* logger_backend, from await to await.                                    *)
(***************************************************************************)

\* The record of p, with nothing of it written.
Record(m, p) ==
    [at |-> "record", row |-> Row(m, p), left |-> Writes(m, p), begun |-> FALSE]

\* Format the packet p in mode m.
Write(m, p) ==
    IF Refused(m, p)
    THEN backend' = Drain /\ record_log_drop
    ELSE backend' = Record(m, p) /\ UNCHANGED drops

\* Mutant: the flag is set by nobody, so every row gets a header.
ReceiveUnmarked ==
    /\ Free /\ backend.at = "select" /\ csi # <<>>
    /\ csi' = Tail(csi)
    /\ IF log.mode = "EspCsiTool" /\ ~log.header
       THEN /\ backend' = [at |-> "header", packet |-> Head(csi)]
            /\ wire' = Begun(wire)
            /\ UNCHANGED drops
       ELSE Write(log.mode, Head(csi)) /\ UNCHANGED wire
    /\ UNCHANGED <<build, host, user, log, texts, tally>>

\* Select prefers a packet to a message.
ReceivePacket ==
    /\ Free /\ backend.at = "select" /\ csi # <<>>
    /\ csi' = Tail(csi)
    /\ IF log.mode = "EspCsiTool" /\ ~log.header
       THEN /\ log' = [log EXCEPT !.header = TRUE]
            /\ backend' = [at |-> "header", packet |-> Head(csi)]
            /\ wire' = Begun(wire)
            /\ UNCHANGED drops
       ELSE Write(log.mode, Head(csi)) /\ UNCHANGED <<log, wire>>
    /\ UNCHANGED <<build, host, user, texts, tally>>

WriteHeader ==
    /\ Free /\ backend.at = "header"
    /\ wire' = WithHeader(wire)
    /\ Write("EspCsiTool", backend.packet)
    /\ UNCHANGED <<build, host, user, log, csi, texts, tally>>

\* The wire with the record's line started.
LineOfRecord == IF backend.begun THEN wire ELSE StartedRow(wire, backend.row.kind)

WriteRecord ==
    /\ Free /\ backend.at = "record"
    /\ IF backend.left > 1
       THEN /\ backend' = [backend EXCEPT !.left = @ - 1, !.begun = TRUE]
            /\ wire' = LineOfRecord
            /\ UNCHANGED tally
       ELSE /\ backend' = Drain
            /\ wire' = EndedRow(LineOfRecord, backend.row)
            /\ tally' = Owe(-1)
    /\ UNCHANGED <<build, host, user, log, csi, texts, drops>>

\* A failed write gives the packet up, with what is on the wire by then.
Fail ==
    /\ WriteFails /\ Free /\ InHand
    /\ backend' = Drain
    /\ \/ /\ backend.at = "header"
          /\ wire' \in {[w EXCEPT !.last = "failed"] : w \in Torn(wire, Started(wire))}
       \/ /\ backend.at = "record" /\ ~backend.begun
          /\ wire' \in Torn(wire, StartedRow(wire, backend.row.kind))
       \/ /\ backend.at = "record" /\ backend.begun
          /\ wire' = [wire EXCEPT !.rest = "failed"]
    /\ tally' = Owe(-1)
    /\ UNCHANGED <<build, host, user, log, csi, texts, drops>>

\* Mutant: after a packet the backend selects again.
DrainNothing ==
    /\ Free /\ backend.at = "drain"
    /\ backend' = Select
    /\ UNCHANGED <<build, host, user, log, csi, texts, drops, wire, tally>>

\* Mutant: the drain waits for the next message.
DrainBlocking ==
    /\ Free /\ backend.at = "drain" /\ texts > 0
    /\ texts' = texts - 1
    /\ backend' = [at |-> "drained"]
    /\ UNCHANGED <<build, host, user, log, csi, drops, wire, tally>>

\* After a packet the pending messages are written, as they come.
DrainTexts ==
    /\ Free /\ backend.at = "drain"
    /\ IF texts > 0
       THEN texts' = texts - 1 /\ backend' = [at |-> "drained"]
       ELSE texts' = texts /\ backend' = Select
    /\ UNCHANGED <<build, host, user, log, csi, drops, wire, tally>>

ReceiveText ==
    /\ Free /\ backend.at = "select" /\ csi = <<>> /\ texts > 0
    /\ texts' = texts - 1
    /\ backend' = [at |-> "message"]
    /\ UNCHANGED <<build, host, user, log, csi, drops, wire, tally>>

\* A message is a line, and ends one that a failed write left.  It may fail like any
\* other write, and nobody looks.  The driver is flushed when the last one is out.
WriteText ==
    /\ Free /\ backend.at \in {"drained", "message", "flush"}
    /\ backend' = IF backend.at = "drained" THEN Drain
                  ELSE IF backend.at = "message" /\ texts = 0 THEN [at |-> "flush"]
                  ELSE Select
    /\ \/ backend.at # "flush" /\ wire' = Ended(Started(wire))
       \/ backend.at # "flush" /\ WriteFails /\ wire' \in Torn(wire, Started(wire))
       \/ backend.at = "flush" /\ wire' = wire
    /\ UNCHANGED <<build, host, user, log, csi, texts, drops, tally>>

logger_backend ==
    \/ ReceivePacket
    \/ WriteHeader
    \/ WriteRecord
    \/ Fail
    \/ DrainTexts
    \/ ReceiveText
    \/ WriteText

-----------------------------------------------------------------------------
Call ==
    \/ \E m \in Modes : init_logger(m) \/ set_log_mode(m)
    \/ \E n \in EmitCaps : set_csi_tool_emit_cap(n)
    \/ \E fits \in BOOLEAN : log_ln(fits)
    \/ reset_global_log_drops
    \/ Plug

Continue == ChooseBackend \/ SpawnBackend \/ ForgetHeader

Radio == \E p \in Packets : log_csi_async(p) \/ log_csi_early(p) \/ log_csi_sync(p)

Next == Call \/ Continue \/ Radio \/ logger_backend

Spec == Init /\ [][Next]_vars

\* A call returns, the driver completes every write, and the executor polls the
\* backend even if users call all the time.
FairSpec == Spec /\ WF_vars(Continue) /\ SF_vars(logger_backend)

-----------------------------------------------------------------------------
(***************************************************************************)
(* Properties.                                                             *)
(***************************************************************************)

\* No packet vanishes from a build that counts: LOG_DROPPED_PACKETS, what waits in the
\* queue and what the backend has in hand account for every packet that was logged and
\* neither written nor given up with an error of the driver.  The one exception is named:
\* the packets an async-print build loses before its backend is chosen
\* (logging.rs:677, 719-759).  A blocking build counts nothing (1848-1855).
NothingLostUncounted ==
    build # "blocking" =>
        tally.owed = (drops + Len(csi) + (IF InHand THEN 1 ELSE 0) + tally.early) % DropMod

\* A row of the ESP32-CSI-Tool format is written only under a header or under another
\* such row, on both paths, wherever a packet falls into set_log_mode.  A header that
\* failed to be written counts, for nobody prints it again (logging.rs:1401-1406).
HeaderFirst == ~wire.headless

\* A row that is written to its end has as many samples as it announces, whether it was
\* capped or nearly filled the scratch buffer, and no line is put into one that is still
\* being written.  A failed write does leave a cut row, without its end, and the next
\* line follows on it (wire.rest; logging.rs:1652, 1668, 1675, 1677).
RowsAreWhole == wire.whole /\ ~wire.mixed

\* Text messages get through however many CSI packets arrive (the comment on
\* starvation in logger_backend).
TextNotStarved ==
    (texts > 0 /\ backend.at # "none") ~> (backend.at \in {"drained", "message"})

\* Once the text log is silent, the backend goes on taking packets as long as there are any.
PacketNotStarved ==
    <>[](texts = 0 /\ csi # <<>> /\ backend.at # "none")
        => []<><<Len(csi') < Len(csi)>>_csi

\* Through the backend, one call that selects the format of the tool prints one header.
BackendHeaderOnce == log.async => wire.heads <= 1
=============================================================================
