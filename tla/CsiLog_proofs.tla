---------------------------- MODULE CsiLog_proofs ----------------------------
(***************************************************************************)
(* Theorems about CsiLog, for any build, packets, capacities and buffer.   *)
(***************************************************************************)
EXTENDS CsiLog, WellFoundedInduction, TLAPS

Tool == "EspCsiTool"

Wires == [last : Modes \cup {"none", "header", "failed"},
          headless : BOOLEAN, whole : BOOLEAN, heads : 0..HeadBound,
          rest : {"none", "begun", "failed"}, mixed : BOOLEAN]

Statics == [mode : Modes, header : BOOLEAN, async : BOOLEAN, cap : EmitCaps]

\* What the arguments need of the types; the rows are left out.
Typed ==
    /\ user \in {"fresh", "probe", "spawn", "ready", "switch"}
    /\ log \in Statics
    /\ csi \in Seq(Packets)
    /\ wire \in Wires
    /\ backend.at = "record" =>
          /\ backend = [at |-> "record", row |-> backend.row, left |-> backend.left,
                         begun |-> backend.begun]
          /\ backend.row.kind \in Modes

\* The backend exists once it was chosen.
Phases ==
    /\ backend.at # "none" => log.async /\ user \in {"ready", "switch"}
    /\ log.async => user \in {"spawn", "ready", "switch"}
    /\ user = "spawn" => log.async

\* The header is printed only in the tool's mode, and then a row may follow.
Heading ==
    /\ ~wire.headless
    /\ log.header /\ user # "switch" => log.mode = Tool
    /\ log.header /\ log.mode = Tool => wire.last \in Headed \/ backend.at = "header"
    /\ backend.at = "record" /\ backend.row.kind = Tool => wire.last \in Headed
    /\ backend.at = "record" /\ backend.row.kind # Tool => ~log.header

\* As long as the calls cannot be interrupted, the flag says whether a header was begun.
Counting ==
    log.async \/ user \in {"fresh", "probe"} =>
        /\ wire.heads <= 1
        /\ ~log.header => wire.heads = 0
        /\ user = "switch" => wire.heads = 0

LogInv == Typed /\ Phases /\ Heading /\ Counting

-----------------------------------------------------------------------------
LEMMA RowKind ==
    ASSUME NEW m \in Modes, NEW p
    PROVE  Row(m, p).kind = m
  BY DEF Row, format_csi_tool_into

\* What the helpers make of the history of the wire.
LEMMA StartedTypes ==
    ASSUME NEW w \in Wires
    PROVE  /\ Started(w) \in Wires /\ Started(w).last = w.last
           /\ Started(w).heads = w.heads
           /\ ~w.headless => ~Started(w).headless
           /\ w.whole => Started(w).whole
           /\ w.rest # "begun" => ~Started(w).mixed
<1>1. (w.rest = "begun") \in BOOLEAN
  BY Zenon
<1> QED
  BY <1>1 DEF Started, Wires

LEMMA EndedTypes ==
    ASSUME NEW w \in Wires
    PROVE  /\ Ended(w) \in Wires /\ Ended(w).last = w.last /\ Ended(w).heads = w.heads
           /\ ~w.headless => ~Ended(w).headless
           /\ w.whole => Ended(w).whole
           /\ ~w.mixed => ~Ended(w).mixed
           /\ Ended(w).rest = "none"
  BY DEF Ended, Wires

LEMMA StartedRowTypes ==
    ASSUME NEW w \in Wires, NEW m \in Modes
    PROVE  /\ StartedRow(w, m) \in Wires /\ StartedRow(w, m).last = m
           /\ StartedRow(w, m).heads = w.heads
           /\ m # Tool \/ w.last \in Headed => ~StartedRow(w, m).headless
           /\ w.whole => StartedRow(w, m).whole
           /\ w.rest # "begun" => ~StartedRow(w, m).mixed
<1> DEFINE bare == m = Tool /\ w.last \notin Headed
           v == Started(w)
<1>1. bare \in BOOLEAN /\ (m # Tool \/ w.last \in Headed => ~bare)
  BY Zenon
<1>2. v \in Wires /\ v.heads = w.heads /\ (w.whole => v.whole) /\ (w.rest # "begun" => ~v.mixed)
  BY StartedTypes
<1>3. StartedRow(w, m) = [v EXCEPT !.last = m, !.headless = bare]
  BY Zenon DEF StartedRow, Tool
<1> HIDE DEF v, bare
<1> QED
  BY <1>1, <1>2, <1>3 DEF Wires

LEMMA EndedRowTypes ==
    ASSUME NEW w \in Wires, NEW row
    PROVE  /\ EndedRow(w, row) \in Wires /\ EndedRow(w, row).last = w.last
           /\ EndedRow(w, row).heads = w.heads
           /\ ~w.headless => ~EndedRow(w, row).headless
           /\ row.samples = row.announced => EndedRow(w, row).whole
           /\ ~w.mixed => ~EndedRow(w, row).mixed
           /\ EndedRow(w, row).rest = "none"
<1> DEFINE full == row.samples = row.announced
           v == Ended(w)
<1>1. full \in BOOLEAN /\ (row.samples = row.announced => full)
  BY Zenon
<1>2. /\ v \in Wires /\ v.last = w.last /\ v.heads = w.heads /\ v.rest = "none"
      /\ (~w.headless => ~v.headless) /\ (~w.mixed => ~v.mixed)
  BY EndedTypes
<1>3. EndedRow(w, row) = [v EXCEPT !.whole = full]
  BY Zenon DEF EndedRow
<1> HIDE DEF v, full
<1> QED
  BY <1>1, <1>2, <1>3 DEF Wires

LEMMA WithRowTypes ==
    ASSUME NEW w \in Wires, NEW m \in Modes, NEW row, row.kind = m
    PROVE  /\ WithRow(w, row) \in Wires
           /\ WithRow(w, row).last = m
           /\ WithRow(w, row).heads = w.heads
           /\ m # Tool \/ w.last \in Headed => ~WithRow(w, row).headless
           /\ row.samples = row.announced => WithRow(w, row).whole
           /\ w.rest # "begun" => ~WithRow(w, row).mixed
           /\ WithRow(w, row).rest = "none"
<1> DEFINE v == StartedRow(w, m)
<1>1. /\ v \in Wires /\ v.last = m /\ v.heads = w.heads
      /\ (m # Tool \/ w.last \in Headed => ~v.headless)
      /\ (w.rest # "begun" => ~v.mixed)
  BY StartedRowTypes
<1>2. WithRow(w, row) = EndedRow(v, row)
  BY DEF WithRow
<1> HIDE DEF v
<1> DEFINE u == EndedRow(v, row)
<1>3. /\ u \in Wires /\ u.last = v.last /\ u.heads = v.heads /\ u.rest = "none"
      /\ (~v.headless => ~u.headless) /\ (~v.mixed => ~u.mixed)
      /\ (row.samples = row.announced => u.whole)
  BY <1>1, EndedRowTypes, Zenon
<1>4. WithRow(w, row) = u
  BY <1>2
<1> HIDE DEF u
<1> QED
  BY <1>1, <1>3, <1>4, Zenon

LEMMA HeaderTypes ==
    ASSUME NEW w \in Wires
    PROVE  /\ Begun(w) \in Wires /\ WithHeader(w) \in Wires
           /\ Begun(w).last = w.last /\ Begun(w).rest = w.rest
           /\ ~w.headless => ~Begun(w).headless
           /\ w.whole => Begun(w).whole
           /\ ~w.mixed => ~Begun(w).mixed
           /\ w.heads = 0 => Begun(w).heads = 1
           /\ WithHeader(w).last = "header" /\ WithHeader(w).heads = w.heads
           /\ ~w.headless => ~WithHeader(w).headless
           /\ w.whole => WithHeader(w).whole
           /\ w.rest # "begun" => ~WithHeader(w).mixed
           /\ WithHeader(w).rest = "none"
<1>1. /\ Begun(w) \in Wires
      /\ Begun(w).last = w.last /\ Begun(w).rest = w.rest
      /\ ~w.headless => ~Begun(w).headless
      /\ w.whole => Begun(w).whole
      /\ ~w.mixed => ~Begun(w).mixed
      /\ w.heads = 0 => Begun(w).heads = 1
  BY DEF Begun, Wires, HeadBound
<1> DEFINE u == Started(w)
           v == [u EXCEPT !.last = "header"]
<1>2. /\ u \in Wires /\ u.heads = w.heads
      /\ (~w.headless => ~u.headless) /\ (w.whole => u.whole)
      /\ (w.rest # "begun" => ~u.mixed)
  BY StartedTypes
<1>3. WithHeader(w) = Ended(v)
  BY DEF WithHeader
<1> HIDE DEF u
<1>4. /\ v \in Wires /\ v.last = "header" /\ v.heads = w.heads
      /\ (~w.headless => ~v.headless) /\ (w.whole => v.whole)
      /\ (w.rest # "begun" => ~v.mixed)
  BY <1>2 DEF Wires
<1> HIDE DEF v
<1> QED
  BY <1>1, <1>3, <1>4, EndedTypes

\* What a failed write leaves: nothing, or a part of the line v that it started.
LEMMA TornTypes ==
    ASSUME NEW w \in Wires, NEW v \in Wires, v.heads = w.heads, NEW u \in Torn(w, v)
    PROVE  /\ u \in Wires /\ u.last \in {w.last, v.last} /\ u.heads = w.heads
           /\ ~w.headless /\ ~v.headless => ~u.headless
           /\ w.whole /\ v.whole => u.whole
           /\ ~w.mixed /\ ~v.mixed => ~u.mixed
           /\ w.rest # "begun" => u.rest # "begun"
  BY DEF Torn, Wires

LEMMA ResetHeads ==
    ASSUME NEW w \in Wires
    PROVE  /\ [w EXCEPT !.heads = 0] \in Wires
           /\ [w EXCEPT !.heads = 0].heads = 0
           /\ [w EXCEPT !.heads = 0].headless = w.headless
           /\ [w EXCEPT !.heads = 0].last = w.last
  BY DEF Wires, HeadBound

LEMMA InitInv == Init => LogInv
  BY LogAssumption DEF Init, LogInv, Typed, Phases, Heading, Counting,
     Statics, Wires, Nobody, InHand, Modes, HeadBound, Tool

\* The calls that set the mode, and what continues them.
LEMMA ModeInv ==
    ASSUME LogInv,
           \/ \E m \in Modes : init_logger(m) \/ set_log_mode(m)
           \/ Continue
    PROVE  LogInv'
<1> USE DEF LogInv, Typed, Phases, Heading, Counting,
            Statics, Wires, InHand, HeadBound, Tool
<1>1. ASSUME NEW m \in Modes, init_logger(m)
      PROVE  LogInv'
  <2>1. log' \in Statics /\ ~log'.header /\ log'.async = log.async
    BY <1>1 DEF init_logger
  <2>2. wire' \in Wires /\ wire'.heads = 0 /\ wire'.headless = wire.headless
    BY <1>1, ResetHeads DEF init_logger
  <2>3. user' = "probe" /\ user = "fresh" /\ UNCHANGED <<csi, backend>>
    BY <1>1 DEF init_logger
  <2>4. backend.at = "none" /\ ~log.async
    BY <2>3
  <2>5. backend'.at = "none" /\ backend.at = backend'.at /\ ~log'.async
    BY <2>1, <2>3, <2>4
  <2>6. Typed'
    BY <2>1, <2>2, <2>3, <2>5 DEF Typed
  <2>7. Phases'
    BY <2>3, <2>5
  <2>8. Heading' /\ Counting'
    BY <2>1, <2>2, <2>3, <2>5
  <2> QED
    BY <2>6, <2>7, <2>8
<1>2. ASSUME NEW m \in Modes, set_log_mode(m)
      PROVE  LogInv'
  BY <1>2 DEF set_log_mode
<1>3. CASE ChooseBackend
  <2>1. (build = "async-print" \/ (build = "auto" /\ auto_usb_sof_seen)) \in BOOLEAN
    BY Zenon
  <2> QED
    BY <1>3, <2>1 DEF ChooseBackend
<1>4. CASE SpawnBackend
  BY <1>4 DEF SpawnBackend, Select
<1>5. CASE ForgetHeader
  BY <1>5 DEF ForgetHeader
<1> QED
  BY <1>1, <1>2, <1>3, <1>4, <1>5 DEF Continue

\* The other calls.
LEMMA CallInv ==
    ASSUME LogInv,
           \/ \E n \in EmitCaps : set_csi_tool_emit_cap(n)
           \/ \E fits \in BOOLEAN : log_ln(fits)
           \/ reset_global_log_drops
           \/ Plug
    PROVE  LogInv'
  BY DEF set_csi_tool_emit_cap, log_ln, reset_global_log_drops, Plug,
     LogInv, Typed, Phases, Heading, Counting, Statics, Wires, InHand

LEMMA AsyncInv ==
    ASSUME LogInv, NEW p \in Packets, log_csi_async(p)
    PROVE  LogInv'
<1>1. CASE Len(csi) < QueueCap
  <2>1. csi' = Append(csi, p)
    BY <1>1 DEF log_csi_async, try_send
  <2>2. csi' \in Seq(Packets) /\ Len(csi') = Len(csi) + 1 /\ Len(csi) \in Nat
    BY <2>1 DEF LogInv, Typed
  <2> QED
    BY <2>1, <2>2 DEF log_csi_async, LogInv, Typed, Phases, Heading, Counting
<1>2. CASE ~(Len(csi) < QueueCap)
  BY <1>2 DEF log_csi_async, try_send, LogInv, Typed, Phases, Heading, Counting
<1> QED
  BY <1>1, <1>2

LEMMA SyncInv ==
    ASSUME LogInv, NEW p \in Packets, log_csi_sync(p)
    PROVE  LogInv'
<1>1. /\ user # "fresh" /\ ~log.async /\ backend.at = "none"
      /\ log \in Statics /\ wire \in Wires /\ log.mode \in Modes
  BY DEF log_csi_sync, LogInv, Typed, Phases, Statics
<1>2. CASE Refused(log.mode, p)
  BY <1>1, <1>2 DEF log_csi_sync, LogInv, Typed, Phases, Heading, Counting
<1>3. CASE ~Refused(log.mode, p)
  <2> DEFINE w == IF log.mode = "EspCsiTool" /\ ~log.header
                  THEN WithHeader(Begun(wire)) ELSE wire
  <2>1. wire' = WithRow(w, Row(log.mode, p))
    BY <1>3 DEF log_csi_sync
  <2>2. /\ w \in Wires
        /\ log.mode = Tool /\ ~log.header => w.last = "header"
        /\ log.mode # Tool \/ log.header => w = wire
        /\ wire.heads = 0 => w.heads <= 1
    <3>1. /\ Begun(wire) \in Wires /\ (wire.heads = 0 => Begun(wire).heads = 1)
          /\ WithHeader(Begun(wire)) \in Wires
          /\ WithHeader(Begun(wire)).last = "header"
          /\ WithHeader(Begun(wire)).heads = Begun(wire).heads
      BY <1>1, HeaderTypes
    <3>2. CASE log.mode = "EspCsiTool" /\ ~log.header
      BY <3>1, <3>2 DEF Tool
    <3>3. CASE ~(log.mode = "EspCsiTool" /\ ~log.header)
      BY <1>1, <3>3 DEF Tool
    <3> QED
      BY <3>2, <3>3
  <2> HIDE DEF w
  <2>3. /\ wire' \in Wires /\ wire'.last = log.mode
        /\ log.mode # Tool \/ w.last \in Headed => ~wire'.headless
        /\ wire'.heads = w.heads
    <3>1. Row(log.mode, p).kind = log.mode
      BY <1>1, RowKind
    <3> QED
      BY <1>1, <2>1, <2>2, <3>1, WithRowTypes
  <2>4. (log.header \/ log.mode = "EspCsiTool") \in BOOLEAN
    BY Zenon
  <2>5. /\ log' \in Statics /\ log'.mode = log.mode /\ log'.async = log.async
        /\ log'.header = (log.header \/ log.mode = "EspCsiTool")
    BY <1>1, <1>3, <2>4 DEF log_csi_sync, Statics
  <2>6. UNCHANGED <<user, csi, backend>>
    BY <1>3 DEF log_csi_sync
  <2>7. Typed' /\ Phases'
    BY <1>1, <2>3, <2>5, <2>6 DEF LogInv, Typed, Phases, InHand
  <2>8. Heading'
    BY <1>1, <2>2, <2>3, <2>5, <2>6 DEF LogInv, Heading, Tool, Headed
  <2>9. Counting'
    BY <1>1, <2>2, <2>3, <2>5, <2>6 DEF LogInv, Counting, Phases, Tool, Wires
  <2> QED
    BY <2>7, <2>8, <2>9 DEF LogInv
<1> QED
  BY <1>2, <1>3

\* Formatting a packet that is in the hands of the backend, or that it just took.
LEMMA WriteInv ==
    ASSUME NEW m \in Modes, NEW p, Write(m, p)
    PROVE  \/ backend' = [at |-> "drain"]
           \/ /\ backend' = [at |-> "record", row |-> Row(m, p), left |-> Writes(m, p),
                              begun |-> FALSE]
              /\ backend'.row.kind = m
  BY RowKind DEF Write, Record, Drain

LEMMA ReceiveInv ==
    ASSUME LogInv, ReceivePacket
    PROVE  LogInv'
<1>1. /\ user = "ready" /\ log.async
      /\ log \in Statics /\ wire \in Wires /\ log.mode \in Modes
  BY DEF ReceivePacket, LogInv, Typed, Phases, Statics, InHand, Free
<1>2. csi' \in Seq(Packets) /\ Len(csi') = Len(csi) - 1 /\ Len(csi) \in Nat
  BY DEF ReceivePacket, LogInv, Typed
<1>3. CASE log.mode = "EspCsiTool" /\ ~log.header
  <2>1. /\ log' = [log EXCEPT !.header = TRUE]
        /\ backend' = [at |-> "header", packet |-> Head(csi)]
        /\ wire' = Begun(wire)
        /\ UNCHANGED user
    BY <1>3 DEF ReceivePacket
  <2>2. wire' \in Wires /\ ~wire'.headless /\ wire'.heads = 1
    BY <1>1, <1>3, <2>1, HeaderTypes DEF LogInv, Heading, Counting
  <2>3. log' \in Statics /\ log'.header /\ log'.mode = log.mode /\ log'.async
    BY <1>1, <2>1 DEF Statics
  <2>4. Typed' /\ Phases'
    BY <1>1, <1>2, <2>1, <2>2, <2>3 DEF LogInv, Typed, Phases, InHand
  <2>5. Heading' /\ Counting'
    BY <1>1, <1>3, <2>1, <2>2, <2>3 DEF LogInv, Heading, Counting, Tool
  <2> QED
    BY <2>4, <2>5 DEF LogInv
<1>4. CASE ~(log.mode = "EspCsiTool" /\ ~log.header)
  <2>1. /\ Write(log.mode, Head(csi))
        /\ UNCHANGED <<user, log, wire>>
    BY <1>4 DEF ReceivePacket
  <2>2. Heading'
    <3>1. log.mode = Tool => log.header /\ wire.last \in Headed
      BY <1>4 DEF LogInv, Heading, Tool, ReceivePacket
    <3>2. log.mode # Tool => ~log.header
      BY <1>1 DEF LogInv, Heading
    <3> QED
      BY <1>1, <2>1, <3>1, <3>2, WriteInv DEF LogInv, Heading
  <2> QED
    BY <1>1, <1>2, <2>1, <2>2, WriteInv DEF LogInv, Typed, Phases, Counting
<1> QED
  BY <1>3, <1>4

LEMMA HeaderInv ==
    ASSUME LogInv, WriteHeader
    PROVE  LogInv'
<1>1. /\ user \in {"ready"} /\ log.async
      /\ wire \in Wires /\ Len(csi) \in Nat
  BY DEF WriteHeader, LogInv, Typed, Phases, InHand, Free
<1>2. /\ wire' = WithHeader(wire) /\ Write("EspCsiTool", backend.packet)
      /\ UNCHANGED <<user, log, csi>>
  BY DEF WriteHeader
<1>3. /\ wire' \in Wires /\ wire'.last = "header" /\ ~wire'.headless
      /\ wire'.heads = wire.heads
  BY <1>1, <1>2, HeaderTypes DEF LogInv, Heading
<1>4. \/ backend' = [at |-> "drain"]
      \/ /\ backend' = [at |-> "record", row |-> backend'.row, left |-> backend'.left,
                         begun |-> backend'.begun]
         /\ backend'.row.kind = Tool /\ Tool \in Modes
  <2>1. "EspCsiTool" \in Modes
    BY DEF Modes
  <2> QED
    BY <1>1, <1>2, <2>1, WriteInv DEF Tool
<1> QED
  BY <1>1, <1>2, <1>3, <1>4 DEF LogInv, Typed, Phases, Heading, Counting, Headed

\* A row that is started comes under a header if it needs one.
LEMMA StartInv ==
    ASSUME LogInv, backend.at = "record"
    PROVE  /\ LineOfRecord \in Wires /\ ~LineOfRecord.headless
           /\ LineOfRecord.heads = wire.heads
           /\ LineOfRecord.last \in {wire.last, backend.row.kind}
           /\ backend.row.kind = Tool => LineOfRecord.last \in Headed
           /\ IF backend.row.kind = Tool THEN wire.last \in Headed ELSE ~log.header
<1>1. wire \in Wires /\ backend.row.kind \in Modes /\ ~wire.headless
  BY DEF LogInv, Typed, Heading
<1>2. IF backend.row.kind = Tool THEN wire.last \in Headed ELSE ~log.header
  BY Zenon DEF LogInv, Heading
<1>3. ~(backend.row.kind = Tool /\ wire.last \notin Headed)
  BY <1>2, Zenon
<1>4. Tool \in Headed
  BY DEF Tool, Headed
<1>5. CASE backend.begun
  BY <1>1, <1>2, <1>5 DEF LineOfRecord
<1>6. CASE ~backend.begun
  <2>1. LineOfRecord = StartedRow(wire, backend.row.kind)
    BY <1>6 DEF LineOfRecord
  <2>2. /\ StartedRow(wire, backend.row.kind) \in Wires
        /\ ~StartedRow(wire, backend.row.kind).headless
        /\ StartedRow(wire, backend.row.kind).last = backend.row.kind
        /\ StartedRow(wire, backend.row.kind).heads = wire.heads
    BY <1>1, <1>3, StartedRowTypes, Zenon
  <2> QED
    BY <1>2, <1>4, <2>1, <2>2
<1> QED
  BY <1>5, <1>6

LEMMA RecordInv ==
    ASSUME LogInv, WriteRecord
    PROVE  LogInv'
<1>1. /\ user = "ready" /\ log.async /\ wire \in Wires /\ backend.at = "record"
      /\ backend = [at |-> "record", row |-> backend.row, left |-> backend.left,
                     begun |-> backend.begun]
      /\ backend.row.kind \in Modes /\ UNCHANGED <<user, log, csi>>
  BY DEF WriteRecord, LogInv, Typed, Phases, Free
<1>2. /\ wire' \in Wires /\ ~wire'.headless /\ wire'.heads = wire.heads
      /\ wire'.last \in {wire.last, backend.row.kind}
      /\ backend.row.kind = Tool => wire'.last \in Headed
  <2>1. wire' = LineOfRecord \/ wire' = EndedRow(LineOfRecord, backend.row)
    BY DEF WriteRecord
  <2>2. /\ LineOfRecord \in Wires /\ ~LineOfRecord.headless
        /\ LineOfRecord.heads = wire.heads
        /\ LineOfRecord.last \in {wire.last, backend.row.kind}
        /\ backend.row.kind = Tool => LineOfRecord.last \in Headed
    BY <1>1, StartInv
  <2>3. /\ EndedRow(LineOfRecord, backend.row) \in Wires
        /\ EndedRow(LineOfRecord, backend.row).last = LineOfRecord.last
        /\ ~EndedRow(LineOfRecord, backend.row).headless
        /\ EndedRow(LineOfRecord, backend.row).heads = LineOfRecord.heads
    BY <2>2, EndedRowTypes
  <2> QED
    BY <2>1, <2>2, <2>3
<1>3. \/ backend' = [at |-> "drain"]
      \/ backend' = [at |-> "record", row |-> backend.row, left |-> backend.left - 1,
                     begun |-> TRUE]
  BY <1>1 DEF WriteRecord, Drain
<1>4. Heading'
  <2>1. Heading /\ user # "switch"
    BY <1>1 DEF LogInv
  <2>2. log.header => wire'.last \in Headed
    BY <1>1, <1>2, StartInv
  <2> QED
    BY <1>1, <1>2, <1>3, <2>1, <2>2, StartInv DEF Heading
<1> QED
  BY <1>1, <1>2, <1>3, <1>4 DEF LogInv, Typed, Phases, Counting

\* The rest of the backend.
LEMMA RestInv ==
    ASSUME LogInv, Fail \/ DrainTexts \/ ReceiveText \/ WriteText
    PROVE  LogInv'
<1>1. CASE Fail
  <2>1. /\ wire' \in Wires /\ ~wire'.headless /\ wire'.heads = wire.heads
        /\ backend.at = "header" => wire'.last = "failed"
        /\ backend.at = "record" => wire'.last \in {wire.last, backend.row.kind}
        /\ backend.at = "record" /\ backend.row.kind = Tool => wire'.last \in Headed
    <3>1. wire \in Wires /\ ~wire.headless
      BY DEF LogInv, Typed, Heading
    <3>2. CASE backend.at = "header"
      <4>1. PICK w \in Torn(wire, Started(wire)) : wire' = [w EXCEPT !.last = "failed"]
        BY <1>1, <3>2 DEF Fail
      <4>2. w \in Wires /\ ~w.headless /\ w.heads = wire.heads
        BY <3>1, StartedTypes, TornTypes
      <4>3. /\ wire' \in Wires /\ ~wire'.headless /\ wire'.heads = wire.heads
            /\ wire'.last = "failed"
        BY <4>1, <4>2 DEF Wires
      <4> QED
        BY <3>2, <4>3
    <3>3. CASE backend.at = "record" /\ ~backend.begun
      <4>1. wire' \in Torn(wire, LineOfRecord)
        BY <1>1, <3>3 DEF Fail, LineOfRecord
      <4>2. /\ LineOfRecord \in Wires /\ ~LineOfRecord.headless
            /\ LineOfRecord.heads = wire.heads
            /\ LineOfRecord.last \in {wire.last, backend.row.kind}
            /\ backend.row.kind = Tool => LineOfRecord.last \in Headed /\ wire.last \in Headed
        BY <3>3, StartInv
      <4>3. /\ wire' \in Wires /\ ~wire'.headless /\ wire'.heads = wire.heads
            /\ wire'.last \in {wire.last, LineOfRecord.last}
        BY <3>1, <4>1, <4>2, TornTypes
      <4> QED
        BY <3>3, <4>2, <4>3
    <3>4. CASE backend.at = "record" /\ backend.begun
      <4>1. wire' = [wire EXCEPT !.rest = "failed"]
        BY <1>1, <3>4 DEF Fail
      <4>2. /\ wire' \in Wires /\ ~wire'.headless /\ wire'.heads = wire.heads
            /\ wire'.last = wire.last
        BY <3>1, <4>1 DEF Wires
      <4> QED
        BY <3>4, <4>2, StartInv
    <3> QED
      BY <1>1, <3>2, <3>3, <3>4 DEF Fail
  <2>2. /\ backend' = [at |-> "drain"] /\ InHand
        /\ UNCHANGED <<user, log, csi>> /\ user # "switch"
    BY <1>1 DEF Fail, Drain, Free
  <2>3. Heading'
    <3>1. Heading /\ "failed" \in Headed /\ backend.at \in {"header", "record"}
      BY <2>2 DEF LogInv, InHand, Headed
    <3>2. log.header /\ log.mode = Tool => wire'.last \in Headed
      BY <2>1, <3>1, StartInv DEF Heading
    <3>3. backend'.at # "record"
      BY <2>2
    <3> QED
      BY <2>1, <2>2, <3>1, <3>2, <3>3 DEF Heading
  <2>4. Typed' /\ Phases' /\ Counting'
    BY <2>1, <2>2 DEF LogInv, Typed, Phases, Counting, InHand
  <2> QED
    BY <2>3, <2>4 DEF LogInv
<1> USE DEF LogInv, Typed, Phases, Heading, Counting, InHand
<1>2. CASE DrainTexts
  BY <1>2 DEF DrainTexts, Select
<1>3. CASE ReceiveText
  BY <1>3 DEF ReceiveText
<1>4. CASE WriteText
  <2>1. /\ wire' \in Wires /\ ~wire'.headless /\ wire'.heads = wire.heads
        /\ wire'.last = wire.last
    <3>1. wire \in Wires /\ ~wire.headless
      OBVIOUS
    <3>2. \/ wire' = Ended(Started(wire)) \/ wire' \in Torn(wire, Started(wire))
          \/ wire' = wire
      BY <1>4 DEF WriteText
    <3> QED
      BY <3>1, <3>2, StartedTypes, EndedTypes, TornTypes
  <2>2. /\ backend' \in {Select, Drain, [at |-> "flush"]}
        /\ backend.at \in {"drained", "message", "flush"}
        /\ UNCHANGED <<user, log, csi>>
    BY <1>4 DEF WriteText
  <2> QED
    BY <2>1, <2>2 DEF Drain, Select
<1> QED
  BY <1>1, <1>2, <1>3, <1>4

LEMMA StepInv ==
    ASSUME LogInv, [Next]_vars
    PROVE  LogInv'
<1>1. CASE Call
  BY <1>1, ModeInv, CallInv DEF Call
<1>2. CASE Continue
  BY <1>2, ModeInv
<1>3. CASE Radio
  <2>1. ASSUME NEW p \in Packets, log_csi_early(p) PROVE LogInv'
    BY <2>1 DEF log_csi_early, LogInv, Typed, Phases, Heading, Counting
  <2> QED
    BY <1>3, <2>1, AsyncInv, SyncInv DEF Radio
<1>4. CASE logger_backend
  BY <1>4, ReceiveInv, HeaderInv, RecordInv, RestInv DEF logger_backend
<1>5. CASE UNCHANGED vars
  BY <1>5 DEF vars, LogInv, Typed, Phases, Heading, Counting, InHand
<1> QED
  BY <1>1, <1>2, <1>3, <1>4, <1>5 DEF Next

-----------------------------------------------------------------------------
LEMMA Inductive == Spec => []LogInv
<1>1. Init => LogInv
  BY InitInv
<1>2. LogInv /\ [Next]_vars => LogInv'
  BY StepInv
<1> QED
  BY <1>1, <1>2, PTL DEF Spec

\* No row of the ESP32-CSI-Tool format comes without a header, on either path.
THEOREM HeaderBeforeRows == Spec => []HeaderFirst
<1>1. LogInv => HeaderFirst
  BY DEF LogInv, Heading, HeaderFirst
<1> QED
  BY <1>1, Inductive, PTL

\* Through the backend, a call that sets the mode brings at most one header.
THEOREM OneHeader == Spec => []BackendHeaderOnce
<1>1. LogInv => BackendHeaderOnce
  BY DEF LogInv, Counting, BackendHeaderOnce
<1> QED
  BY <1>1, Inductive, PTL

-----------------------------------------------------------------------------
(***************************************************************************)
(* Numbers: a least and a largest, induction, and recursion up to a bound. *)
(* Predicates are sets, so that the steps are first-order.                 *)
(***************************************************************************)
LEMMA LeastOf ==
    ASSUME NEW T \in SUBSET Nat, T # {}
    PROVE  \E k \in T : \A j \in T : k <= j
<1> DEFINE Less == {ss \in Nat \X Nat : ss[1] < ss[2]}
<1>1. IsWellFoundedOn(Less, Nat)
  BY NatLessThanWellFounded DEF OpToRel
<1>2. PICK k \in T : \A j \in T : ~(<<j, k>> \in Less)
  <2> HIDE DEF Less
  <2>1. QED
    BY <1>1, WFMin
<1>3. ASSUME NEW j \in T PROVE k <= j
  <2>1. j \in Nat /\ k \in Nat /\ ~(<<j, k>> \in Less)
    BY <1>2
  <2>2. ~(j < k)
    BY <2>1
  <2>3. QED
    BY <2>1, <2>2
<1>4. QED
  BY <1>3

LEMMA LargestOf ==
    ASSUME NEW n \in Nat, NEW T \in SUBSET (0..n), T # {}
    PROVE  Max(T) \in T /\ \A j \in T : Max(T) >= j
<1> DEFINE U == {j \in Nat : n - j \in T}
<1>1. PICK k \in T : TRUE
  OBVIOUS
<1>2. n - k \in U
  BY <1>1
<1>3. PICK l \in U : \A j \in U : l <= j
  <2>1. U \in SUBSET Nat /\ U # {}
    BY <1>2
  <2> HIDE DEF U
  <2>2. QED
    BY <2>1, LeastOf
<1>4. n - l \in T /\ \A j \in T : n - l >= j
  <2>1. ASSUME NEW j \in T PROVE n - l >= j
    <3>1. n - j \in U
      <4>1. j \in 0..n /\ n - j \in Nat /\ n - (n - j) = j
        OBVIOUS
      <4>2. QED
        BY <4>1
    <3>2. l \in Nat /\ j \in Int
      OBVIOUS
    <3> HIDE DEF U
    <3>3. l <= n - j
      BY <1>3, <3>1
    <3>4. QED
      BY <3>2, <3>3
  <2>2. QED
    BY <1>3, <2>1
<1> HIDE DEF U
<1>5. QED
  BY <1>4 DEF Max

LEMMA ByOnes ==
    ASSUME NEW G, 0 \in G, \A n \in Nat : n \in G => n + 1 \in G
    PROVE  \A n \in Nat : n \in G
<1>1. SUFFICES ASSUME NEW n \in Nat, n \notin G PROVE FALSE
  OBVIOUS
<1> DEFINE Wrong == {k \in Nat : k \notin G}
<1>2. PICK k \in Wrong : \A j \in Wrong : k <= j
  <2>1. Wrong \in SUBSET Nat /\ Wrong # {}
    BY <1>1
  <2> HIDE DEF Wrong
  <2>2. QED
    BY <2>1, LeastOf
<1>3. k \in Nat \ {0} /\ k - 1 \in Nat /\ ~(k <= k - 1)
  BY <1>2
<1>4. k - 1 \in G
  BY <1>2, <1>3
<1>5. QED
  BY <1>2, <1>3, <1>4

Follows(g, n, base, step) == g[0] = base /\ \A i \in 1..n : g[i] = step[<<i, g[i - 1]>>]

LEMMA Recursion ==
    ASSUME NEW n \in Nat, NEW V, NEW base \in V, NEW step \in [(1..n) \X V -> V]
    PROVE  \E g \in [0..n -> V] : Follows(g, n, base, step)
<1> DEFINE Upto(k, g) == g[0] = base /\ \A i \in 1..n : i <= k => g[i] = step[<<i, g[i - 1]>>]
           G == {k \in Nat : \E g \in [0..n -> V] : Upto(k, g)}
<1>1. 0 \in G
  <2> DEFINE g == [i \in 0..n |-> base]
  <2>1. g \in [0..n -> V] /\ Upto(0, g)
    OBVIOUS
  <2> HIDE DEF g, Upto
  <2>2. QED
    BY <2>1
<1>2. ASSUME NEW k \in Nat, k \in G PROVE k + 1 \in G
  <2>1. PICK g \in [0..n -> V] : Upto(k, g)
    BY <1>2
  <2>2. CASE k + 1 <= n
    <3> DEFINE h == [i \in 0..n |-> IF i = k + 1 THEN step[<<k + 1, g[k]>>] ELSE g[i]]
    <3>1. k \in 0..n /\ k + 1 \in 1..n
      BY <2>2
    <3>2. h \in [0..n -> V] /\ h[0] = base /\ h[k + 1] = step[<<k + 1, g[k]>>]
      BY <2>1, <3>1
    <3>3. \A i \in 0..n : i <= k => h[i] = g[i]
      OBVIOUS
    <3> HIDE DEF h
    <3>4. ASSUME NEW i \in 1..n, i <= k + 1 PROVE h[i] = step[<<i, h[i - 1]>>]
      <4>1. i - 1 \in 0..n /\ i - 1 <= k /\ h[i - 1] = g[i - 1]
        BY <3>3, <3>4
      <4>2. CASE i = k + 1
        BY <3>2, <4>1, <4>2
      <4>3. CASE i <= k
        <5>1. i \in 0..n
          OBVIOUS
        <5>2. QED
          BY <2>1, <3>3, <4>1, <4>3, <5>1
      <4>4. QED
        BY <3>4, <4>2, <4>3
    <3>5. QED
      BY <3>2, <3>4
  <2>3. CASE ~(k + 1 <= n)
    <3>1. Upto(k + 1, g)
      BY <2>1, <2>3
    <3> HIDE DEF Upto
    <3>2. QED
      BY <3>1
  <2>4. QED
    BY <2>2, <2>3
<1> HIDE DEF G
<1>3. n \in G
  BY <1>1, <1>2, ByOnes
<1>4. QED
  BY <1>3 DEF G, Follows

-----------------------------------------------------------------------------
\* The recursive functions of the formatter are what their equations say.
Widths == \A v \in Samples : write_i8_sep(v) \in 1..5

LEMMA SampleWidth == Widths
  BY DEF Widths, Samples, write_i8_sep, Digits

LEMMA SampleOf ==
    ASSUME NEW p \in Packets, NEW i \in 1..Len(p.data)
    PROVE  write_i8_sep(p.data[i]) \in 1..5
<1>1. p.data \in Seq(Samples)
  BY LogAssumption
<1>2. p.data[i] \in Samples
  BY <1>1
<1>3. QED
  BY <1>2, SampleWidth DEF Widths

LEMMA PacketOf ==
    ASSUME NEW p \in Packets
    PROVE  p.prefix \in Nat /\ p.data \in Seq(Samples) /\ Len(p.data) \in Nat
  BY LogAssumption

LEMMA PositionIs ==
    ASSUME NEW p \in Packets
    PROVE  Position(p) = [i \in 0..Len(p.data) |->
              IF i = 0 THEN p.prefix ELSE Position(p)[i - 1] + write_i8_sep(p.data[i])]
<1> DEFINE n == Len(p.data)
           step == [x \in (1..n) \X Nat |-> x[2] + write_i8_sep(p.data[x[1]])]
<1>1. n \in Nat /\ p.prefix \in Nat
  BY PacketOf
<1>2. step \in [(1..n) \X Nat -> Nat]
  <2>1. ASSUME NEW x \in (1..n) \X Nat PROVE x[2] + write_i8_sep(p.data[x[1]]) \in Nat
    <3>1. x[1] \in 1..n /\ x[2] \in Nat
      OBVIOUS
    <3>2. write_i8_sep(p.data[x[1]]) \in 1..5
      BY <3>1, SampleOf
    <3>3. QED
      BY <3>1, <3>2
  <2>2. QED
    BY <2>1
<1>3. ASSUME NEW i \in 1..n, NEW v \in Nat
      PROVE  step[<<i, v>>] = v + write_i8_sep(p.data[i])
  <2> DEFINE x == <<i, v>>
  <2>1. x \in (1..n) \X Nat /\ x[1] = i /\ x[2] = v
    OBVIOUS
  <2> HIDE DEF x
  <2>2. step[x] = x[2] + write_i8_sep(p.data[x[1]])
    BY <2>1
  <2>3. QED
    BY <2>1, <2>2 DEF x
<1> HIDE DEF n, step
<1>4. PICK g \in [0..n -> Nat] : Follows(g, n, p.prefix, step)
  BY <1>1, <1>2, Recursion
<1>5. ASSUME NEW i \in 0..n
      PROVE  g[i] = IF i = 0 THEN p.prefix ELSE g[i - 1] + write_i8_sep(p.data[i])
  <2>1. CASE i = 0
    BY <1>4, <2>1 DEF Follows
  <2>2. CASE i # 0
    <3>1. i \in 1..n /\ i - 1 \in 0..n
      BY <1>1, <2>2
    <3>2. QED
      BY <1>3, <1>4, <2>2, <3>1 DEF Follows
  <2>3. QED
    BY <2>1, <2>2
<1>6. g = [i \in 0..n |-> IF i = 0 THEN p.prefix ELSE g[i - 1] + write_i8_sep(p.data[i])]
  BY <1>5
<1>7. QED
  BY <1>6 DEF Position, n

\* A line never outgrows five bytes a sample.
LEMMA PositionBound ==
    ASSUME NEW p \in Packets
    PROVE  \A i \in 0..Len(p.data) :
              Position(p)[i] \in Nat /\ Position(p)[i] <= p.prefix + 5 * i
<1> DEFINE n == Len(p.data)
           at == Position(p)
           G == {i \in Nat : i <= n => at[i] \in Nat /\ at[i] <= p.prefix + 5 * i}
<1>1. n \in Nat /\ p.prefix \in Nat
  BY PacketOf
<1>2. /\ at[0] = p.prefix
      /\ \A i \in 1..n : at[i] = at[i - 1] + write_i8_sep(p.data[i])
  <2>1. \A i \in 0..n : at[i] = IF i = 0 THEN p.prefix
                                ELSE at[i - 1] + write_i8_sep(p.data[i])
    BY PositionIs, Zenon
  <2> HIDE DEF at, n
  <2>2. QED
    BY <1>1, <2>1
<1> HIDE DEF at
<1>3. 0 \in G
  BY <1>1, <1>2
<1>4. ASSUME NEW i \in Nat, i \in G PROVE i + 1 \in G
  <2>1. CASE i + 1 <= n
    <3>1. i + 1 \in 1..n /\ at[i] \in Nat /\ at[i] <= p.prefix + 5 * i
      BY <1>1, <1>4, <2>1
    <3>2. write_i8_sep(p.data[i + 1]) \in 1..5
      BY <3>1, SampleOf
    <3>3. at[i + 1] = at[i] + write_i8_sep(p.data[i + 1])
      BY <1>2, <3>1
    <3>4. QED
      BY <1>1, <3>1, <3>2, <3>3
  <2>2. CASE ~(i + 1 <= n)
    BY <2>2
  <2>3. QED
    BY <2>1, <2>2
<1> HIDE DEF G
<1>5. \A i \in Nat : i \in G
  BY <1>3, <1>4, ByOnes
<1>6. QED
  BY <1>1, <1>5 DEF G, at

LEMMA EmitLenType ==
    ASSUME NEW p \in Packets, NEW cap \in Nat
    PROVE  EmitLen(p, cap) \in 0..Len(p.data)
  BY PacketOf DEF EmitLen

\* Every packet's line fits the scratch buffer, each sample at its widest: the code sizes
\* its buffers for that ("Worst-case line: ..." at logging.rs:1243).
LinesFit == \A p \in Packets : p.prefix + 5 * Len(p.data) <= Buffer - 2

\* A row of the tool has all the samples it announces.
LEMMA ToolRow ==
    ASSUME NEW p \in Packets, NEW cap \in EmitCaps
    PROVE  LET row == format_csi_tool_into(p, cap)
           IN  row \in Rows /\ (LinesFit => row.samples = row.announced)
<1> DEFINE n == EmitLen(p, cap)
           fits(k) == \A i \in 0..(k - 1) : Position(p)[i] + 5 <= Buffer - 2
           T == {k \in 0..n : fits(k)}
<1>1. n \in 0..Len(p.data) /\ n \in Nat /\ Buffer \in Nat
  BY LogAssumption, EmitLenType, PacketOf
<1>2. T \in SUBSET (0..n) /\ T # {}
  <2>1. 0 \in T
    BY <1>1
  <2>2. QED
    BY <2>1
<1>3. LinesFit => n \in T
  <2>1. SUFFICES ASSUME LinesFit, NEW i \in 0..(n - 1) PROVE Position(p)[i] + 5 <= Buffer - 2
    BY <1>1
  <2>2. i \in 0..Len(p.data) /\ i + 1 <= Len(p.data) /\ Len(p.data) \in Nat
    BY <1>1, PacketOf
  <2>3. Position(p)[i] \in Nat /\ Position(p)[i] <= p.prefix + 5 * i
    BY <2>2, PositionBound
  <2>4. p.prefix + 5 * Len(p.data) <= Buffer - 2 /\ p.prefix \in Nat
    BY <2>1, PacketOf DEF LinesFit
  <2> DEFINE at == Position(p)[i]
             len == Len(p.data)
             start == p.prefix
  <2> HIDE DEF at, len, start, n
  <2>5. at \in Nat /\ at <= start + 5 * i /\ start + 5 * len <= Buffer - 2 /\ start \in Nat
        /\ i \in Nat /\ len \in Nat /\ i + 1 <= len
    BY <2>2, <2>3, <2>4 DEF at, len, start
  <2>6. at + 5 <= Buffer - 2
    BY <1>1, <2>5
  <2>7. QED
    BY <2>6 DEF at
<1>4. Max(T) \in T /\ \A j \in T : Max(T) >= j
  <2> HIDE DEF T
  <2>1. QED
    BY <1>1, <1>2, LargestOf
<1>5. format_csi_tool_into(p, cap)
         = [kind |-> "EspCsiTool", announced |-> n, samples |-> Max(T)]
  BY DEF format_csi_tool_into
<1> DEFINE most == Max(T)
<1>6. most \in 0..n /\ (LinesFit => most = n)
  <2>1. most \in 0..n
    BY <1>4
  <2> HIDE DEF T
  <2>2. LinesFit => most >= n
    BY <1>3, <1>4
  <2>3. QED
    BY <1>1, <2>1, <2>2
<1> HIDE DEF most, n
<1>7. [kind |-> "EspCsiTool", announced |-> n, samples |-> most] \in Rows
  BY <1>1, <1>6 DEF Rows, Modes
<1>8. QED
  BY <1>5, <1>6, <1>7 DEF most

LEMMA RowIs ==
    ASSUME NEW m \in Modes, NEW p \in Packets, log.cap \in EmitCaps
    PROVE  Row(m, p) \in Rows /\ (LinesFit => Row(m, p).samples = Row(m, p).announced)
<1>1. CASE m = "EspCsiTool"
  BY <1>1, ToolRow DEF Row
<1>2. CASE m # "EspCsiTool"
  BY <1>2, PacketOf DEF Row, Rows
<1>3. QED
  BY <1>1, <1>2

\* The flushes of a text body are a number, whatever the elements and the buffer.
LEMMA FlushesType == ASSUME NEW p \in Packets PROVE Flushes(p) \in Nat
<1> DEFINE n == Len(p.data)
           width(i) == write_i8_sep(p.data[i]) + (IF i = n THEN -1 ELSE 1)
           V == [offset : Nat, flushed : Nat]
           Fill(i, before) ==
              IF before.offset + width(i) > Buffer
              THEN [offset |-> width(i), flushed |-> before.flushed + 1]
              ELSE [before EXCEPT !.offset = @ + width(i)]
           base == [offset |-> 0, flushed |-> 0]
           step == [x \in (1..n) \X V |-> Fill(x[1], x[2])]
           Filled(f) == f = [i \in 0..n |-> IF i = 0 THEN base ELSE Fill(i, f[i - 1])]
           fill == CHOOSE f : Filled(f)
<1>1. n \in Nat /\ Buffer \in Nat /\ base \in V
  BY PacketOf, LogAssumption
<1>2. \A i \in 1..n : width(i) \in Nat
  BY SampleOf
<1>3. ASSUME NEW i \in 1..n, NEW v \in V PROVE Fill(i, v) \in V
  <2> DEFINE w == width(i)
  <2>1. w \in Nat
    BY <1>2
  <2> HIDE DEF w
  <2>2. [offset |-> w, flushed |-> v.flushed + 1] \in V
    BY <2>1
  <2>3. [v EXCEPT !.offset = @ + w] \in V
    BY <2>1
  <2>4. QED
    BY <2>2, <2>3 DEF w
<1> HIDE DEF width, V, Fill, n, base
<1>4. step \in [(1..n) \X V -> V]
  <2>1. ASSUME NEW x \in (1..n) \X V PROVE Fill(x[1], x[2]) \in V
    <3>1. x[1] \in 1..n /\ x[2] \in V
      OBVIOUS
    <3>2. QED
      BY <1>3, <3>1
  <2>2. QED
    BY <2>1
<1>5. ASSUME NEW i \in 1..n, NEW v \in V PROVE step[<<i, v>>] = Fill(i, v)
  <2> DEFINE x == <<i, v>>
  <2>1. x \in (1..n) \X V /\ x[1] = i /\ x[2] = v
    OBVIOUS
  <2> HIDE DEF x
  <2>2. step[x] = Fill(x[1], x[2])
    BY <2>1
  <2>3. QED
    BY <2>1, <2>2 DEF x
<1> HIDE DEF step
<1>6. PICK g \in [0..n -> V] : Follows(g, n, base, step)
  BY <1>1, <1>4, Recursion
<1>7. ASSUME NEW i \in 0..n PROVE g[i] = IF i = 0 THEN base ELSE Fill(i, g[i - 1])
  <2>1. CASE i = 0
    BY <1>6, <2>1 DEF Follows
  <2>2. CASE i # 0
    <3>1. i \in 1..n /\ i - 1 \in 0..n /\ g[i - 1] \in V
      BY <1>1, <2>2
    <3>2. QED
      BY <1>5, <1>6, <2>2, <3>1 DEF Follows
  <2>3. QED
    BY <2>1, <2>2
<1>8. Filled(g)
  BY <1>7
<1>9. Filled(fill)
  <2> HIDE DEF Filled
  <2>1. QED
    BY <1>8
<1> HIDE DEF fill
<1>10. \A i \in 0..n : fill[i] = IF i = 0 THEN base ELSE Fill(i, fill[i - 1])
  BY <1>9
<1> HIDE DEF Filled
<1> DEFINE G == {i \in Nat : i <= n => fill[i] \in V}
<1>11. 0 \in G
  BY <1>1, <1>10
<1>12. ASSUME NEW i \in Nat, i \in G PROVE i + 1 \in G
  <2>1. CASE i + 1 <= n
    <3>1. i + 1 \in 1..n /\ i + 1 \in 0..n /\ i + 1 # 0 /\ i + 1 - 1 = i /\ fill[i] \in V
      BY <1>1, <1>12, <2>1
    <3>2. fill[i + 1] = Fill(i + 1, fill[i])
      BY <1>10, <3>1
    <3>3. QED
      BY <1>3, <3>1, <3>2
  <2>2. CASE ~(i + 1 <= n)
    BY <2>2
  <2>3. QED
    BY <2>1, <2>2
<1>13. fill[n] \in V
  <2> HIDE DEF G
  <2>1. n \in G
    BY <1>1, <1>11, <1>12, ByOnes
  <2>2. QED
    BY <1>1, <2>1 DEF G
<1>14. fill[n].flushed \in Nat
  BY <1>13 DEF V
<1>15. Flushes(p) = fill[n].flushed + (IF n = 0 THEN 0 ELSE 1)
  BY DEF Flushes, fill, Filled, Fill, base, width, n
<1>16. QED
  BY <1>1, <1>14, <1>15

LEMMA WritesType == ASSUME NEW m, NEW p \in Packets PROVE Writes(m, p) \in Nat \ {0}
  BY FlushesType DEF Writes

-----------------------------------------------------------------------------
(***************************************************************************)
(* What is in the backend's hands: a packet of the queue, or a row that is *)
(* whole whenever the lines of the packets fit the buffer.                 *)
(***************************************************************************)
Idle == {"none", "select", "drain", "drained", "message", "flush"}

InHandType ==
    backend \in [at : Idle] \cup [at : {"header"}, packet : Packets]
                \cup [at : {"record"}, row : Rows, left : Nat \ {0}, begun : BOOLEAN]

HandsWhole ==
    LinesFit =>
        /\ wire.whole
        /\ backend.at = "record" => backend.row.samples = backend.row.announced

\* Only the backend leaves a line open between two steps, and it is the line of the
\* record in its hands.
OneLine ==
    /\ ~wire.mixed
    /\ wire.rest = "begun" => backend.at = "record" /\ backend.begun

HandsInv == InHandType /\ HandsWhole /\ OneLine

LEMMA WriteHands ==
    ASSUME NEW m \in Modes, NEW p \in Packets, log.cap \in EmitCaps, Write(m, p)
    PROVE  /\ InHandType'
           /\ LinesFit /\ backend'.at = "record"
                 => backend'.row.samples = backend'.row.announced
<1>1. CASE backend' = Drain
  BY <1>1 DEF Drain, InHandType, Idle
<1>2. CASE backend' = [at |-> "record", row |-> Row(m, p), left |-> Writes(m, p),
                       begun |-> FALSE]
  <2>1. /\ Row(m, p) \in Rows /\ Writes(m, p) \in Nat \ {0}
        /\ LinesFit => Row(m, p).samples = Row(m, p).announced
    BY RowIs, WritesType
  <2>2. InHandType'
    BY <1>2, <2>1 DEF InHandType
  <2>3. backend'.row = Row(m, p)
    BY <1>2
  <2>4. QED
    BY <2>1, <2>2, <2>3
<1>3. QED
  BY <1>1, <1>2 DEF Write, Record

\* The line of the record, once it is started, is the only one.
LEMMA LineOnly ==
    ASSUME LogInv, OneLine, backend.at = "record"
    PROVE  /\ LineOfRecord \in Wires /\ LineOfRecord.heads = wire.heads
           /\ (wire.whole => LineOfRecord.whole)
           /\ ~LineOfRecord.mixed
<1>1. wire \in Wires /\ backend.row.kind \in Modes
  BY DEF LogInv, Typed
<1>2. CASE backend.begun
  BY <1>1, <1>2 DEF LineOfRecord, OneLine
<1>3. CASE ~backend.begun
  BY <1>1, <1>3, StartedRowTypes DEF LineOfRecord, OneLine
<1>4. QED
  BY <1>2, <1>3

LEMMA HandsStep ==
    ASSUME LogInv, HandsInv, [Next]_vars
    PROVE  HandsInv'
<1>1. /\ wire \in Wires /\ log \in Statics /\ log.mode \in Modes /\ log.cap \in EmitCaps
      /\ csi \in Seq(Packets) /\ "EspCsiTool" \in Modes /\ ~wire.mixed
  BY DEF LogInv, Typed, Statics, Modes, HandsInv, OneLine
<1>2. ASSUME wire.whole => wire'.whole, ~wire'.mixed, wire'.rest = wire.rest,
             backend' = backend
      PROVE  HandsInv'
  BY <1>2 DEF HandsInv, InHandType, HandsWhole, OneLine
<1>3. ASSUME wire.whole => wire'.whole, ~wire'.mixed, wire'.rest # "begun",
             backend' \in [at : Idle]
      PROVE  HandsInv'
  <2>1. InHandType' /\ backend'.at # "record"
    BY <1>3 DEF InHandType, Idle
  <2>2. QED
    BY <1>3, <2>1 DEF HandsInv, HandsWhole, OneLine
<1>4. CASE Call \/ ChooseBackend \/ ForgetHeader \/ UNCHANGED vars
  <2>1. backend' = backend
    BY <1>4 DEF Call, init_logger, set_log_mode, set_csi_tool_emit_cap, log_ln,
       reset_global_log_drops, Plug, ChooseBackend, ForgetHeader, vars
  <2>2. wire' = wire \/ wire' = [wire EXCEPT !.heads = 0]
    BY <1>4 DEF Call, init_logger, set_log_mode, set_csi_tool_emit_cap, log_ln,
       reset_global_log_drops, Plug, ChooseBackend, ForgetHeader, vars
  <2>3. (wire.whole => wire'.whole) /\ ~wire'.mixed /\ wire'.rest = wire.rest
    BY <1>1, <2>2 DEF Wires
  <2>4. QED
    BY <1>2, <2>1, <2>3
<1>5. CASE SpawnBackend \/ DrainTexts \/ ReceiveText
  <2>1. wire' = wire /\ backend.at # "record"
    BY <1>5 DEF SpawnBackend, DrainTexts, ReceiveText, LogInv, Phases
  <2>2. backend' \in [at : Idle]
    BY <1>5 DEF SpawnBackend, DrainTexts, ReceiveText, Select, Drain, Idle
  <2>3. QED
    BY <1>1, <1>3, <2>1, <2>2 DEF HandsInv, OneLine
<1>6. ASSUME NEW p \in Packets, log_csi_async(p) \/ log_csi_early(p) PROVE HandsInv'
  BY <1>1, <1>2, <1>6 DEF log_csi_async, log_csi_early
<1>7. ASSUME NEW p \in Packets, log_csi_sync(p) PROVE HandsInv'
  <2>1. backend' = backend /\ backend.at # "record" /\ wire.rest # "begun"
    BY <1>7 DEF log_csi_sync, LogInv, Phases, HandsInv, OneLine
  <2>2. CASE wire' = wire
    BY <1>1, <1>2, <2>1, <2>2
  <2>3. ASSUME NEW w \in Wires, w.rest # "begun", wire' = WithRow(w, Row(log.mode, p))
        PROVE  HandsInv'
    <3>1. LinesFit => Row(log.mode, p).samples = Row(log.mode, p).announced
      BY <1>1, RowIs
    <3>2. (LinesFit => wire'.whole) /\ ~wire'.mixed /\ wire'.rest = "none"
      BY <1>1, <2>3, <3>1, RowKind, WithRowTypes
    <3>3. QED
      BY <2>1, <3>2 DEF HandsInv, InHandType, HandsWhole, OneLine
  <2>4. WithHeader(Begun(wire)) \in Wires /\ WithHeader(Begun(wire)).rest = "none"
    BY <1>1, HeaderTypes
  <2>5. QED
    BY <1>1, <1>7, <2>1, <2>2, <2>3, <2>4 DEF log_csi_sync
<1>8. CASE ReceivePacket
  <2>1. Head(csi) \in Packets /\ wire.rest # "begun"
    BY <1>1, <1>8 DEF ReceivePacket, HandsInv, OneLine
  <2>2. CASE log.mode = "EspCsiTool" /\ ~log.header
    <3>1. backend' = [at |-> "header", packet |-> Head(csi)] /\ wire' = Begun(wire)
      BY <1>8, <2>2 DEF ReceivePacket
    <3>2. /\ InHandType' /\ backend'.at = "header" /\ (wire.whole => wire'.whole)
          /\ ~wire'.mixed /\ wire'.rest # "begun"
      BY <1>1, <2>1, <3>1, HeaderTypes DEF InHandType
    <3>3. QED
      BY <3>2 DEF HandsInv, HandsWhole, OneLine
  <2>3. CASE ~(log.mode = "EspCsiTool" /\ ~log.header)
    <3>1. Write(log.mode, Head(csi)) /\ wire' = wire
      BY <1>8, <2>3 DEF ReceivePacket
    <3>2. QED
      BY <1>1, <2>1, <3>1, WriteHands DEF HandsInv, HandsWhole, OneLine
  <2>4. QED
    BY <2>2, <2>3
<1>9. CASE WriteHeader
  <2>1. backend.packet \in Packets /\ backend.at # "record"
    BY <1>9 DEF WriteHeader, HandsInv, InHandType, Idle
  <2>2. wire' = WithHeader(wire) /\ Write("EspCsiTool", backend.packet)
    BY <1>9 DEF WriteHeader
  <2>3. (wire.whole => wire'.whole) /\ ~wire'.mixed /\ wire'.rest = "none"
    BY <1>1, <2>1, <2>2, HeaderTypes DEF HandsInv, OneLine
  <2>4. QED
    BY <1>1, <2>1, <2>2, <2>3, WriteHands DEF HandsInv, HandsWhole, OneLine
<1>10. CASE WriteRecord
  <2>1. /\ backend.at = "record"
        /\ backend \in [at : {"record"}, row : Rows, left : Nat \ {0}, begun : BOOLEAN]
    BY <1>10 DEF WriteRecord, HandsInv, InHandType, Idle
  <2>2. /\ LineOfRecord \in Wires /\ (wire.whole => LineOfRecord.whole)
        /\ ~LineOfRecord.mixed
    BY <2>1, LineOnly DEF HandsInv
  <2>3. CASE backend.left > 1
    <3>1. /\ wire' = LineOfRecord
          /\ backend' = [backend EXCEPT !.left = @ - 1, !.begun = TRUE]
      BY <1>10, <2>3 DEF WriteRecord
    <3>2. /\ backend' \in [at : {"record"}, row : Rows, left : Nat \ {0}, begun : BOOLEAN]
          /\ backend'.row = backend.row /\ backend'.at = "record" /\ backend'.begun
      <4>1. /\ backend' = [at |-> "record", row |-> backend.row, left |-> backend.left - 1,
                            begun |-> TRUE]
            /\ backend.row \in Rows
        BY <2>1, <3>1
      <4>2. backend.left - 1 \in Nat \ {0}
        BY <2>1, <2>3
      <4>3. QED
        BY <4>1, <4>2
    <3>3. QED
      BY <2>1, <2>2, <3>1, <3>2 DEF HandsInv, InHandType, HandsWhole, OneLine
  <2>4. CASE ~(backend.left > 1)
    <3>1. wire' = EndedRow(LineOfRecord, backend.row) /\ backend' = Drain
      BY <1>10, <2>4 DEF WriteRecord
    <3>2. InHandType' /\ backend'.at # "record"
      BY <3>1 DEF InHandType, Drain, Idle
    <3>3. (LinesFit => wire'.whole) /\ ~wire'.mixed /\ wire'.rest = "none"
      BY <2>1, <2>2, <3>1, EndedRowTypes DEF HandsInv, HandsWhole
    <3>4. QED
      BY <3>2, <3>3 DEF HandsInv, HandsWhole, OneLine
  <2>5. QED
    BY <2>3, <2>4
<1>11. CASE Fail
  <2>1. backend' \in [at : Idle] /\ InHand
    BY <1>11 DEF Fail, Drain, Idle
  <2>2. (wire.whole => wire'.whole) /\ ~wire'.mixed /\ wire'.rest # "begun"
    <3>1. CASE backend.at = "header"
      <4>1. PICK w \in Torn(wire, Started(wire)) : wire' = [w EXCEPT !.last = "failed"]
        BY <1>11, <3>1 DEF Fail
      <4>2. wire.rest # "begun"
        BY <3>1 DEF HandsInv, OneLine
      <4>3. w \in Wires /\ (wire.whole => w.whole) /\ ~w.mixed /\ w.rest # "begun"
        BY <1>1, <4>2, StartedTypes, EndedTypes, TornTypes
      <4>4. QED
        BY <4>1, <4>3 DEF Wires
    <3>2. CASE backend.at = "record" /\ ~backend.begun
      <4>1. wire' \in Torn(wire, LineOfRecord)
        BY <1>11, <3>2 DEF Fail, LineOfRecord
      <4>2. wire.rest # "begun"
        BY <3>2 DEF HandsInv, OneLine
      <4>3. LineOfRecord \in Wires /\ (wire.whole => LineOfRecord.whole) /\ ~LineOfRecord.mixed
        BY <3>2, LineOnly DEF HandsInv
      <4>4. LineOfRecord.heads = wire.heads
        BY <3>2, LineOnly DEF HandsInv
      <4>5. QED
        BY <1>1, <4>1, <4>2, <4>3, <4>4, TornTypes
    <3>3. CASE backend.at = "record" /\ backend.begun
      <4>1. wire' = [wire EXCEPT !.rest = "failed"]
        BY <1>11, <3>3 DEF Fail
      <4>2. QED
        BY <1>1, <4>1 DEF Wires
    <3>4. QED
      BY <2>1, <3>1, <3>2, <3>3 DEF InHand
  <2>3. QED
    BY <1>3, <2>1, <2>2
<1>12. CASE WriteText
  <2>1. backend' \in [at : Idle] /\ backend.at # "record"
    BY <1>12 DEF WriteText, Select, Drain, Idle
  <2>2. wire.rest # "begun"
    BY <2>1 DEF HandsInv, OneLine
  <2>3. \/ wire' = Ended(Started(wire)) \/ wire' \in Torn(wire, Started(wire))
        \/ wire' = wire
    BY <1>12 DEF WriteText
  <2>4. (wire.whole => wire'.whole) /\ ~wire'.mixed /\ wire'.rest # "begun"
    BY <1>1, <2>2, <2>3, StartedTypes, EndedTypes, TornTypes
  <2>5. QED
    BY <1>3, <2>1, <2>4
<1>13. QED
  BY <1>4, <1>5, <1>6, <1>7, <1>8, <1>9, <1>10, <1>11, <1>12 DEF Next, Continue, Radio,
     logger_backend

LEMMA HandsInit == Init => HandsInv
  BY DEF Init, Nobody, HandsInv, InHandType, HandsWhole, OneLine, Idle

LEMMA HandsHold == Spec => [](LogInv /\ HandsInv)
<1>1. Init => LogInv /\ HandsInv
  BY InitInv, HandsInit
<1>2. LogInv /\ HandsInv /\ [Next]_vars => (LogInv /\ HandsInv)'
  BY StepInv, HandsStep
<1>3. QED
  BY <1>1, <1>2, PTL DEF Spec

\* A row written to its end has as many samples as it announces on both paths, with or
\* without a cap, and no other line comes into it, whatever writes fail, if
\* no packet's line is longer than the buffer at five bytes a sample, which is what
\* the source sizes its buffer for.
THEOREM WholeRows == ASSUME LinesFit PROVE Spec => []RowsAreWhole
<1>1. LogInv /\ HandsInv => RowsAreWhole
  BY DEF HandsInv, HandsWhole, OneLine, RowsAreWhole
<1>2. QED
  BY <1>1, HandsHold, PTL

-----------------------------------------------------------------------------
\* The types that the invariants above leave out.
Counts == 0..(DropMod - 1)

Bounds ==
    /\ build \in Builds /\ host \in BOOLEAN
    /\ Len(csi) <= QueueCap /\ texts \in 0..TextCap /\ drops \in Counts
    /\ tally \in [owed : Counts, early : Counts]

LEMMA BoundsStep == ASSUME LogInv, Bounds, [Next]_vars PROVE Bounds'
<1> USE DEF Bounds
<1>1. /\ QueueCap \in Nat \ {0} /\ TextCap \in Nat \ {0} /\ DropMod \in Nat \ {0}
      /\ csi \in Seq(Packets) /\ Len(csi) \in Nat
  BY LogAssumption DEF LogInv, Typed
<1>2. /\ \A n \in Counts : More(n) \in Counts
      /\ \A n \in Int : n % DropMod \in Counts
      /\ 0 \in Counts /\ Counts \subseteq Int
  BY <1>1 DEF More, Counts
<1>3. csi # << >> => Len(Tail(csi)) <= QueueCap
  BY <1>1
<1>4. UNCHANGED build
  BY DEF Next, Call, Continue, Radio, logger_backend, init_logger, set_log_mode,
     set_csi_tool_emit_cap, log_ln, reset_global_log_drops, Plug, ChooseBackend,
     SpawnBackend, ForgetHeader, log_csi_async, log_csi_early, log_csi_sync, ReceivePacket, WriteHeader,
     WriteRecord, Fail, DrainTexts, ReceiveText, WriteText, vars
<1>5. host' \in BOOLEAN
  <2>1. host' = host \/ host' = ~host
    BY Zenon DEF Next, Call, Continue, Radio, logger_backend, init_logger, set_log_mode,
       set_csi_tool_emit_cap, log_ln, reset_global_log_drops, Plug, ChooseBackend,
       SpawnBackend, ForgetHeader, log_csi_async, log_csi_early, log_csi_sync, ReceivePacket,
       WriteHeader, WriteRecord, Fail, DrainTexts, ReceiveText, WriteText, vars
  <2>2. QED
    BY <2>1, Zenon
<1>6. Len(csi') <= QueueCap
  <2>1. csi' = csi \/ (csi # << >> /\ csi' = Tail(csi))
        \/ \E p \in Packets : Len(csi) < QueueCap /\ csi' = Append(csi, p)
    BY DEF Next, Call, Continue, Radio, logger_backend, init_logger, set_log_mode,
       set_csi_tool_emit_cap, log_ln, reset_global_log_drops, Plug, ChooseBackend,
       SpawnBackend, ForgetHeader, log_csi_async, try_send, log_csi_early, log_csi_sync, ReceivePacket,
       WriteHeader, WriteRecord, Fail, DrainTexts, ReceiveText, WriteText, vars
  <2>2. \A p \in Packets : Len(Append(csi, p)) = Len(csi) + 1
    BY <1>1
  <2>3. QED
    BY <1>1, <1>3, <2>1, <2>2
<1>7. texts' \in 0..TextCap
  <2>1. texts' = texts \/ (texts < TextCap /\ texts' = texts + 1)
        \/ (texts > 0 /\ texts' = texts - 1)
    BY DEF Next, Call, Continue, Radio, logger_backend, init_logger, set_log_mode,
       set_csi_tool_emit_cap, log_ln, reset_global_log_drops, Plug, ChooseBackend,
       SpawnBackend, ForgetHeader, log_csi_async, log_csi_early, log_csi_sync, ReceivePacket,
       WriteHeader, WriteRecord, Fail, DrainTexts, ReceiveText, WriteText, vars
  <2>2. QED
    BY <1>1, <2>1
<1>8. drops' \in Counts
  <2>1. drops' \in {drops, 0, More(drops)}
    BY DEF Next, Call, Continue, Radio, logger_backend, init_logger, set_log_mode,
       set_csi_tool_emit_cap, log_ln, reset_global_log_drops, Plug, ChooseBackend,
       SpawnBackend, ForgetHeader, log_csi_async, try_send, log_csi_early, log_csi_sync, ReceivePacket,
       Write, record_log_drop, WriteHeader, WriteRecord, Fail, DrainTexts, ReceiveText,
       WriteText, vars
  <2>2. QED
    BY <1>1, <1>2, <2>1
<1>9. tally' \in [owed : Counts, early : Counts]
  <2>1. ASSUME NEW n \in Int PROVE Owe(n) \in [owed : Counts, early : Counts]
    <3>1. Owe(n) = [owed |-> (tally.owed + n) % DropMod, early |-> tally.early]
      BY DEF Owe, Bounds
    <3>2. tally.owed + n \in Int /\ tally.early \in Counts
      <4>1. tally.owed \in Counts /\ tally.early \in Counts
        OBVIOUS
      <4>2. tally.owed \in Int
        BY <1>2, <4>1
      <4>3. QED
        BY <2>1, <4>1, <4>2
    <3>3. (tally.owed + n) % DropMod \in Counts
      BY <1>2, <3>2
    <3>4. QED
      BY <3>1, <3>2, <3>3
  <2>2. \/ tally' = tally \/ \E n \in {1, -1, -drops} : tally' = Owe(n)
        \/ tally' = [Owe(1) EXCEPT !.early = More(@)]
    BY DEF Next, Call, Continue, Radio, logger_backend, init_logger, set_log_mode,
       set_csi_tool_emit_cap, log_ln, reset_global_log_drops, Plug, ChooseBackend,
       SpawnBackend, ForgetHeader, log_csi_async, log_csi_early, log_csi_sync,
       ReceivePacket, WriteHeader, WriteRecord, Fail, DrainTexts, ReceiveText, WriteText,
       vars
  <2>3. -drops \in Int /\ 1 \in Int /\ -1 \in Int
    BY <1>2
  <2>4. [Owe(1) EXCEPT !.early = More(@)] \in [owed : Counts, early : Counts]
    BY <1>2, <2>1, <2>3
  <2>5. QED
    BY <2>1, <2>2, <2>3, <2>4
<1>10. QED
  BY <1>4, <1>5, <1>6, <1>7, <1>8, <1>9

LEMMA BoundsInit == Init => Bounds
<1>1. Init => host \in BOOLEAN /\ build \in Builds
  BY Zenon DEF Init
<1>2. QED
  BY <1>1, LogAssumption DEF Init, Bounds, Counts

\* Every variable keeps its type, so the queues stay within their capacities and what
\* the formatters compute for a packet is a row and a number of writes.
THEOREM LogTypes == Spec => []TypeOK
<1>1. Init => Bounds
  BY BoundsInit
<1>2. LogInv /\ Bounds /\ [Next]_vars => Bounds'
  BY BoundsStep
<1>3. LogInv /\ HandsInv /\ Bounds => TypeOK
  BY DEF LogInv, Typed, HandsInv, InHandType, Idle, Bounds, Counts, Statics, Wires, TypeOK
<1>4. QED
  BY <1>1, <1>2, <1>3, HandsHold, PTL DEF Spec

-----------------------------------------------------------------------------
(***************************************************************************)
(* The account of the packets.  The counters wrap, so it is kept modulo    *)
(* DropMod.                                                                *)
(***************************************************************************)
LEMMA Divides ==
    ASSUME NEW a \in Int
    PROVE  a % DropMod \in 0..(DropMod - 1) /\ \E q \in Int : a = DropMod * q + (a % DropMod)
<1>1. a % DropMod \in 0..(DropMod - 1)
  BY LogAssumption
<1>2. a \div DropMod \in Int /\ a = DropMod * (a \div DropMod) + (a % DropMod)
  BY LogAssumption
<1>3. QED
  BY <1>1, <1>2

LEMMA Apart ==
    ASSUME NEW q \in Int, NEW p \in Int, NEW r \in 0..(DropMod - 1), NEW s \in 0..(DropMod - 1),
           DropMod * q + r = DropMod * p + s
    PROVE  r = s
<1>1. DropMod * q \in Int /\ DropMod * p \in Int /\ r \in Int /\ s \in Int
  BY LogAssumption
<1>2. CASE q = p
  BY <1>1, <1>2
<1>3. ASSUME NEW x \in Int, NEW y \in Int, y >= x + 1 PROVE DropMod * y >= DropMod * x + DropMod
  <2>1. DropMod * y >= DropMod * (x + 1)
    BY <1>3, LogAssumption
  <2>2. DropMod * (x + 1) = DropMod * x + DropMod
    BY LogAssumption
  <2>3. QED
    BY <2>1, <2>2
<1>4. CASE p >= q + 1
  <2>1. DropMod * p >= DropMod * q + DropMod
    BY <1>3, <1>4
  <2>2. QED
    BY <1>1, <2>1, LogAssumption
<1>5. CASE q >= p + 1
  <2>1. DropMod * q >= DropMod * p + DropMod
    BY <1>3, <1>5
  <2>2. QED
    BY <1>1, <2>1, LogAssumption
<1>6. QED
  BY <1>2, <1>4, <1>5

\* A sum may be reduced at any place.
LEMMA Plus ==
    ASSUME NEW a \in Int, NEW b \in Int
    PROVE  ((a % DropMod) + b) % DropMod = (a + b) % DropMod
<1> DEFINE r == a % DropMod
           s == ((a % DropMod) + b) % DropMod
           u == (a + b) % DropMod
<1>1. PICK q \in Int : a = DropMod * q + r
  BY Divides
<1>2. r \in 0..(DropMod - 1) /\ s \in 0..(DropMod - 1) /\ u \in 0..(DropMod - 1)
  BY Divides
<1>3. PICK p \in Int : r + b = DropMod * p + s
  BY <1>2, Divides
<1>4. PICK t \in Int : a + b = DropMod * t + u
  BY Divides
<1> HIDE DEF r, s, u
<1>5. DropMod * (q + p) = DropMod * q + DropMod * p /\ DropMod * q \in Int /\ DropMod * p \in Int /\ DropMod * t \in Int
  BY LogAssumption
<1>6. DropMod * (q + p) + s = DropMod * t + u
  BY <1>1, <1>2, <1>3, <1>4, <1>5
<1>7. s = u
  BY <1>2, <1>6, Apart
<1>8. QED
  BY <1>7 DEF s, u

Hand == IF InHand THEN 1 ELSE 0

Account == drops + Len(csi) + Hand + tally.early

\* A number below DropMod is its own remainder.
LEMMA Small == ASSUME NEW a \in 0..(DropMod - 1) PROVE a % DropMod = a
<1>1. PICK q \in Int : a = DropMod * q + (a % DropMod)
  BY Divides
<1>2. a % DropMod \in 0..(DropMod - 1)
  BY Divides
<1>3. DropMod * 0 + a = DropMod * q + (a % DropMod)
  BY <1>1, LogAssumption
<1>4. QED
  BY <1>2, <1>3, Apart

\* What a step must do to the account: n more packets owed are n more accounted for.
\* Before they wrap, the counters are c and e.
LEMMA Balance ==
    ASSUME NothingLostUncounted, Bounds, csi \in Seq(Packets), csi' \in Seq(Packets),
           NEW n \in Int, NEW c \in Int, NEW e \in Int,
           tally'.owed = (tally.owed + n) % DropMod \/ (n = 0 /\ tally'.owed = tally.owed),
           drops' = c \/ drops' = c % DropMod,
           tally'.early = e \/ tally'.early = e % DropMod,
           c + Len(csi') + Hand' + e = Account + n,
           build' = build
    PROVE  NothingLostUncounted'
<1> SUFFICES ASSUME build # "blocking" PROVE tally'.owed = (Account') % DropMod
  BY DEF NothingLostUncounted, Account, Hand
<1>1. /\ Len(csi) \in Nat /\ Len(csi') \in Nat /\ Hand \in {0, 1} /\ Hand' \in {0, 1}
      /\ Counts \subseteq Int
      /\ drops \in Int /\ tally.early \in Int /\ tally.owed \in Int
      /\ tally.owed \in 0..(DropMod - 1)
  BY LogAssumption DEF Bounds, Counts, Hand
<1>2. Account \in Int
  BY <1>1 DEF Account
<1>3. tally.owed = Account % DropMod
  BY DEF NothingLostUncounted, Account, Hand
<1>4. tally'.owed = (Account + n) % DropMod
  <2>1. tally'.owed = (tally.owed + n) % DropMod
    BY <1>1, Small
  <2>2. QED
    BY <1>2, <1>3, <2>1, Plus
<1> DEFINE L == Len(csi')
           h == Hand'
           d == drops'
           g == tally'.early
<1>5. /\ L \in Int /\ h \in Int /\ c % DropMod \in Int /\ e % DropMod \in Int
      /\ (d = c \/ d = c % DropMod) /\ (g = e \/ g = e % DropMod)
  <2>1. \A a \in Int : a % DropMod \in 0..(DropMod - 1)
    BY Divides
  <2>2. \A a \in Int : a % DropMod \in Int
    BY <2>1, LogAssumption
  <2>3. L \in Int /\ h \in Int
    BY <1>1
  <2>4. (d = c \/ d = c % DropMod) /\ (g = e \/ g = e % DropMod)
    OBVIOUS
  <2>5. QED
    BY <2>2, <2>3, <2>4
<1>6. Account' = d + L + h + g /\ c + L + h + e = Account + n
  BY DEF Account
<1> HIDE DEF L, h, d, g
<1>7. d \in Int /\ g \in Int
  BY <1>5
<1>8. (d + (L + h + g)) % DropMod = (c + (L + h + g)) % DropMod
  <2>1. L + h + g \in Int
    BY <1>5, <1>7
  <2>2. CASE d = c
    BY <2>2
  <2>3. CASE d = c % DropMod
    BY <2>1, <2>3, Plus
  <2>4. QED
    BY <1>5, <2>2, <2>3
<1>9. (g + (c + L + h)) % DropMod = (e + (c + L + h)) % DropMod
  <2>1. c + L + h \in Int
    BY <1>5
  <2>2. CASE g = e
    BY <2>2
  <2>3. CASE g = e % DropMod
    BY <2>1, <2>3, Plus
  <2>4. QED
    BY <1>5, <2>2, <2>3
<1>10. /\ d + (L + h + g) = d + L + h + g /\ c + (L + h + g) = g + (c + L + h)
       /\ e + (c + L + h) = c + L + h + e
  BY <1>5, <1>7
<1>11. QED
  BY <1>4, <1>6, <1>8, <1>9, <1>10

LEMMA AccountStep ==
    ASSUME LogInv, Bounds, NothingLostUncounted, [Next]_vars
    PROVE  NothingLostUncounted'
<1>1. /\ csi \in Seq(Packets) /\ csi' \in Seq(Packets) /\ Len(csi) \in Nat
      /\ drops \in Int /\ tally.early \in Int /\ tally.owed \in Int
      /\ tally \in [owed : Counts, early : Counts]
      /\ Hand \in {0, 1} /\ Account \in Int
  <2>1. csi' \in Seq(Packets)
    BY StepInv DEF LogInv, Typed
  <2>2. Counts \subseteq Int
    BY LogAssumption DEF Counts
  <2>3. QED
    BY <2>1, <2>2 DEF LogInv, Typed, Bounds, Hand, Account
<1>2. build' = build
  BY DEF Next, Call, Continue, Radio, logger_backend, init_logger, set_log_mode,
     set_csi_tool_emit_cap, log_ln, reset_global_log_drops, Plug, ChooseBackend,
     SpawnBackend, ForgetHeader, log_csi_async, log_csi_early, log_csi_sync,
     ReceivePacket, WriteHeader, WriteRecord, Fail, DrainTexts, ReceiveText, WriteText,
     vars
<1>3. \A n \in Int : Owe(n) = [owed |-> (tally.owed + n) % DropMod, early |-> tally.early]
  BY <1>1 DEF Owe
<1>4. ASSUME UNCHANGED <<drops, tally>>, Len(csi') + Hand' = Len(csi) + Hand
      PROVE  NothingLostUncounted'
  <2>1. /\ drops + Len(csi') + Hand' + tally.early = Account + 0
        /\ tally'.owed = tally.owed /\ tally'.early = tally.early /\ drops' = drops
    <3>1. Len(csi') \in Int /\ Hand' \in Int
      BY <1>1 DEF Hand
    <3>2. QED
      BY <1>1, <1>4, <3>1 DEF Account
  <2>2. QED
    BY <1>1, <1>2, <2>1, Balance
\* One packet more is owed, and waits or came too early.
<1>0. ASSUME NEW e \in Int, tally'.owed = (tally.owed + 1) % DropMod,
             tally'.early = e \/ tally'.early = e % DropMod, drops' = drops,
             Len(csi') + Hand' + e = Len(csi) + Hand + tally.early + 1
      PROVE  NothingLostUncounted'
  <2> DEFINE n == 1
             c == drops
  <2>1. /\ n \in Int /\ c \in Int /\ tally'.owed = (tally.owed + n) % DropMod
        /\ drops' = c
    BY <1>0, <1>1
  <2>2. c + Len(csi') + Hand' + e = Account + n
    <3>1. Len(csi') \in Int /\ Hand' \in Int
      BY <1>1 DEF Hand
    <3>2. Account = drops + Len(csi) + Hand + tally.early
      BY DEF Account
    <3>3. Len(csi) \in Int /\ Hand \in Int /\ drops \in Int /\ tally.early \in Int /\ e \in Int
      BY <1>0, <1>1
    <3>4. Len(csi') + Hand' + e = Len(csi) + Hand + tally.early + 1
      BY <1>0
    <3>5. QED
      BY <3>1, <3>2, <3>3, <3>4
  <2> HIDE DEF n, c
  <2>3. QED
    BY <1>0, <1>1, <1>2, <2>1, <2>2, Balance
\* One packet more is owed and counted.
<1>5. ASSUME UNCHANGED csi, tally' = Owe(1), drops' = More(drops), Hand' = Hand
      PROVE  NothingLostUncounted'
  <2>1. tally'.owed = (tally.owed + 1) % DropMod /\ tally'.early = tally.early
    BY <1>3, <1>5
  <2>2. /\ drops' = (drops + 1) % DropMod /\ drops + 1 \in Int
        /\ (drops + 1) + Len(csi') + Hand' + tally.early = Account + 1
    BY <1>1, <1>5 DEF More, Account
  <2>3. QED
    BY <1>1, <1>2, <2>1, <2>2, Balance
\* A packet is given up or written.
<1>6. ASSUME UNCHANGED <<csi, drops>>, tally' = Owe(-1), Hand = 1, Hand' = 0
      PROVE  NothingLostUncounted'
  <2>1. tally'.owed = (tally.owed + (-1)) % DropMod /\ tally'.early = tally.early
    BY <1>3, <1>6
  <2>2. drops + Len(csi') + Hand' + tally.early = Account + (-1)
    BY <1>1, <1>6 DEF Account
  <2>3. QED
    BY <1>1, <1>2, <1>6, <2>1, <2>2, Balance
\* A packet is formatted, or refused and counted.
<1>7. ASSUME NEW m, NEW p, Write(m, p), UNCHANGED tally,
             Len(csi') + 1 = Len(csi) + Hand
      PROVE  NothingLostUncounted'
  <2>1. CASE Refused(m, p)
    <3>1. Hand' = 0 /\ (build = "blocking" \/ drops' = (drops + 1) % DropMod)
      BY <1>7, <2>1 DEF Write, Drain, record_log_drop, More, Hand, InHand
    <3>2. CASE build = "blocking"
      BY <1>2, <3>2 DEF NothingLostUncounted
    <3>3. CASE build # "blocking"
      <4>1. (drops + 1) + Len(csi') + Hand' + tally.early = Account + 0 /\ drops + 1 \in Int
        BY <1>1, <1>7, <3>1 DEF Account
      <4>2. QED
        BY <1>1, <1>2, <1>7, <3>1, <3>3, <4>1, Balance
    <3>4. QED
      BY <3>2, <3>3
  <2>2. CASE ~Refused(m, p)
    <3>1. Hand' = 1 /\ drops' = drops
      BY <1>7, <2>2 DEF Write, Record, Hand, InHand
    <3>2. QED
      BY <1>1, <1>4, <1>7, <3>1
  <2>3. QED
    BY <2>1, <2>2
<1>8. CASE \/ \E m \in Modes : init_logger(m) \/ set_log_mode(m)
          \/ Continue \/ (\E n \in EmitCaps : set_csi_tool_emit_cap(n))
          \/ (\E fits \in BOOLEAN : log_ln(fits)) \/ Plug
          \/ UNCHANGED vars
  <2>1. UNCHANGED <<csi, drops, tally>>
    BY <1>8 DEF init_logger, set_log_mode, set_csi_tool_emit_cap, log_ln, Plug, Continue,
       ChooseBackend, SpawnBackend, ForgetHeader, vars
  <2>2. backend' = backend \/ (backend.at = "none" /\ backend' = Select)
    BY <1>8 DEF init_logger, set_log_mode, set_csi_tool_emit_cap, log_ln, Plug, Continue,
       ChooseBackend, SpawnBackend, ForgetHeader, vars, LogInv, Phases
  <2>3. Hand' = Hand
    BY <2>2 DEF Hand, InHand, Select
  <2>4. QED
    BY <1>4, <2>1, <2>3
<1>9. CASE reset_global_log_drops
  <2>1. tally' = Owe(-drops) /\ drops' = 0 /\ csi' = csi /\ Hand' = Hand /\ -drops \in Int
    BY <1>1, <1>9 DEF reset_global_log_drops, Hand, InHand
  <2>2. tally'.owed = (tally.owed + (-drops)) % DropMod /\ tally'.early = tally.early
    BY <1>3, <2>1
  <2>3. 0 + Len(csi') + Hand' + tally.early = Account + (-drops)
    BY <1>1, <2>1 DEF Account
  <2>4. QED
    BY <1>1, <1>2, <2>1, <2>2, <2>3, Balance
<1>10. ASSUME NEW p \in Packets, log_csi_async(p) PROVE NothingLostUncounted'
  <2>1. tally' = Owe(1) /\ Hand' = Hand
    BY <1>10 DEF log_csi_async, Hand, InHand
  <2>2. CASE Len(csi) < QueueCap
    <3>1. csi' = Append(csi, p) /\ drops' = drops
      BY <1>10, <2>2 DEF log_csi_async, try_send
    <3>2. tally'.owed = (tally.owed + 1) % DropMod /\ tally'.early = tally.early
      BY <1>3, <2>1
    <3>3. Len(csi') = Len(csi) + 1 /\ Len(csi') \in Int /\ Hand' \in Int
      BY <1>1, <2>1, <3>1
    <3>4. QED
      BY <1>0, <1>1, <2>1, <3>1, <3>2, <3>3
  <2>3. CASE ~(Len(csi) < QueueCap)
    BY <1>5, <1>10, <2>1, <2>3 DEF log_csi_async, try_send
  <2>4. QED
    BY <2>2, <2>3
<1>11. ASSUME NEW p \in Packets, log_csi_early(p) PROVE NothingLostUncounted'
  <2>1. /\ tally' = [Owe(1) EXCEPT !.early = More(@)] /\ UNCHANGED <<csi, drops>>
        /\ Hand' = Hand
    BY <1>11 DEF log_csi_early, Hand, InHand
  <2>2. /\ tally'.owed = (tally.owed + 1) % DropMod
        /\ tally'.early = (tally.early + 1) % DropMod
    BY <1>3, <2>1 DEF More
  <2>3. QED
    BY <1>0, <1>1, <2>1, <2>2
<1>12. ASSUME NEW p \in Packets, log_csi_sync(p) PROVE NothingLostUncounted'
  <2>1. Hand' = Hand /\ csi' = csi
    BY <1>12 DEF log_csi_sync, Hand, InHand
  <2>2. CASE build = "blocking"
    BY <1>2, <2>2 DEF NothingLostUncounted
  <2>3. CASE build # "blocking" /\ Refused(log.mode, p)
    BY <1>5, <1>12, <2>1, <2>3 DEF log_csi_sync, record_log_drop
  <2>4. CASE ~Refused(log.mode, p)
    BY <1>4, <1>12, <2>1, <2>4 DEF log_csi_sync
  <2>5. QED
    BY <2>2, <2>3, <2>4
<1>13. CASE ReceivePacket
  <2>1. Hand = 0 /\ tally' = tally /\ Len(csi') + 1 = Len(csi)
    BY <1>1, <1>13 DEF ReceivePacket, Hand, InHand
  <2>2. CASE log.mode = "EspCsiTool" /\ ~log.header
    <3>1. Hand' = 1 /\ drops' = drops
      BY <1>13, <2>2 DEF ReceivePacket, Hand, InHand
    <3>2. QED
      BY <1>1, <1>4, <2>1, <3>1
  <2>3. CASE ~(log.mode = "EspCsiTool" /\ ~log.header)
    BY <1>1, <1>7, <1>13, <2>1, <2>3 DEF ReceivePacket
  <2>4. QED
    BY <2>2, <2>3
<1>14. CASE WriteHeader
  BY <1>1, <1>7, <1>14 DEF WriteHeader, Hand, InHand
<1>15. CASE WriteRecord
  <2>1. CASE backend.left > 1
    <3>1. /\ UNCHANGED <<csi, drops, tally>> /\ backend.at = "record"
          /\ backend' = [backend EXCEPT !.left = @ - 1, !.begun = TRUE]
      BY <1>15, <2>1 DEF WriteRecord
    <3>2. backend = [at |-> "record", row |-> backend.row, left |-> backend.left,
                     begun |-> backend.begun]
      BY <3>1 DEF LogInv, Typed
    <3>3. backend'.at = "record"
      BY <3>1, <3>2
    <3>4. QED
      BY <1>4, <3>1, <3>3 DEF Hand, InHand
  <2>2. CASE ~(backend.left > 1)
    <3>1. UNCHANGED <<csi, drops>> /\ tally' = Owe(-1) /\ Hand = 1 /\ Hand' = 0
      BY <1>15, <2>2 DEF WriteRecord, Drain, Hand, InHand
    <3>2. QED
      BY <1>6, <3>1
  <2>3. QED
    BY <2>1, <2>2
<1>16. CASE Fail
  <2>1. UNCHANGED <<csi, drops>> /\ tally' = Owe(-1) /\ Hand = 1 /\ Hand' = 0
    BY <1>16 DEF Fail, Drain, Hand, InHand
  <2>2. QED
    BY <1>6, <2>1
<1>17. CASE DrainTexts \/ ReceiveText \/ WriteText
  <2>1. UNCHANGED <<csi, drops, tally>> /\ Hand' = 0 /\ Hand = 0
    BY <1>17 DEF DrainTexts, ReceiveText, WriteText, Drain, Select, Hand, InHand
  <2>2. QED
    BY <1>4, <2>1
<1>18. QED
  BY <1>8, <1>9, <1>10, <1>11, <1>12, <1>13, <1>14, <1>15, <1>16, <1>17
     DEF Next, Call, Radio, logger_backend

\* In a build that counts, LOG_DROPPED_PACKETS, the queue and the backend account for
\* every packet that was logged and neither written nor given up with an error of the
\* driver, but for those an async-print build loses before its backend is chosen.
THEOREM LossIsCounted == Spec => []NothingLostUncounted
<1>1. Init => LogInv /\ Bounds /\ NothingLostUncounted
  <2>1. Init => NothingLostUncounted
    <3>1. 0 % DropMod = 0
      BY Small, LogAssumption
    <3>2. QED
      BY <3>1 DEF Init, Nobody, InHand, NothingLostUncounted
  <2>2. QED
    BY <2>1, InitInv, BoundsInit
<1>2. LogInv /\ Bounds /\ NothingLostUncounted /\ [Next]_vars
        => (LogInv /\ Bounds /\ NothingLostUncounted)'
  BY StepInv, BoundsStep, AccountStep
<1>3. QED
  BY <1>1, <1>2, PTL DEF Spec
=============================================================================
