# Verification of esp-csi-rs-core

This directory is a TLA+ development of the CSI engine in `src/`: modules that
model its components, TLC configurations that check them on small instances,
and TLAPS proofs of the properties that matter most, for every value of the
constants. All paths below are relative to `src/src/lib/` unless they say
otherwise.

## 1. The system

`esp-csi-rs-core` is a `no_std` Rust crate that captures Wi-Fi channel state
information (CSI) on Espressif chips. Three kinds of code run concurrently:

* the **Wi-Fi task** of the radio driver. It preempts everything else on its
  core and calls back into the crate: `capture_csi_info` for every measured
  frame, `pool_rcv_cb` for every ESP-NOW frame. It may not block or allocate.
* the **node task**: one embassy task that runs `CSINode::run`. All the work of
  a run (association, DHCP, floods, the ESP-NOW loops, timers) is futures joined
  inside this one task; nothing is spawned.
* **user tasks**, on the executor of the node or on one the user starts on the
  second core. They register callbacks, choose a delivery mode, read packets,
  ask for a stop.

They share statics: the delivery atomics, a bounded queue with a single-slot
waker per direction, one stop signal, and counters.

### Inventory

| component | state | operations | hard behaviour | what makes it correct |
|---|---|---|---|---|
| CSI delivery, `csi/delivery.rs` | `CSI_PUBLISH_ENABLED`, `CSI_INLINE_LOG_ENABLED`, `CSI_OUTPUT_ENABLED`, `CSI_DELIVERY_MODE`, `CSI_CALLBACK`, `CSI_RAW_CALLBACK`, `CSI_QUEUE` (32 packets), `CSI_WAKER`, attribution filter, sequence table | `set_csi_*`, `clear_csi_callback`, `reset`, `next_csi_packet`, `capture_csi_info` | every setter is two to four separate stores, the capture two to six separate loads, on different contexts; queue and waker race | no half-made registration is seen, no withdrawn function runs, a registered one is served, late frames stop, no lost wake-up, FIFO with drop-newest |
| Run control, `node.rs` | `STOP_SIGNAL`, the joined futures, the configuration | `run_inner`, `drive_main`, `stop_after_duration`, `csi_data_collection`, `wait_for_stop`, `reset_globals`, `send_stop` | one value and one waker shared by up to seven futures, each of which takes the value and puts it back | a stop reaches every future and ends at most one run; a stopped run ends, and so does one whose duration is over |
| Station collector, `collector/sta.rs` | controller, link state, DHCP signal, flood pacing | associate with retries, reconnect, DHCP client, ICMP flood | link flaps, attempts that hang or succeed late, stale DHCP information, stalls, a stop between any two awaits | comes back; flood goes to the gateway of the lease and keeps its pace; CSI registered while associated; ends on stop |
| SoftAP collector, `collector/ap.rs` | lease table, `ActiveLeaseRegistry` | DHCP server, station monitor, ping of the leases | pool exhaustion, leases of departed stations, replies without room in the socket | one address per station, which it keeps; what is leased is flooded, and no receiver of a burst is left behind; ends on stop |
| ESP-NOW exchange, `central/esp_now.rs`, `peripheral/esp_now.rs`, `protocol.rs` | known peers; locked central, pending reply, mode streak | control frames, replies, source lock, mode hysteresis, adaptive pacing | frames lost, delayed, from other centrals and from earlier runs; peer table full; sends fail | replies only to the locked central and only when one is owed, mode follows a steady listener |
| ESP-NOW fast mode, `central/esp_now_fast.rs`, `peripheral/esp_now_fast.rs` | settled flag, peer, peer table of the driver | beacon, hello, flood | the hello is sent once; old frames in the pool; peers the driver loses; flat-out flood | only a source that greeted it settles a collector; the source finds a collector; a flood recovers its peer |
| ESP-NOW receive pool, `esp_now_pool.rs` | 16-slot queue, waker | `pool_rcv_cb`, `receive`, `receive_async` | as CSI delivery; frames outlive a run | no lost wake-up, FIFO with drop-newest |
| Emitter, `emitter/` | forced format, transmit loop | bring-up, raw 802.11 injection | a restart drops the forced format; a send that fails, pacing, the stop | on the air in the wanted format whatever ran before; ends on stop |
| Statistics, `stats.rs` and the capture's filter and gap estimate | counters, run start, filter words, table of sequence numbers | count, reset, rate, filter setters | reset in the middle of a capture; a filter of two words and a flag; numbers that wrap and belong to a traffic class each | the counters of a run agree; a settled filter decides; a transmitter with one running count is charged no gap it did not leave |
| Logging, `logging/` | backend choice, two queues, mode, header flag, emit cap, drop counter | `init_logger`, `set_log_mode`, `log_csi`, `log_ln!`, `logger_backend` | full queue, lines that do not fit, a packet between the stores of a mode switch, two queues and one backend | a record is printed, counted as dropped, or given up with an error; a row written to its end is whole and under its header; messages are not starved by packets, and packets are served once the text log is silent |
| Radio helpers and bring-up, `radio.rs`, `espnow_phy.rs`, `run_inner` | driver state: interface, CSI registration, ESP-NOW receiver, forced format | bring-up of every role | what an earlier run left; restarts and associations that clear registrations | a collecting role has CSI, an ESP-NOW role its receiver |
| Pure algorithms: `time.rs`, `csi/mod.rs`, `node.rs` protocol ladder | none | calendar conversion, format tables, protocol ladder | boundaries | equal to a reference definition |

Interactions: `run_inner` starts a role's future and joins it with the
bookkeeping futures; the Wi-Fi task calls `capture_csi_info`, which reads the
delivery atomics, calls the user, fills `CSI_QUEUE` or logs, and counts in
`stats.rs`; `run_process_csi_packet` and `csi_data_collection` read the queue
through `CSINodeClient`; the ESP-NOW loops read the receive pool; every loop
selects on `STOP_SIGNAL`; at the end of a run `run_inner` resets the signal
(`node.rs:1078`) and `reset_globals` closes the delivery gates.

Not modelled and why: `central/sta.rs` and `central/ap.rs` are copies that are
not compiled (`central/mod.rs` re-exports `collector::{ap, sta}`); re-exports,
the error type, the benchmark hooks, the build script and the packaging have no
behaviour of interest. `PROJECT.json` lists every component with its status, and
every hazard at its line with the properties that cover it, or the reason why none
does.

## 2. Modules

| module | models | state and actions |
|---|---|---|
| `CsiDelivery` | `csi/delivery.rs`: setters, `reset`, `next_csi_packet`, `capture_csi_info` | one record `gate` for the atomics; a program counter per executor and one for the Wi-Fi task, whose values name the next store or load; `queue`, `registered`, `woken`, `client` for queue, waker and client task. Each action is one store or load. |
| `CsiChannel` | nothing: the abstract specification | a bounded FIFO channel with one producer, one reader and drop-newest |
| `CsiDeliveryHistory` | nothing: a history variable over `CsiDelivery` | records what the calls made so far entitle the current frame to (`HNext` takes every step of `Next` unchanged) |
| `NodeRun` | the task of a run: `node.rs` `run_inner`, `drive_main` and its companions, the awaits of `collector/`, `emitter/`, `central/`, `peripheral/` | `at` says at which await each future is suspended, `event` whether what it awaits has happened, `stop` is the signal with its waker; `polling` and `pass` walk the futures in the order in which the joins poll them; `Served` are the roles that have futures, the others log a line and return |
| `RunControl` | nothing: the abstract specification | a run that drives a role ends only on a stop, one that drives none may end by itself, a stop ends at most one run |
| `EspNowExchange` | `peripheral/esp_now.rs` with `esp_now_pool.rs`, and what `central/esp_now.rs` sends | `central` says who transmits and how, `pool`, `registered`, `woken`, `radio` are queue, waker and Wi-Fi task, `shared` is `struct Shared`; `pc` walks both forms of the responder's loop (with a transmitter, and receive-only with `receive_async` step by step) |
| `ApFlood` | `collector/ap.rs`: DHCP server, lease registry, `ap_ping_lease`; the multi-destination loops of `collector/sta.rs` | `clients` is the lease table of a run, `leases` the static registry, `dsts` and `next` the flood's targets and its place among them |
| `CsiLog` | `logging/logging.rs` | `user` is where `init_logger` or `set_log_mode` is, `log` its four statics; `csi` and `texts` are the two queues, `drops` the counter; `backend` is the await of `logger_backend` and the packet in its hands. History: `wire` (last line, headers, the rest of a line that was not finished) and `tally` (packets logged and neither written nor given up, those among them that met no path) |
| `RunStats` | `stats.rs`, `run_process_csi_packet`, and of `capture_csi_info` the filter and the gap estimate | `run` is the step of the node task, `stats` the counters, `zeroing` those still to clear; `filter` and `call` the filter words and the setter under way; `chip` says whether there are signal modes and a gap estimate; `cap` is the report being captured. The truth about the channel: `sent`, `seen` and `missed` count a transmitter's frames, `mixed` holds those heard with numbers of another count; `guessed` is what the estimate charged |
| `RadioSetup` | `run_inner` around the role's loop: `sta_init`, `ap_init`, `emitter::bringup`, `set_csi`, the ESP-NOW receiver | `radio` is what the driver holds, from run to run; `step` where `run_inner` is; `role` what this run does. No specification of its own: it is part of `StationLink` |
| `StationLink` | `collector/sta.rs` inside `RadioSetup`: association, `sta_connection`, `run_dhcp_client`, the flood of a gateway | `conn`, `dhcp` and `flood.at` are the awaits of the three futures, `net` the link and the lease, `info` the signal between client and flood; `level` (history) how far the flood is ahead of its rate |
| `EspNowFast` | `central/esp_now_fast.rs`, `peripheral/esp_now_fast.rs`, the pool | one record per node: its role, the await it is at, its partner, whether the driver knows the peer; `pool` outlives the runs; `greeted` (history) who sent a hello to whom |
| `CsiDelivery_proofs` (about `CsiDeliveryHistory` too), `NodeRun_proofs`, `EspNowExchange_proofs`, `EspNowFast_proofs`, `ApFlood_proofs`, `CsiLog_proofs`, `RunStats_proofs`, `StationLink_proofs` | the theorems | see section 5 |
| `MC_*` | instances for TLC | sets of configurations, symmetry |

Correspondence, where it is not one to one:

* **Unserved roles.** `CentralOpMode::WifiStation` and `WifiAccessPoint` and
  `PeripheralOpMode::WifiSniffer` log a line and leave `run_inner` (`node.rs:1037-1042`,
  1069-1074): their run has no future, ends at once, and takes a pending stop with it.
* **Setters.** The stores of one call are separate actions, in the order of the
  code, so that a capture, or a call of the other executor, can fall between
  any two. Calls on one executor never overlap, because none of them awaits.
* **Capture.** Each relaxed load is an action. In `CsiDelivery` the attribution
  filter and the packet build are choices (`Judge`): accepted, or counted as
  dropped. In `RunStats` the filter is modelled load by load, and what the delivery
  gates decide is the choice: the two modules cover the same callback from both
  sides.
* **Waker.** `registered` is set by the client's registration and never cleared:
  embassy's `AtomicWaker::wake` wakes by reference and keeps the waker. `woken` is
  membership in the executor's run queue.
* **Memory order.** Atomics are sequentially consistent. The code uses release
  and acquire pairs on the pointer and the mode; orders weaker than that are
  not modelled.
* **Joins.** A join polls each unfinished future in order, once per wake-up of
  the task. `Turn` picks the next one; `RelayStop`, `Pend`, `Resume` and the
  rest say what its poll does. A select is polled stop first, as in the code.
* **The stop.** Every future that takes the stop puts it back before it
  returns (`STOP_SIGNAL.signal(())`). Both happen within one poll, so they are
  one step.
* **Timers, radio, network.** `Happen` makes what a future awaits come true and
  wakes the task. A DHCP reply additionally needs the network stack's future
  alive, because that future drains the socket.
* **Transient places** (`serve`, `flood`, `refused`, `expire`) are points inside
  one poll at which the future acts on the joins or the signal.
* **The air** (`EspNowExchange`). A frame that is lost is a frame not sent: `Hear` is
  a frame that arrives. Frames of a central that left, or of an earlier run, are
  those still in the pool. A frame of another kind is `Noise`.
* **Peer table.** `register_central_peer` succeeds or fails by choice. A peripheral that
  could not register its central owes a reply but is not connected.
* **The clock.** In `EspNowExchange` a reply becomes due by `Tick`; after a send the next
  deadline may already be past. In `ApFlood` a pass finds any number of ticks
  due, up to the burst cap, and room for any number of frames.
* **Tables.** `ApFlood` keeps the lease table as a function of stations, because the
  slots of the array are filled once each and found by address. `dst_idx` is
  kept modulo the number of destinations, and shares a variable with
  `burst_start`: a run uses one of them.
* **Log lines** (`CsiLog`). A packet is the length of its line before the samples, and
  the samples; what the formatters do with a buffer is computed from these: the
  widths of `write_i8_sep`, the cut of the tool's body, the refusal of an array list,
  the flushes of a text. A driver that fails a write may have put a part on the wire: the
  line is then left without its end (`rest`) and the next one follows on it. Of the two
  builds that count, the async-print one has no inline path, so a packet between the
  opening of the gate and the choice of the backend meets no path at all (`log_csi_early`). Backend and users share an executor, so the backend
  does not run inside a call (`Free`); the Wi-Fi callback falls between any two stores.
* **Sequence numbers** (`RunStats`). A transmitter's frames have a running count; a
  report is of its last frame again, of a later one, or of a frame with a number outside
  the count (`Strays`): of another traffic class, or sent again late.
* **Retained driver state** (`RadioSetup`). `set_config` restarts the interface when its
  mode changes, and a restart clears the CSI registration and a forced format: so say
  the comments at the calls (`node.rs:882-883`, `emitter/mod.rs:202-203`). Whether an
  association costs the registration is a choice (`MayLoseCsi`). The sources of the
  driver are not in the repository.
* **The station** (`StationLink`). An attempt to associate succeeds, fails, hangs, or
  succeeds after its timeout (`AssociateLate`). The lease comes and goes behind the DHCP client,
  which watches only the link: `net.moved` remembers that it did. How a stop
  reaches the futures is `NodeRun`; here `Stop` ends them all, except in the
  unguarded clean-up.
* **Magic** (`EspNowFast`). A frame is its magic and its sender. Beacons and flood both
  carry the central's, pairing by hand uses none.

## 3. Runs

| run | question | instance | result |
|---|---|---|---|
| `delivery` | Is the delivery path a bounded FIFO channel without a lost wake-up, and what does a frame meet that falls into any call? | one executor, two callbacks, capacity 2, three frames, every setter, disabling the log included | holds |
| `delivery_logging` | "A registered `set_csi_callback` keeps the publish gate open independently" | one callback, two frames | disabling the log closes it |
| `node_run` | Does a stop reach everybody and end one run only; does every stopped run end, and every run with a duration? | every configuration of role (unserved ones included), duration, rx, tx, DHCP, rate; frames the driver refuses at once | holds, except for the DHCP server (both) and the flood without a rate (duration) |
| `run_dhcp_reply` | Does a stopped run with the DHCP server end? | access points with the server | it can hang |
| `run_flat_out` | "ends the run after `duration` seconds" | fast sources with a duration and without a rate | it can run for ever |
| `espnow_exchange` | Whom does a peripheral answer, and does it take over collecting? | two centrals that come and go, with or without the magic prefix, collector or listener; peripheral paired automatically or by hand, both directions, receive-only, transmit-only; pool of one frame, hysteresis 3, streak saturating at 4 | holds |
| `ap_flood` | Does every station get its own address and its share of the flood? | three stations, a table of three, pools that fit, saturate at the last host, lie elsewhere, hold one address or none; one wait for a lease, two ticks per pass | holds |
| `csi_log` | Is every packet accounted for, under its header, whole, and does the backend serve both queues? | every build, a host that comes and goes, two packets (one that exactly fits the tool's line and is refused as an array list), queue of two, one message, a counter modulo 3, failing writes | holds |
| `run_stats` | Do the counters of a run agree, does a settled filter decide, are the gaps real? | a chip with signal modes and the esp32c5, two interchangeable transmitters, numbers modulo 4 and a stray one, gaps below 2 counted, a table of one, two runs, three events | holds |
| `station_link` | Is the radio set up for every role after every other, and does the station come back, with its flood on the lease? | three kinds of chip, two gateways, a burst of two, stalls of up to seven intervals; runs of every role without limit | holds |
| `espnow_fast` | Whom does a collector settle on, does a source find it, does a flood recover its peer? | two nodes that swap roles, paired automatically or by hand, a pool of one, a health check at every second pass | holds |
| `fast_hello` | "One magic-tagged hello so the collector deterministically stops beaconing" | as `espnow_fast`, with a flood that is heard | it need not |

Bounds. `MaxFrames` bounds the captures of a behaviour and `QueueCap` the queue.
Two frames are enough for every relation between an earlier and a later frame (a
frame captured before and one after a call); three frames over capacity 2 fill
the queue, overflow it and drain it. The callers are on one executor; what two of them
can do to each other is said below. Two callbacks are needed to tell an old registration from
a new one. In `NodeRun` nothing is bounded: the state is finite and runs follow
each other without limit, so a stop that leaks into a later run is in scope.
In `delivery` users do not set the mode Callback by hand (`ModeArgs`), which
publishes a null function by definition; `CSI_OUTPUT_ENABLED`, which no step of
the capture reads, has one value.
The theorems lift the bounds for the properties they state.

In `espnow_exchange` one place in the pool makes every arrival a possible loss and
leaves a stale frame to the next run; two centrals are what source lock and
hysteresis tell apart; the streak saturates one above the hysteresis, so it is
reached and passed. In `ap_flood` a table of three fills with the addresses of one
configuration before a run with others begins, and three receivers are the
fewest for which a burst can end in front of, between and behind them.

In `csi_log` the buffer of 22 bytes with a tail of 3 makes one packet fill its line to the
last byte and the other exceed it, in one format and not in the other; one
message and two packets fill both queues; the drop counter wraps at three, and what it
stands for is counted modulo the same, as the code's counter and its reader are. In
`run_stats` a table of one overflows at the second
transmitter, numbers that start at two modulo four wrap at the third frame, one stray number
is enough to charge a transmitter with gaps it did not leave (without the exception for
`mixed` TLC refutes the invariant), and the second run starts while the first one's
registration still captures; reports and calls share the bound of three events. In
`station_link` a burst of two and a stall of seven intervals are the least in
which a repaid stall differs from a forgiven one; longer stalls are counted like one of
`MaxDue`, which the assumption keeps above what a pass looks at. In
`espnow_fast` a pool of one is full with a single old frame.

Four disagreements have a run: `delivery_logging`, `run_dhcp_reply`, `run_flat_out` and
`fast_hello`. Others between the repository's comments and its code were met while
modelling, and can be read off the lines given:

* **Delivery.** `csi/delivery.rs:221-222` promises that the callback mode never meets a
  null function; that holds for callers on one executor (`CallbackStoredFirst`), but a
  `clear_csi_callback` (235-238) or `reset` (378-386) on a second executor can store
  its null after another's registration. `reset` is said to make late callbacks
  no-ops (373-377; `node.rs:447-450`) but leaves the raw callback, which runs before
  the gate is looked at (655-663): `LateFramesStopAtGate` names it as the one exception. No step of the
  capture reads `CSI_OUTPUT_ENABLED`, against `node.rs:602-605` and `lib.rs:72-75`.
  The documentation of `next_csi_packet` (413-418) says that it replaces a
  callback; the code, and a comment in it (435-438), leaves an active path alone.
* **Filter.** Two setters on two executors can leave `CSI_FILTER_ACTIVE` false with a
  filter set, and a capture during a call can judge one frame by the words of
  two filters; `SettledFilterDecides` is about captures that overlap no call. The
  documentation of `set_csi_min_sig_mode` (`csi/delivery.rs:326-329`) promises a restriction on every
  chip; on the esp32c5 and esp32c6 the word is never read (355-361), as a comment further
  down says (343-344), and the property keeps the source half alone there.
* **Runs.** `csi/delivery.rs:393-394` says the client's stop ends the node "early"; a
  receiving run with a duration waits the duration out (`node.rs:77-97`). `node.rs:701-703`
  says a run without a duration "runs until externally stopped"; one of an unserved role
  ends at once. A comment there (1033-1036) says that the central Wi-Fi modes "are rejected at
  construction"; nothing rejects them, the run logs a line.
* **Counters.** A report captured after the run's end is still counted
  (`node.rs:705-706` says otherwise). A frame rejected by the signal mode or for
  its length is a drop, and again part of the next gap, since only tracked
  frames move the tracker. The tracker is forgotten only on an output change
  (`csi/delivery.rs:815`): the first frame of a run can count the time between runs as a
  gap. The numbers are "per-transmitter and per-TID" (`csi/delivery.rs:269-271`), yet the tracker
  keeps one per transmitter (713): interleaved traffic classes, or a frame sent again
  after later ones (10, 11, 12, 10, 13), count gaps that nobody missed. `GapsWereMissed`
  promises nothing of such transmitters but that they do not disturb the others. A timed sniffer run stamps the capture start a second time as it ends
  (`node.rs:941`).
* **Log.** "Header line emitted once" (`logging.rs:1119`): inline, a packet that falls
  between the two stores of `set_log_mode` (841-844) brings a header of its own and the
  next packet another; through the backend `BackendHeaderOnce` holds. The second
  probe for a host (787) may differ from the first (742). A failed write is not
  counted; `NothingLostUncounted` counts it as given up with an error, and it leaves a cut
  row that the next line joins (1652, 1668, 1675, 1677). An async-print build loses without a count
  what is logged before its backend is chosen (677, 719-759), and a blocking build counts nothing
  (1848-1855). `Cargo.toml:33` and `Cargo.toml:58-59` (of the repository), and the documentation of
  `init_logger` (711), say `async-print` overrides `auto`; `init_logger` lets `auto` win, but on the esp32
  (739-745), as the comment in it explains (721-738). "Exactly one writer"
  (1425-1426) does not hold for the Wi-Fi callback and `log_ln!` on the inline path.
* **ESP-NOW.** `peripheral/esp_now.rs:3-4` says the peripheral "mirrors the collector mode
  advertised by the central", and `protocol.rs:23-24` that it "mirrors this flag to keep the
  pair in sync". It does the opposite: a steady listener makes it a collector, and a
  collector central changes nothing (`peripheral/esp_now.rs:400-427`, and the comment at 400-402).
  `FollowsSteadyListener` and `SomeoneCollects` state what the code does.
* **Flood.** `collector/sta.rs:767-769` says of the round-robin that it "advances one
  destination per tick"; all ticks due in a pass go to one destination (682) and the
  index moves on by their number (707), so two stations and an even catch-up
  in every pass leave one of them without traffic. `node.rs:236-237` says of a sync-burst that
  "every flood tick fires one unicast frame back-to-back to **all** active leases"; the
  registry is never cleared and holds eight, so after a run that filled it, other
  stations are no targets (`LeasedIsFlooded` is stated for leases that were
  registered). `collector/sta.rs:319` says a reconnect updates the flood; a lease
  that changes, or a link that flaps, within the 250 ms between two looks does not
  (`TargetFollowsLease` excepts it), and information left by an earlier run is flooded
  until the client publishes.
* **Radio.** The recovery of the station registers CSI without a look at `rx_enabled`
  (`collector/sta.rs:209`, against `node.rs:881-883`). CSI stays registered in an
  emitter's run that follows a collector's in the same mode (against `emitter/mod.rs:270-273`).
  The comments on ESP-NOW in HT40 (`central/esp_now_fast.rs:44-46`,
  `peripheral/esp_now_fast.rs:64-65`, `central/esp_now.rs:162-164`) speak of a
  secondary channel that nobody sets.
* **Fast mode.** A source takes any frame with the central's magic for a beacon, another
  source's flood and frames of an earlier run included.

## 4. Fairness

`CsiDelivery!Fairness`: the Wi-Fi task, once in a capture, finishes it (it
preempts everything), and a call in progress finishes, because it never waits
(both weak fairness). A woken client is polled even if other tasks of the
executor keep running: the embassy executor polls every task of its run queue
in each pass, hence strong fairness on `Repoll`. No fairness on users or on
arriving frames.

`NodeRun`: the executor runs the woken task and the task finishes its pass (weak
fairness of `Work`). What a future awaits unguarded (a disconnect, the completion of a
send, a yield) comes (`Answer`): the driver completes every send, timers fire.
That a future eventually finds nothing ready is strong fairness of `Pend`:
frames may arrive while one is being handled, but not for ever faster than they are
handled. A flood with a rate catches up with it even when frames are refused at once (strong
fairness of `CatchUp`: refusals are faster than the rate). Durations pass (`Elapse`, weak). No station has
to associate, no frame has to come, nobody has to stop a run.

`EspNowExchange`: the responder's loop runs, the Wi-Fi task finishes a callback, a woken
task is polled and the clock advances (weak fairness). A central that goes on
transmitting is heard now and then with room in the pool (strong fairness of
`Hear`): the air is lossy, not dead. No fairness on starting and stopping.

`ApFlood`: the timers of the flood fire (weak fairness of `ap_ping_lease`), and the
report interval of a second passes now and then (strong fairness of `Refresh`,
because a pass may find it has not passed yet). No station has to ask for a lease.

`CsiLog`: a user's call, once begun, returns (weak fairness of `Continue`); the executor
polls the backend and the driver completes its writes even if calls never cease
(strong fairness of `logger_backend`, which is disabled inside a call). No packet
has to arrive.

`StationLink`: the station's future runs and its timers fire (weak fairness of its
steps, of a new attempt and of the timeout); an access point that is asked again and
again answers once (strong fairness of `Associate`). The link may drop at any time, no lease has to
come, nobody has to stop.

`EspNowFast`: loops run and timers fire (weak). A beacon sent again and again is
heard by everybody at last, and a driver asked for a peer at every health
check takes it at last (strong). `HeardSpec` adds, for `fast_hello`, that the flood
reaches the collector's pool and is read there: the counterexample is not silence.

## 5. Proofs

| theorem | statement | argument |
|---|---|---|
| `TypeCorrect` | `Spec => []TypeOK` | inductive as it stands; the queue is bounded because only `Enqueue` appends and it tests the capacity |
| `WakeupNotLost` | `Spec => []NoLostWakeup` | needs the invariant that a parked client is registered, and, for a client between registration and recheck, that a frame put in the queue since is seen by the recheck or is followed by the wake |
| `ImplementsChannel` | `Spec => Channel!SafeSpec` | each action maps to a step of the channel or a stutter under the refinement mapping |
| `CallbackStoredFirst` | with one executor, `Spec => []CallbackModeHasCallback` | the invariant ties the mode to the program counter of the call in progress: Callback implies the function is stored, until the clearing call that switched the mode off |
| `LateFramesStop` | `HSpec => []LateFramesStopAtGate` | a sealed history implies a closed gate and no call about to open it; while closing, the gate is closed as soon as the store of the gate is past (`SealInv`); only a stored raw function leads a capture past it (`RawInv`) |
| `WithdrawnIsNotRun` | with one executor, `HSpec => []NoStaleCallback` | a function that is stored, or in the hands of a registration, is in the history of those not withdrawn, and a capture may run all that were so since it began (`FnsInv`) |
| `RegisteredIsServed` | with one executor, `HSpec => []RegisteredCallbackIsServed` | a history that promises a callback means no call is under way that withdraws it, disabling the log included, the gate is open and the function stored, and the capture has passed only gates it found so (`OwedInv`) |
| `RunTypes` | `Spec => []TypeOK` | every place has a successor in `Places` |
| `StopWakesEveryFuture` | `Spec => []StopReachesAll` | the invariant says a guarded future that was polled in the current or last pass has left the task's waker with the signal, so `signal` queues the task |
| `RunImplementsControl` | `Spec => Control!SafeSpec` | a run ends only when all futures are done, a future of a served role is done only with the stop set, every such run has one, and nobody clears the stop but `ResetStop` |
| `ExchangeTypes` | `Spec => []TypeOK` | inductive as it stands |
| `SteadyListenerFollowed` | `Spec => []FollowsSteadyListener` | the streak counts the row of listener's frames exactly while the last mode seen is a listener's (`HeardInv`), so it meets the hysteresis when the row does, and only then |
| `RepliesAnswer` | `Spec => ReplyAnswersControl` | an owed reply of a connected peripheral means that its central was heard since the last one (`OwedInv`) |
| `PoolWakesResponder` | `Spec => []NoSleepOnFrames` | as `WakeupNotLost`, with the recheck of `receive_async` (`SleepInv`) |
| `FloodTypes` | `Spec => []TypeOK` | needs that the flood loops have a destination (`FloodInv`) |
| `AddressesDistinct` | `Spec => []NoSharedAddress` | what `dhcp_assign_ip` gives is the station's own address or one nobody holds (lemma `Assigned`) |
| `AddressesStable` | `Spec => LeaseIsStable` | the same lemma |
| `BurstIsFair` | `Spec => []NoReceiverLeftBehind` | two frames missed are possible only for a receiver that comes before the other in the next burst (`TurnInv`); a burst that is cut short rotates the order without disturbing it (lemma `OffsetMoves`, arithmetic modulo the number of receivers) |
| `LossIsCounted` | `Spec => []NothingLostUncounted` (`CsiLog`) | `owed` less `drops`, queue, hands and `early` is a multiple of `DropMod` (lemmas `Plus`, `Balance`), which every action keeps (`AccountStep`) |
| `HeaderBeforeRows` | `Spec => []HeaderFirst` | the flag set in the tool's mode means that the last line, or the line in hand, is a header or a row (`Heading`); a row in hand of another format means the flag is clear |
| `OneHeader` | `Spec => []BackendHeaderOnce` | with the backend no packet falls between the stores of a switch, so the flag tells whether a header was begun (`Counting`) |
| `WholeRows` | for packets whose lines fit the buffer, `Spec => []RowsAreWhole` | what a recursive line function reaches is bounded by five bytes a sample (`PositionBound`), so a line that fits is never cut (`ToolRow`); the other formats write all of a row or refuse it (`RowIs`); what the backend holds is such a row (`HandsInv`), and an unfinished line on the wire is the one in its hands (`OneLine`) |
| `LogTypes` | `Spec => []TypeOK` (`CsiLog`) | the row in hand and its number of writes are what the formatters compute (`RowIs`, `FlushesType`); the queues and the counter stay within their bounds (`BoundsStep`) |
| `StatsTypes` | `Spec => []TypeOK` (`RunStats`) | what is missed stays a number because each later frame of the count was missed until it was shown (`GapInv`); the table takes a new entry only with room (`RememberBound`) |
| `FilterDecides` | `Spec => []SettledFilterDecides` | outside a call the flag follows the words (`FlagFollows`); a report no call disturbed carries at each load what the loads before it saw (`Judged`), and a chip without signal modes passes the last |
| `CountersOfOneRun` | `Spec => []CountersAgree` | every report is counted before it can be dropped and dropped once; the one under way when its count is cleared is the one in excess (`DropsWithinReports`) |
| `GapsAreReal` | `Spec => []GapsWereMissed` | for a transmitter that is not mixed the table holds the number of the newest frame shown (`Newest`), and what was charged is at most what was missed before it (`Charged`); the frames between two shown ones are at least the distance of their numbers less one (lemma `Between`, arithmetic modulo `SeqMod`), or none when the same frame comes again |
| `LinkTypesHold` | `Spec => []TypeOK` (`StationLink`) | places are inductive, the rest is part of `IInv` |
| `CsiStaysArmed` | `Spec => []CsiArmedWhileCollecting` | each role registers after its last restart and after each association (`Armed`) |
| `FormatIsForced` | `Spec => []ForcedFormatOnAir` | the bring-up forces again after the start, on the interface that transmits (lemma `BringupForces`) |
| `ReceiverIsPlaced` | `Spec => []ReceiverInPlace` | the receiver of the role is installed at the start and put back after a suspension (`Prepared`) |
| `FloodFollowsLease` | `Spec => []TargetFollowsLease` | a lease that stayed is in the signal or is the target (`Followed`) |
| `FloodKeepsPace` | `Spec => []StallsAreForgiven` | before a pass, level and honoured debt stay within two bursts and a frame; within it, level and debt, or level and the budget spent (`Paced`) |
| `FastTypes` | `Spec => []TypeOK` (`EspNowFast`) | inductive once a source that addresses a collector knows its address (`PartnerKnown`) |
| `SettledByHello` | `Spec => []SettledWasGreeted` | a frame with the peripheral's magic in a pool, from whichever run, was sent there as a hello (`HelloInPool`) |

The theorems assume only the named assumptions of the modules
(`ConstantsAssumption`, `RunsAssumption`, `ExchangeAssumption`, `ApAssumption`,
`LogAssumption`, `StatsAssumption`, `ChipsAssumption`, `LinkAssumption`, `FastAssumption`): any
executors, callbacks, capacity, frames, arguments, configurations, centrals,
hysteresis, stations, pools, packets, buffers, transmitters (finitely many), chips,
gateways, bursts and nodes. Two hypotheses come on top, where a property needs them:
`SingleExecutor` (`CallbackStoredFirst`, `WithdrawnIsNotRun`, `RegisteredIsServed`), the case
in which calls do not overlap, since the stores of two calls
that interleave leave other states (section 3 names some); and `LinesFit` (`WholeRows`), the bound the code states and sizes its
buffers by ("Worst-case line: 200 prefix + 612 i8 × 5 + 2 trailer", `logging.rs:1243`,
of 3328 bytes). Each holds in the run that checks the property. `StationLink`'s invariant `IInv` joins four parts, because none is inductive
alone: the registration depends on where the station is, the pace on the types.
The invariants were checked by TLC before they were proved. Most type
invariants that are theorems are not repeated in the configurations; add
`TypeOK` to a configuration to see TLC agree.

The positions in a line and the flushes of a text are functions defined by
recursion. The library's induction theorems take the predicate as an operator, which
the provers cannot instantiate, so induction is done with the predicate as a set: the
numbers that violate it have a least member, by `WFMin` (lemma `ByOnes`). That such a
function exists is proved the same way (`Recursion`).

Model-checked only: the liveness properties (the fairness of `ChannelSpec`, `StopEndsGuardedRun`,
`DurationEndsYieldingRun`, `ReplyIsSent`, `SomeoneCollects`, `LeasedIsFlooded`, `TextNotStarved`,
`PacketNotStarved`, `StationComesBack`, `SourceDiscovers`, `FloodRecovers`), because
fairness and ENABLED are beyond the prover. Every invariant, every action property and the
safety part of every refinement that a passing run checks is a theorem.

## 6. Not modelled, and the plan

In `CsiDelivery`: the content of packets. In `NodeRun`: a DHCP server whose socket cannot be bound. In
`EspNowExchange`: the adaptive pacing, the sequence gap of the statistics
feature, the deadline guard of the receive burst (never reached, the cap is one
frame), the exact length of the receive-only drain (a choice; 64 in the code), a
run of the device as a central in between, the central's table of known peers. A
peripheral may lock onto a central that has left, from a frame left in the pool;
nothing in the repository says otherwise. In `ApFlood`: the rate and the reply
datagrams. In `CsiLog`: the `defmt` front end, what the columns say, the registers of
the drivers. In `RunStats`: the capture start, transmit counters and the format histogram, which are
related to nothing else. In `RadioSetup`: promiscuous mode, bands, protocol and
secondary channel, which nothing reads back, and driver calls that fail, on which
`run_inner` panics or only logs. In `StationLink`: the bytes of an echo and its sequence number
(which wraps, and which no code compares), and an attempt to associate that is under way at a stop; an
attempt to reconnect has no timeout in the code (`collector/sta.rs:354`), and one that the driver
never answers is not promised to end. In `EspNowFast`: the rate cap, which is a wait of any length.

Left for later, most important first: the composition of `NodeRun` with `CsiDelivery` (what
`reset_globals` leaves for the next run's client); the central's `AdaptivePacing`, whose
rate climbs by ten percent and falls by twenty-five between bounds
(`central/esp_now.rs:375`); the pure algorithms (calendar time, protocol ladder)
against reference definitions.

No module that is proved about declares a RECURSIVE operator.
