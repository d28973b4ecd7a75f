------------------------------ MODULE NodeRun -------------------------------
(***************************************************************************)
(* A run of a CSI node, node.rs.  run_inner joins the future of its role   *)
(* with the bookkeeping futures of drive_main; run_ap and run_sta_connect  *)
(* join futures of their own.  All of them belong to one task, the node    *)
(* task: when it is woken it polls every future that is not done, in the   *)
(* order of the joins, and it parks when each of them is pending.          *)
(*                                                                         *)
(* A run is stopped through one embassy Signal, STOP_SIGNAL.  wait() takes *)
(* the value out, so a future that takes it puts it back for the others    *)
(* before it ends.  Signal and wait are critical sections; signal() comes  *)
(* from any core.  Taking the stop and putting it back is one step here:   *)
(* nobody but the task looks at the value in between.                      *)
(***************************************************************************)
EXTENDS Integers

(***************************************************************************)
(* The futures, numbered in the order in which a pass polls them.          *)
(***************************************************************************)
run_sta_connect == 1
sta_connection == 2
sta_network_ops == 3
run_ap == 4
run_net_task == 5
run_dhcp_client == 6
run_dhcp_server == 7
ap_station_monitor == 8
ap_ping_lease == 9
run_emitter == 10
run_esp_now == 11               \* central, peripheral or fast collector
run_esp_now_fast_source == 12
run_process_csi_packet == 13
wait_for_stop == 14
csi_data_collection == 15
stop_after_duration == 16
process_again == 17             \* the sniffer's second run_process_csi_packet

Futures == 1..17

\* Served are the roles a run has futures for.  The others, the Wi-Fi modes of a
\* central and the sniffer mode of a peripheral, log a line and end the run at once.
Served == {"Emitter", "Sniffer", "AccessPoint", "Station", "EspNow", "FastSource"}
Roles == Served \cup {"Unserved"}

\* What a run is started with: timed says whether it has a duration, paced whether
\* the fast source's flood has a rate, and one that refused frames do not outlast.
Configurations ==
    {c \in [role : Roles, timed : BOOLEAN, rx : BOOLEAN, tx : BOOLEAN, dhcp : BOOLEAN,
            paced : BOOLEAN] :
        /\ c.role \in {"Emitter", "FastSource", "Unserved"} => ~c.rx
        /\ c.dhcp => c.role = "AccessPoint"
        /\ c.tx => c.role \in {"AccessPoint", "Station"}
        /\ ~c.paced => c.role = "FastSource"}

CONSTANT
    Runs       \* the configurations users start runs with

ASSUME RunsAssumption == Runs \subseteq Configurations

VARIABLES
    node,      \* run_inner: "idle", "running", and the two steps of its end
    config,    \* the configuration of the run
    at,        \* the await each future is suspended at
    event,     \* per future: what it awaits is "new" (not polled yet), "awaited", "ready"
    stop,      \* STOP_SIGNAL: "none", "waiting" (with the task's waker) or "signaled"
    queued,    \* whether the node task is in its executor's run queue
    polling,   \* whether a pass is in progress
    pass       \* the last future of this pass that was found pending

task == <<queued, polling, pass>>
vars == <<node, config, at, event, stop, task>>

(***************************************************************************)
(* The awaits.  A guarded one is a select between STOP_SIGNAL.wait() and   *)
(* the event.  Flow says where a future goes once the event happens.       *)
(***************************************************************************)
Guarded == {"settle", "try", "retry", "apsettle", "loop", "turn", "listen", "halt",
            "recv67", "once", "until"}
Unguarded == {"cleanup", "pause", "yield", "send", "backoff", "hello", "burst", "reply",
              "deadline"}
Transient == {"serve", "flood", "refused", "expire"}
Over == {"absent", "unborn", "done"}

\* run_sta_connect: settle, try to associate, clean up after a failure, try again.
StationFlow ==
    {<<"settle", "try">>, <<"try", "serve">>, <<"try", "cleanup">>, <<"cleanup", "pause">>,
     <<"pause", "retry">>, <<"retry", "try">>}

\* run_ap, before its join.
AccessPointFlow == {<<"apsettle", "serve">>}

\* The central, the peripheral and the fast collector: receive, send, wait.  The
\* yields of one drain of the pool, at most 65535, are one.
EspNowFlow ==
    {<<"turn", "turn">>, <<"turn", "yield">>, <<"turn", "send">>, <<"yield", "turn">>,
     <<"yield", "send">>, <<"send", "turn">>, <<"send", "backoff">>, <<"backoff", "turn">>}

\* run_esp_now_fast_source: listen for a collector, greet it, flood it.
FastSourceFlow ==
    {<<"listen", "listen">>, <<"listen", "hello">>, <<"hello", "flood">>,
     <<"burst", "flood">>, <<"burst", "halt">>, <<"halt", "flood">>, <<"halt", "halt">>}

\* run_dhcp_server: receive a request; the reply waits for room in the socket.
DhcpServerFlow ==
    {<<"recv67", "recv67">>, <<"recv67", "reply">>, <<"reply", "recv67">>}

\* stop_after_duration, and csi_data_collection, which does not look at the stop.
DurationFlow == {<<"until", "expire">>, <<"deadline", "expire">>}

\* Every other future is a loop around guarded awaits.
Flow ==
    StationFlow \cup AccessPointFlow \cup {<<"loop", "loop">>} \cup EspNowFlow
        \cup FastSourceFlow \cup DhcpServerFlow \cup DurationFlow

Places == Guarded \cup Unguarded \cup Transient \cup Over

TypeOK ==
    /\ node \in {"idle", "running", "resetting", "closing"}
    /\ config \in Configurations
    /\ at \in [Futures -> Places]
    /\ event \in [Futures -> {"new", "awaited", "ready"}]
    /\ stop \in {"none", "waiting", "signaled"}
    /\ queued \in BOOLEAN
    /\ polling \in BOOLEAN
    /\ pass \in 0..17

(***************************************************************************)
(* The futures a run joins: main, and drive_main's companions.  A sniffer  *)
(* has no main future and an unserved role no future at all; a station and *)
(* an access point begin with one that settles, and then join those of     *)
(* Children.                                                               *)
(***************************************************************************)
Main(c) ==
    CASE c.role = "Emitter"     -> {run_emitter}
      [] c.role \in {"Sniffer", "Unserved"} -> {}
      [] c.role = "AccessPoint" -> {run_ap}
      [] c.role = "Station"     -> {run_sta_connect}
      [] c.role = "EspNow"      -> {run_esp_now}
      [] c.role = "FastSource"  -> {run_esp_now_fast_source}

drive_main(c) ==
    CASE c.role = "Unserved" -> {}
      [] c.role # "Unserved" /\ c.timed /\ c.rx -> {run_process_csi_packet, csi_data_collection}
      [] c.role # "Unserved" /\ c.timed /\ ~c.rx ->
            {stop_after_duration} \cup (IF c.role = "Sniffer" THEN {} ELSE {wait_for_stop})
      [] c.role # "Unserved" /\ ~c.timed /\ c.rx -> {run_process_csi_packet}
      [] c.role # "Unserved" /\ ~c.timed /\ ~c.rx -> {wait_for_stop}

Children(c) ==
    IF c.role = "Station"
    THEN {sta_connection, run_net_task, run_dhcp_client}
         \cup (IF c.tx THEN {sta_network_ops} ELSE {})
    ELSE {run_net_task, ap_station_monitor}
         \cup (IF c.dhcp THEN {run_dhcp_server} ELSE {})
         \cup (IF c.tx THEN {ap_ping_lease} ELSE {})

\* Where the main future first suspends, or is about to act: an ESP-NOW role may
\* have frames to handle or send at once, and a fast source given its peer by hand
\* floods at once.
Openings(c) ==
    CASE c.role = "AccessPoint" -> {"apsettle"}
      [] c.role = "Station"     -> {"settle"}
      [] c.role = "EspNow"      -> {"turn", "yield", "send"}
      [] c.role = "FastSource"  -> {"listen", "flood"}
      [] OTHER                  -> {"loop"}

\* Where every other future first suspends.
Entry(f) ==
    CASE f = run_dhcp_server     -> "recv67"
      [] f = wait_for_stop       -> "once"
      [] f = csi_data_collection -> "deadline"
      [] f = stop_after_duration -> "until"
      [] OTHER                   -> "loop"

TwoStages(c) == c.role = "Sniffer" /\ c.timed /\ c.rx

Init ==
    /\ node = "idle"
    /\ config \in Runs
    /\ at = [f \in Futures |-> "absent"]
    /\ event = [f \in Futures |-> "new"]
    /\ stop = "none"
    /\ queued = FALSE
    /\ polling = FALSE
    /\ pass = 0

-----------------------------------------------------------------------------
(***************************************************************************)
(* The start and the end of a run.                                         *)
(***************************************************************************)
run_inner(c) ==
    /\ node = "idle"
    /\ node' = "running"
    /\ config' = c
    /\ \E first \in Openings(c) :
        at' = [f \in Futures |->
                 IF f \in Main(c) THEN first
                 ELSE IF f \in drive_main(c) THEN Entry(f)
                 ELSE IF f = process_again /\ TwoStages(c) THEN "unborn" ELSE "absent"]
    /\ event' = [f \in Futures |-> "new"]
    /\ polling' = TRUE
    /\ pass' = 0
    /\ UNCHANGED <<stop, queued>>

Live(f) == at[f] \notin Over
AllDone == \A f \in Futures : at[f] \in {"absent", "done"}
PassOver == \A f \in Futures : f > pass => ~Live(f)

\* A pass ends: the task parks, or its joins return.
EndPass ==
    /\ node = "running"
    /\ polling
    /\ PassOver
    /\ at[process_again] = "unborn" => \E f \in Futures : Live(f)
    /\ IF AllDone
       THEN node' = "resetting" /\ UNCHANGED polling
       ELSE polling' = FALSE /\ UNCHANGED node
    /\ UNCHANGED <<config, at, event, stop, queued, pass>>

\* The sniffer's join has returned; it processes packets once more.
NextStage ==
    /\ node = "running"
    /\ polling
    /\ at[process_again] = "unborn"
    /\ \A f \in Futures : ~Live(f)
    /\ at' = [at EXCEPT ![process_again] = "loop"]
    /\ UNCHANGED <<node, config, event, stop, task>>

\* Mutated form: the stop survives the end of the run.
ResetKeepsStop ==
    /\ node = "resetting"
    /\ node' = "closing"
    /\ UNCHANGED <<config, at, event, stop, task>>

ResetStop ==
    /\ node = "resetting"
    /\ stop' = "none"
    /\ node' = "closing"
    /\ UNCHANGED <<config, at, event, task>>

reset_globals ==
    /\ node = "closing"
    /\ node' = "idle"
    /\ polling' = FALSE
    /\ UNCHANGED <<config, at, event, stop, queued, pass>>

-----------------------------------------------------------------------------
(***************************************************************************)
(* One pass: the task leaves the run queue, then polls the next live       *)
(* future until that one is pending or done.                               *)
(***************************************************************************)
BeginPass ==
    /\ node = "running"
    /\ queued
    /\ ~polling
    /\ queued' = FALSE
    /\ polling' = TRUE
    /\ pass' = 0
    /\ UNCHANGED <<node, config, at, event, stop>>

Turn(f) ==
    /\ node = "running"
    /\ polling
    /\ f > pass
    /\ Live(f)
    /\ \A g \in Futures : pass < g /\ g < f => ~Live(g)

\* Signal::signal: the value is set and a stored waker is woken.
signal ==
    /\ stop' = "signaled"
    /\ queued' = (queued \/ stop = "waiting")

\* The stop wins the select: it is taken, put back, and the future ends.
RelayStop(f) ==
    /\ Turn(f)
    /\ at[f] \in Guarded
    /\ stop = "signaled"
    /\ at' = [at EXCEPT ![f] = "done"]
    /\ UNCHANGED <<node, config, event, stop, task>>

\* Mutated form: a pending select leaves no waker with the signal.
PendUnregistered(f) ==
    /\ Turn(f)
    /\ at[f] \in Guarded => stop # "signaled"
    /\ at[f] \notin Transient
    /\ event[f] # "ready"
    /\ event' = [event EXCEPT ![f] = "awaited"]
    /\ pass' = f
    /\ UNCHANGED <<node, config, at, stop, queued, polling>>

\* What the future awaits has not happened; a guarded await leaves the waker.
Pend(f) ==
    /\ Turn(f)
    /\ at[f] \in Guarded => stop # "signaled"
    /\ at[f] \notin Transient
    /\ event[f] # "ready"
    /\ event' = [event EXCEPT ![f] = "awaited"]
    /\ pass' = f
    /\ stop' = IF at[f] \in Guarded THEN "waiting" ELSE stop
    /\ UNCHANGED <<node, config, at, queued, polling>>

\* The event has happened and the future goes on, to its next await.
Resume(f) ==
    /\ Turn(f)
    /\ at[f] \in Guarded => stop # "signaled"
    /\ event[f] = "ready"
    /\ \E to \in Places : <<at[f], to>> \in Flow /\ at' = [at EXCEPT ![f] = to]
    /\ event' = [event EXCEPT ![f] = "new"]
    /\ UNCHANGED <<node, config, stop, task>>

\* A station that has associated, an access point that has settled.
Serve(f) ==
    /\ Turn(f)
    /\ at[f] = "serve"
    /\ at' = [g \in Futures |->
                IF g = f THEN "done" ELSE IF g \in Children(config) THEN Entry(g) ELSE at[g]]
    /\ UNCHANGED <<node, config, event, stop, task>>

\* Mutated form: the flood never looks at the stop.
FloodOn(f) ==
    /\ Turn(f)
    /\ at[f] = "flood"
    /\ at' = [at EXCEPT ![f] = "burst"]
    /\ UNCHANGED <<node, config, event, stop, task>>

\* The fast source looks at the stop before each send, without taking it.
Flood(f) ==
    /\ Turn(f)
    /\ at[f] = "flood"
    /\ IF stop = "signaled"
       THEN at' = [at EXCEPT ![f] = "done"] /\ signal
       ELSE /\ \E to \in {"burst", "refused"} : at' = [at EXCEPT ![f] = to]
            /\ UNCHANGED <<stop, queued>>
    /\ UNCHANGED <<node, config, event, polling, pass>>

\* Mutated form: a flood with a rate does not wait after a frame that was refused.
RefusedUnpaced(f) ==
    /\ Turn(f)
    /\ at[f] = "refused"
    /\ at' = [at EXCEPT ![f] = "flood"]
    /\ UNCHANGED <<node, config, event, stop, task>>

\* A frame the driver refuses at once, for another reason than a full buffer, is
\* logged.  A rate then waits for the next frame's time, unless that has passed;
\* without a rate the next frame follows.
Refused(f) ==
    /\ Turn(f)
    /\ at[f] = "refused"
    /\ \E to \in {"flood", "halt"} :
        /\ to = "halt" => config.paced
        /\ at' = [at EXCEPT ![f] = to]
    /\ UNCHANGED <<node, config, event, stop, task>>

\* The duration has passed.
Expire(f) ==
    /\ Turn(f)
    /\ at[f] = "expire"
    /\ at' = [at EXCEPT ![f] = "done"]
    /\ signal
    /\ UNCHANGED <<node, config, event, polling, pass>>

Poll(f) ==
    RelayStop(f) \/ Pend(f) \/ Resume(f) \/ Serve(f) \/ Flood(f) \/ Refused(f) \/ Expire(f)

-----------------------------------------------------------------------------
(***************************************************************************)
(* Everybody else: a task on any executor asks for a stop; a timer, the    *)
(* radio or the network stack makes an event happen and wakes the task.    *)
(* A DHCP reply that found the socket's buffer full is sent once the       *)
(* network stack, itself one of the futures, has drained it.               *)
(***************************************************************************)
send_stop == signal /\ UNCHANGED <<node, config, at, event, polling, pass>>

Happen(f) ==
    /\ node = "running"
    /\ event[f] \in (IF at[f] \in Unguarded THEN {"awaited"} ELSE {"new", "awaited"})
    /\ \E to \in Places : <<at[f], to>> \in Flow
    /\ at[f] = "reply" => at[run_net_task] # "done"
    /\ event' = [event EXCEPT ![f] = "ready"]
    /\ queued' = TRUE
    /\ UNCHANGED <<node, config, at, stop, polling, pass>>

Work ==
    \/ EndPass \/ NextStage \/ ResetStop \/ reset_globals \/ BeginPass
    \/ \E f \in Futures : Poll(f)

Next ==
    \/ \E c \in Runs : run_inner(c)
    \/ Work
    \/ send_stop
    \/ \E f \in Futures : Happen(f)

(***************************************************************************)
(* The executor runs a queued task, the radio answers what it was asked,   *)
(* and timers expire.  Frames may come while a future handles one, but not *)
(* so fast that it never finds its queue empty.  A paced flood catches up  *)
(* with its rate, even on refused frames.  Nothing else has to happen: no  *)
(* frame has to come, no station has to associate, nobody has to start a   *)
(* run or stop it.                                                         *)
(***************************************************************************)
Answer(f) == at[f] \in Unguarded \ {"deadline"} /\ Happen(f)
CatchUp(f) == Refused(f) /\ at'[f] = "halt"
Elapse(f) == at[f] \in {"deadline", "until"} /\ Happen(f)

Spec == Init /\ [][Next]_vars

Scheduling ==
    /\ WF_vars(Work)
    /\ SF_vars(\E f \in Futures : Pend(f))
    /\ SF_vars(\E f \in Futures : CatchUp(f))
    /\ \A f \in Futures : WF_vars(Answer(f))

FairSpec == Spec /\ Scheduling /\ \A f \in Futures : WF_vars(Elapse(f))

-----------------------------------------------------------------------------
(***************************************************************************)
(* Properties.                                                             *)
(***************************************************************************)

\* No stop is slept through: while the task is parked, out of the run queue,
\* and the stop is set, no future waits for it (node.rs:99-113 and every select
\* on STOP_SIGNAL; the signal has room for one value and one waker, and up to
\* seven futures share it).
StopReachesAll ==
    node = "running" /\ ~polling /\ ~queued /\ stop = "signaled"
        => \A f \in Futures : at[f] \notin Guarded

Control == INSTANCE RunControl
    WITH running <- node \in {"running", "resetting"}, asked <- (stop = "signaled"),
         drives <- config.role \in Served

\* A run that drives a role ends only if a stop was asked for since the previous
\* run ended, and a stop once asked for stays until a run ends, whoever takes it
\* (node.rs:1078).  A run of an unserved role ends by itself (1037-1042, 1069-1074),
\* and a stop asked for it is gone with it.
ControlSafety == Control!SafeSpec

\* A run that was asked to stop ends, as node.rs:701-703 and csi/delivery.rs:476-478
\* say of every run.
StopEndsRun == stop = "signaled" /\ node = "running" ~> node # "running"

\* What holds of it: every run whose futures look at the stop wherever they wait.
\* The DHCP server's reply does not (collector/ap.rs:487).
StopEndsGuardedRun ==
    stop = "signaled" /\ node = "running" /\ ~config.dhcp ~> node # "running"

\* A run with a duration ends, as node.rs:699-701 and 1093-1095 say of every mode.
DurationEndsRun == config.timed /\ node = "running" ~> node # "running"

\* What holds of it: every such run without the DHCP server in which the task gets
\* to its timer.  A flat-out flood whose frames are refused at once never yields to
\* it (peripheral/esp_now_fast.rs:136-208).
DurationEndsYieldingRun ==
    config.timed /\ node = "running" /\ ~config.dhcp /\ config.paced ~> node # "running"
============================================================================
