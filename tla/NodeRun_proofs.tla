--------------------------- MODULE NodeRun_proofs ---------------------------
(***************************************************************************)
(* Proofs about the runs of a node, for every set of configurations.       *)
(***************************************************************************)
EXTENDS NodeRun, TLAPS

\* The places of a future that goes on to join futures of its own.
Prelude == {"settle", "apsettle", "try", "retry", "cleanup", "pause", "serve"}

\* Only the futures of a station and of an access point are ever there.
PreludeInv ==
    \A f \in Futures : at[f] \in Prelude =>
        \/ f = run_sta_connect /\ config.role = "Station"
        \/ f = run_ap /\ config.role = "AccessPoint"

\* The sniffer's second stage has not been polled before it exists.
StageInv == at[process_again] = "unborn" => pass < process_again

\* A future found pending at a guarded await has left the task's waker with the
\* signal, or the signal has been set since and the task is queued again.
WakerInv ==
    node = "running" => \A f \in Futures :
        at[f] \in Guarded /\ (~polling \/ f <= pass)
            => stop = "waiting" \/ (stop = "signaled" /\ queued)

\* A future that has ended, but for the preludes, has left the stop set; and a
\* run of a served role joins at least one such future.
EndInv ==
    /\ node \in {"running", "resetting"} =>
        /\ \A f \in Futures \ {run_sta_connect, run_ap} : at[f] = "done" => stop = "signaled"
        /\ config.role \in Served =>
             \E f \in Futures \ {run_sta_connect, run_ap} : at[f] # "absent"
    /\ node = "resetting" /\ config.role \in Served => stop = "signaled"

RunInv == TypeOK /\ PreludeInv /\ StageInv /\ WakerInv /\ EndInv

USE DEF run_sta_connect, sta_connection, sta_network_ops, run_ap, run_net_task,
        run_dhcp_client, run_dhcp_server, ap_station_monitor, ap_ping_lease, run_emitter,
        run_esp_now, run_esp_now_fast_source, run_process_csi_packet, wait_for_stop,
        csi_data_collection, stop_after_duration, process_again, Futures

LEMMA FlowPlaces ==
    ASSUME NEW from, NEW to \in Places, <<from, to>> \in Flow
    PROVE  /\ to \notin Over
           /\ to \in Prelude <=> from \in Prelude
           /\ from \notin Over
BY DEF Flow, StationFlow, AccessPointFlow, EspNowFlow, FastSourceFlow, DhcpServerFlow,
       DurationFlow, Prelude, Over, Places, Guarded, Unguarded, Transient

LEMMA EntryPlaces ==
    ASSUME NEW f \in Futures
    PROVE  Entry(f) \in Places \ (Over \cup Prelude)
BY DEF Entry, Places, Over, Guarded, Unguarded, Transient, Prelude

LEMMA OpeningPlaces ==
    ASSUME NEW c \in Configurations, NEW first \in Openings(c)
    PROVE  /\ first \in Places \ Over
           /\ first \in Prelude => c.role \in {"Station", "AccessPoint"}
BY DEF Configurations, Roles, Served, Openings, Places, Over, Guarded, Unguarded, Transient, Prelude

\* A run of a served role joins at least one future besides its main one.
LEMMA Companion ==
    ASSUME NEW c \in Configurations, c.role \in Served
    PROVE  \E f \in Futures \ {run_sta_connect, run_ap} : f \in drive_main(c)
<1>0. c.role # "Unserved"
  BY DEF Served
<1>1. CASE c.rx
  BY <1>0, <1>1, run_process_csi_packet \in drive_main(c) DEF drive_main, Configurations
<1>2. CASE ~c.rx /\ c.timed
  BY <1>0, <1>2, stop_after_duration \in drive_main(c) DEF drive_main, Configurations
<1>3. CASE ~c.rx /\ ~c.timed
  BY <1>0, <1>3, wait_for_stop \in drive_main(c) DEF drive_main, Configurations
<1> QED
  BY <1>1, <1>2, <1>3

\* The futures a main future joins are polled after it.
LEMMA ChildrenLater ==
    ASSUME PreludeInv, NEW f \in Futures, at[f] = "serve", NEW g \in Children(config)
    PROVE  g \in Futures /\ g > f
BY DEF PreludeInv, Prelude, Children

-----------------------------------------------------------------------------
LEMMA InitInv == Init => RunInv
<1> SUFFICES ASSUME Init PROVE RunInv
  OBVIOUS
<1>1. \A f \in Futures : at[f] = "absent"
  BY DEF Init
<1>2. TypeOK
  <2>1. at \in [Futures -> Places] /\ event \in [Futures -> {"new", "awaited", "ready"}]
    BY DEF Init, Places, Over
  <2>2. config \in Configurations
    BY RunsAssumption DEF Init
  <2>3. queued \in BOOLEAN /\ polling \in BOOLEAN
    BY Zenon DEF Init
  <2> QED
    BY <2>1, <2>2, <2>3 DEF Init, TypeOK
<1>3. PreludeInv
  BY <1>1 DEF PreludeInv, Prelude
<1>4. StageInv
  BY <1>1 DEF StageInv
<1>5. WakerInv /\ EndInv
  BY DEF Init, WakerInv, EndInv
<1> QED
  BY <1>2, <1>3, <1>4, <1>5 DEF RunInv

LEMMA StartInv ==
    ASSUME RunInv, NEW c \in Runs, run_inner(c)
    PROVE  RunInv'
<1>c. c \in Configurations
  BY RunsAssumption
<1>1. PICK first \in Openings(c) :
        at' = [f \in Futures |->
                 IF f \in Main(c) THEN first
                 ELSE IF f \in drive_main(c) THEN Entry(f)
                 ELSE IF f = process_again /\ TwoStages(c) THEN "unborn" ELSE "absent"]
  BY DEF run_inner
<1>2. first \in Places \ Over /\ (first \in Prelude => c.role \in {"Station", "AccessPoint"})
  BY <1>c, OpeningPlaces
<1>3. {"unborn", "absent"} \subseteq Places /\ {"unborn", "absent", "done"} \subseteq Over
  BY DEF Places, Over
<1>4. at' \in [Futures -> Places]
  BY <1>1, <1>2, <1>3, EntryPlaces
<1>5. TypeOK'
  BY <1>4, <1>c DEF RunInv, TypeOK, run_inner
<1>6. \A f \in Futures : at'[f] # "done"
  BY <1>1, <1>2, <1>3, EntryPlaces
<1>7. PreludeInv'
  <2> SUFFICES ASSUME NEW f \in Futures, at'[f] \in Prelude
               PROVE  \/ f = run_sta_connect /\ c.role = "Station"
                      \/ f = run_ap /\ c.role = "AccessPoint"
    BY DEF PreludeInv, run_inner
  <2>1. f \in Main(c)
    BY <1>1, EntryPlaces DEF Prelude
  <2>2. c.role \in {"Station", "AccessPoint"}
    BY <2>1, <1>1, <1>2
  <2> QED
    BY <2>1, <2>2 DEF Main
<1>8. ASSUME c.role \in Served
      PROVE  \E f \in Futures \ {run_sta_connect, run_ap} : at'[f] # "absent"
  <2>1. PICK f \in Futures \ {run_sta_connect, run_ap} : f \in drive_main(c)
    BY <1>c, <1>8, Companion
  <2>2. at'[f] = first \/ at'[f] = Entry(f)
    BY <2>1, <1>1
  <2> QED
    BY <2>1, <2>2, <1>2, <1>3, EntryPlaces
<1> QED
  BY <1>5, <1>6, <1>7, <1>8 DEF run_inner, RunInv, StageInv, WakerInv, EndInv

LEMMA EndPassInv ==
    ASSUME RunInv, EndPass
    PROVE  RunInv'
<1>1. \A f \in Futures : at[f] \in Guarded => f <= pass
  BY DEF EndPass, PassOver, Live, Guarded, Over, RunInv, TypeOK
<1>2. CASE AllDone
  <2>1. config.role \in Served => stop = "signaled"
    BY <1>2 DEF RunInv, EndInv, EndPass, AllDone
  <2> QED
    BY <1>2, <2>1 DEF RunInv, TypeOK, PreludeInv, StageInv, WakerInv, EndInv, EndPass
<1>3. CASE ~AllDone
  BY <1>1, <1>3 DEF RunInv, TypeOK, PreludeInv, StageInv, WakerInv, EndInv, EndPass
<1> QED
  BY <1>2, <1>3

LEMMA BoundaryInv ==
    ASSUME RunInv, NextStage \/ ResetStop \/ reset_globals \/ BeginPass
    PROVE  RunInv'
<1>1. CASE NextStage
  <2>1. at'[process_again] = "loop" /\ \A f \in Futures \ {process_again} : at'[f] = at[f]
    BY <1>1 DEF NextStage, RunInv, TypeOK
  <2>2. TypeOK'
    BY <1>1 DEF NextStage, RunInv, TypeOK, Places, Guarded, task
  <2>3. PreludeInv'
    BY <1>1, <2>1 DEF NextStage, RunInv, PreludeInv, Prelude
  <2>4. WakerInv'
    BY <1>1, <2>1 DEF NextStage, RunInv, TypeOK, WakerInv, StageInv, task
  <2>5. EndInv'
    BY <1>1, <2>1 DEF NextStage, RunInv, EndInv
  <2> QED
    BY <2>1, <2>2, <2>3, <2>4, <2>5 DEF RunInv, StageInv
<1>2. CASE ResetStop
  BY <1>2 DEF ResetStop, RunInv, TypeOK, PreludeInv, StageInv, WakerInv, EndInv, task
<1>3. CASE reset_globals
  BY <1>3 DEF reset_globals, RunInv, TypeOK, PreludeInv, StageInv, WakerInv, EndInv
<1>4. CASE BeginPass
  <2>1. TypeOK'
    <3>1. queued' \in BOOLEAN
      BY <1>4, Zenon DEF BeginPass
    <3> QED
      BY <1>4, <3>1 DEF BeginPass, RunInv, TypeOK
  <2>2. PreludeInv' /\ EndInv'
    BY <1>4 DEF BeginPass, RunInv, PreludeInv, EndInv
  <2>3. StageInv'
    BY <1>4 DEF BeginPass, StageInv
  <2>4. WakerInv'
    BY <1>4 DEF BeginPass, WakerInv
  <2> QED
    BY <2>1, <2>2, <2>3, <2>4 DEF RunInv
<1> QED
  BY <1>1, <1>2, <1>3, <1>4

-----------------------------------------------------------------------------
LEMMA RelayStopInv ==
    ASSUME RunInv, NEW f \in Futures, RelayStop(f)
    PROVE  RunInv'
<1>1. \A g \in Futures : at'[g] = IF g = f THEN "done" ELSE at[g]
  BY DEF RelayStop, RunInv, TypeOK
<1>2. TypeOK'
  BY DEF RelayStop, RunInv, TypeOK, Places, Over, task
<1>3. PreludeInv'
  BY <1>1 DEF RelayStop, RunInv, PreludeInv, Prelude
<1>4. StageInv'
  BY <1>1 DEF RelayStop, RunInv, StageInv, task
<1>5. WakerInv'
  BY <1>1 DEF RelayStop, RunInv, WakerInv, Guarded, task
<1>6. EndInv'
  BY <1>1 DEF RelayStop, Turn, RunInv, EndInv
<1> QED
  BY <1>2, <1>3, <1>4, <1>5, <1>6 DEF RunInv

LEMMA PendInv ==
    ASSUME RunInv, NEW f \in Futures, Pend(f)
    PROVE  RunInv'
<1>1. TypeOK'
  BY DEF Pend, RunInv, TypeOK
<1>2. PreludeInv'
  BY DEF Pend, RunInv, PreludeInv
<1>3. StageInv'
  BY DEF Pend, Turn, Live, Over, RunInv, StageInv
<1>4. WakerInv'
  <2> SUFFICES ASSUME NEW g \in Futures, at[g] \in Guarded, g <= f
               PROVE  (stop = "waiting" \/ (stop = "signaled" /\ queued))'
    BY DEF Pend, Turn, WakerInv
  <2>1. CASE at[f] \in Guarded
    BY <2>1 DEF Pend
  <2>2. CASE at[f] \notin Guarded
    <3>1. g <= pass
      BY <2>2 DEF Pend, Turn, Live, Over, Guarded, RunInv, TypeOK
    <3> QED
      BY <2>2, <3>1 DEF Pend, Turn, RunInv, WakerInv
  <2> QED
    BY <2>1, <2>2
<1>5. EndInv'
  BY DEF Pend, Turn, RunInv, EndInv
<1> QED
  BY <1>1, <1>2, <1>3, <1>4, <1>5 DEF RunInv

\* A step that moves only the future being polled, to a place where it is not over.
LEMMA MoveInv ==
    ASSUME RunInv, NEW f \in Futures, Turn(f), NEW to \in Places \ Over,
           to \in Prelude => at[f] \in Prelude,
           at' = [at EXCEPT ![f] = to],
           event' \in [Futures -> {"new", "awaited", "ready"}],
           UNCHANGED <<node, config, stop, task>>
    PROVE  RunInv'
<1>1. \A g \in Futures : at'[g] = IF g = f THEN to ELSE at[g]
  BY DEF RunInv, TypeOK
<1>2. TypeOK'
  BY DEF RunInv, TypeOK, task
<1>3. PreludeInv'
  BY <1>1 DEF RunInv, PreludeInv
<1>4. StageInv'
  BY <1>1 DEF RunInv, StageInv, task, Over
<1>5. WakerInv'
  BY <1>1 DEF Turn, RunInv, TypeOK, WakerInv, task
<1>6. EndInv'
  BY <1>1 DEF Turn, RunInv, EndInv, Over
<1> QED
  BY <1>2, <1>3, <1>4, <1>5, <1>6 DEF RunInv

LEMMA ResumeInv ==
    ASSUME RunInv, NEW f \in Futures, Resume(f)
    PROVE  RunInv'
<1>1. PICK to \in Places : <<at[f], to>> \in Flow /\ at' = [at EXCEPT ![f] = to]
  BY DEF Resume
<1>2. event' \in [Futures -> {"new", "awaited", "ready"}]
  BY DEF Resume, RunInv, TypeOK
<1>3. to \in Places \ Over /\ (to \in Prelude => at[f] \in Prelude)
  BY <1>1, FlowPlaces
<1>4. Turn(f) /\ UNCHANGED <<node, config, stop, task>>
  BY DEF Resume
<1> QED
  BY <1>1, <1>2, <1>3, <1>4, MoveInv

LEMMA ServeInv ==
    ASSUME RunInv, NEW f \in Futures, Serve(f)
    PROVE  RunInv'
<1>1. at' = [g \in Futures |->
               IF g = f THEN "done" ELSE IF g \in Children(config) THEN Entry(g) ELSE at[g]]
  BY DEF Serve
<1>2. f \in {run_sta_connect, run_ap}
  BY DEF Serve, RunInv, PreludeInv, Prelude
<1>3. TypeOK'
  BY <1>1, EntryPlaces DEF Serve, RunInv, TypeOK, Places, Over, task
<1>4. \A g \in Futures : at'[g] \in Prelude => at[g] \in Prelude
  BY <1>1, EntryPlaces DEF Prelude
<1>5. PreludeInv'
  BY <1>4 DEF Serve, RunInv, PreludeInv
<1>6. StageInv'
  BY <1>1, <1>2, EntryPlaces DEF Serve, RunInv, StageInv, Over, task
<1>7. WakerInv'
  <2> SUFFICES ASSUME NEW g \in Futures, at'[g] \in Guarded, g <= pass
               PROVE  stop = "waiting" \/ (stop = "signaled" /\ queued)
    BY DEF Serve, Turn, WakerInv, task
  <2>1. g \notin Children(config)
    BY ChildrenLater DEF Serve, Turn, RunInv, TypeOK
  <2>2. at[g] \in Guarded
    BY <1>1, <2>1 DEF Guarded
  <2> QED
    BY <2>2 DEF Serve, Turn, RunInv, WakerInv
<1>8. EndInv'
  <2>1. \A g \in Futures \ {run_sta_connect, run_ap} :
          /\ at'[g] = "done" => at[g] = "done"
          /\ at[g] # "absent" => at'[g] # "absent"
    BY <1>1, <1>2, EntryPlaces DEF Over
  <2> QED
    BY <2>1 DEF Serve, Turn, RunInv, EndInv
<1> QED
  BY <1>3, <1>5, <1>6, <1>7, <1>8 DEF RunInv

\* Setting the signal leaves nobody asleep.
LEMMA SignalInv ==
    ASSUME RunInv, signal, NEW f \in Futures,
           at' = at \/ (node = "running" /\ at' = [at EXCEPT ![f] = "done"]),
           UNCHANGED <<node, config, event, polling, pass>>
    PROVE  RunInv'
<1>1. \A g \in Futures : at'[g] = at[g] \/ (node = "running" /\ at'[g] = "done")
  BY DEF RunInv, TypeOK
<1>2. TypeOK'
  <2>1. at' \in [Futures -> Places]
    BY DEF RunInv, TypeOK, Places, Over
  <2>2. queued' \in BOOLEAN
    BY DEF signal
  <2> QED
    BY <2>1, <2>2 DEF signal, RunInv, TypeOK
<1>3. PreludeInv'
  BY <1>1 DEF RunInv, PreludeInv, Prelude
<1>4. StageInv'
  BY <1>1 DEF RunInv, StageInv
<1>5. WakerInv'
  <2> SUFFICES ASSUME node = "running", NEW g \in Futures, at'[g] \in Guarded,
                      ~polling \/ g <= pass
               PROVE  queued'
    BY DEF signal, WakerInv
  <2>1. at[g] \in Guarded
    BY <1>1 DEF Guarded
  <2>2. stop = "waiting" \/ queued
    BY <2>1 DEF RunInv, WakerInv
  <2> QED
    BY <2>2 DEF signal
<1>6. EndInv'
  BY <1>1 DEF signal, RunInv, EndInv
<1> QED
  BY <1>2, <1>3, <1>4, <1>5, <1>6 DEF RunInv

LEMMA FloodInv ==
    ASSUME RunInv, NEW f \in Futures, Flood(f) \/ Refused(f) \/ Expire(f)
    PROVE  RunInv'
<1>p. {"burst", "refused", "flood", "halt"} \subseteq Places \ (Over \cup Prelude)
  BY DEF Places, Over, Guarded, Unguarded, Transient, Prelude
<1>1. CASE Flood(f) /\ stop = "signaled"
  BY <1>1, SignalInv DEF Flood, Turn
<1>2. CASE Flood(f) /\ stop # "signaled"
  <2>1. PICK to \in {"burst", "refused"} : at' = [at EXCEPT ![f] = to]
    BY <1>2 DEF Flood
  <2>2. event' \in [Futures -> {"new", "awaited", "ready"}]
    BY <1>2 DEF Flood, RunInv, TypeOK
  <2> QED
    BY <1>p, <1>2, <2>1, <2>2, MoveInv DEF Flood, task
<1>3. CASE Refused(f)
  <2>1. PICK to \in {"flood", "halt"} : at' = [at EXCEPT ![f] = to]
    BY <1>3 DEF Refused
  <2>2. event' \in [Futures -> {"new", "awaited", "ready"}]
    BY <1>3 DEF Refused, RunInv, TypeOK
  <2> QED
    BY <1>p, <1>3, <2>1, <2>2, MoveInv DEF Refused
<1>4. CASE Expire(f)
  BY <1>4, SignalInv DEF Expire, Turn
<1> QED
  BY <1>1, <1>2, <1>3, <1>4

LEMMA OutsideInv ==
    ASSUME RunInv, send_stop \/ \E f \in Futures : Happen(f)
    PROVE  RunInv'
<1>1. CASE send_stop
  BY <1>1, SignalInv, run_ap \in Futures DEF send_stop
<1>2. CASE \E f \in Futures : Happen(f)
  BY <1>2 DEF Happen, RunInv, TypeOK, PreludeInv, StageInv, WakerInv, EndInv
<1> QED
  BY <1>1, <1>2

LEMMA StepInv == RunInv /\ [Next]_vars => RunInv'
<1> SUFFICES ASSUME RunInv, [Next]_vars PROVE RunInv'
  OBVIOUS
<1>1. CASE \E c \in Runs : run_inner(c)
  BY <1>1, StartInv
<1>2. CASE EndPass \/ NextStage \/ ResetStop \/ reset_globals \/ BeginPass
  BY <1>2, EndPassInv, BoundaryInv
<1>3. CASE \E f \in Futures : Poll(f)
  BY <1>3, RelayStopInv, PendInv, ResumeInv, ServeInv, FloodInv DEF Poll
<1>4. CASE send_stop \/ \E f \in Futures : Happen(f)
  BY <1>4, OutsideInv
<1>5. CASE UNCHANGED vars
  BY <1>5 DEF vars, task, RunInv, TypeOK, PreludeInv, StageInv, WakerInv, EndInv
<1> QED
  BY <1>1, <1>2, <1>3, <1>4, <1>5 DEF Next, Work

THEOREM RunInvariant == Spec => []RunInv
BY InitInv, StepInv, PTL DEF Spec

-----------------------------------------------------------------------------
\* Every variable of a run keeps its type (node.rs:704-1121).
THEOREM RunTypes == Spec => []TypeOK
BY RunInvariant, PTL DEF RunInv

\* No future sleeps through a stop, whatever the configurations (node.rs:99-113).
THEOREM StopWakesEveryFuture == Spec => []StopReachesAll
<1>1. RunInv => StopReachesAll
  BY DEF RunInv, WakerInv, StopReachesAll
<1> QED
  BY <1>1, RunInvariant, PTL

\* A run that drives a role ends only if a stop was asked for, and a stop lasts
\* until a run ends: the runs of the node, those of the unserved roles included,
\* implement the abstract run (node.rs:1037-1042, 1069-1078).
THEOREM RunImplementsControl == Spec => ControlSafety
<1>1. Init => Control!Init
  <2>1. (config.role \in Served) \in BOOLEAN
    OBVIOUS
  <2> QED
    BY <2>1 DEF Init, Control!Init
<1>2. RunInv /\ [Next]_vars => [Control!Next]_Control!controlVars
  <2> SUFFICES ASSUME RunInv, [Next]_vars
               PROVE  [Control!Next]_Control!controlVars
    OBVIOUS
  <2> USE DEF Control!Next, Control!controlVars
  <2>1. CASE \E c \in Runs : run_inner(c)
    <3>1. (config'.role \in Served) \in BOOLEAN
      OBVIOUS
    <3> QED
      BY <2>1, <3>1 DEF run_inner, Control!Start
  <2>2. CASE EndPass
    <3>1. /\ stop' = stop /\ config' = config
          /\ node \in {"running", "resetting"} /\ node' \in {"running", "resetting"}
      BY <2>2 DEF EndPass
    <3> QED
      BY <3>1
  <2>3. CASE ResetStop
    BY <2>3 DEF ResetStop, RunInv, EndInv, Control!End
  <2>4. CASE NextStage \/ reset_globals \/ BeginPass
    BY <2>4 DEF NextStage, reset_globals, BeginPass
  <2>5. CASE \E f \in Futures : RelayStop(f) \/ Pend(f) \/ Resume(f) \/ Serve(f) \/ Refused(f)
    BY <2>5 DEF RelayStop, Pend, Resume, Serve, Refused
  <2>6. CASE \E f \in Futures : Flood(f) \/ Expire(f)
    BY <2>6 DEF Flood, Expire, signal, Control!Ask
  <2>7. CASE send_stop
    BY <2>7 DEF send_stop, signal, Control!Ask
  <2>8. CASE \E f \in Futures : Happen(f)
    BY <2>8 DEF Happen
  <2>9. CASE UNCHANGED vars
    BY <2>9 DEF vars
  <2> QED
    BY <2>1, <2>2, <2>3, <2>4, <2>5, <2>6, <2>7, <2>8, <2>9 DEF Next, Work, Poll
<1> QED
  BY <1>1, <1>2, RunInvariant, PTL DEF Spec, ControlSafety, Control!SafeSpec
============================================================================
