------------------------------ MODULE RadioSetup ------------------------------
\* What a run does to the radio around its loop: CSINode::run_inner with
\* sta_init, ap_init, emitter::bringup and the receive callbacks of radio.rs,
\* espnow_phy.rs and esp_now_pool.rs.  What a run leaves in the driver is what
\* the next one finds.
EXTENDS Integers, Sequences, FiniteSets

CONSTANT Chips      \* the chips looked at, among "classic", "c5" and "c6"

ASSUME ChipsAssumption == Chips \subseteq {"classic", "c5", "c6"}

VARIABLES
    chip,       \* the chip
    step,       \* where run_inner is
    role,       \* what the run does, and whether it receives and transmits
    radio,      \* the driver: mode, CSI callback, ESP-NOW receiver, forced format
    joined      \* an access point has not yet answered that a station joined

radioVars == <<chip, step, role, radio, joined>>

\* NodeRole, as far as the radio is concerned: both ends of both ESP-NOW modes
\* prepare it alike.  "rejected" are the Wi-Fi modes of central and peripheral.
Roles ==
    [kind : {"sniffer", "ap", "espnow", "rejected"}, rx : BOOLEAN, tx : {FALSE},
     iface : {"none"}]
    \cup [kind : {"sta"}, rx : BOOLEAN, tx : BOOLEAN, iface : {"none"}]
    \cup [kind : {"emitter"}, rx : {FALSE}, tx : {TRUE}, iface : {"sta", "ap"}]

\* The driver after WifiController::new: the allocating ESP-NOW dispatcher is
\* installed.
FreshRadio == [mode |-> "none", armed |-> FALSE, receiver |-> "heap", forced |-> {}]

RadioInit ==
    /\ chip \in Chips
    /\ step = "idle"
    /\ role \in Roles /\ role.kind = "rejected" /\ ~role.rx
    /\ radio = FreshRadio
    /\ joined = FALSE

-----------------------------------------------------------------------------
\* Calls into the driver.

\* set_config starts the interface only when the mode changes; the restart
\* clears the CSI registration and drops a forced transmit format.
SetConfig(r, mode) ==
    IF r.mode = mode THEN r
    ELSE [r EXCEPT !.mode = mode, !.armed = FALSE, !.forced = {}]

SetCsi(r) == [r EXCEPT !.armed = TRUE]

\* esp_wifi_config_80211_tx forces the format of the interface, and
\* esp_now_set_peer_rate_config that of a peer, on a started interface only.
ForceTx(r) == [r EXCEPT !.forced = @ \cup {"interface"}]

ForcePeer(r) == IF r.mode = "none" THEN r ELSE [r EXCEPT !.forced = @ \cup {"peer"}]

\* Associations may cost the registration.
MayLoseCsi(r) == {r, [r EXCEPT !.armed = FALSE]}

\* Mutant: the rate is forced before the interface starts and not after.
BringupOnce(r) ==
    LET started == SetConfig(ForceTx(r), role.iface)
    IN  IF chip = "classic" THEN ForcePeer(SetConfig(started, "sta")) ELSE started

\* emitter::bringup forces the format before the interface starts and again
\* after.  On the classic chips espnow::bringup follows, on the station
\* interface.
Bringup(r) ==
    LET started == SetConfig(ForceTx(r), role.iface)
        again   == ForceTx(started)
    IN  IF chip = "classic" THEN ForcePeer(SetConfig(again, "sta")) ELSE again

-----------------------------------------------------------------------------
\* run_inner.

Goto(s) == step' = s

\* Mutant: a peripheral's receiver is unregistered like that of a Wi-Fi role.
SuppressAlways(ro) ==
    /\ step = "idle" /\ Goto("configure")
    /\ role' = ro
    /\ radio' = [radio EXCEPT !.receiver = "none"]
    /\ UNCHANGED <<chip, joined>>

\* First of all the allocating dispatcher goes: an ESP-NOW role installs the
\* pool's, any other role none.
run_inner(ro) ==
    /\ step = "idle" /\ Goto("configure")
    /\ role' = ro
    /\ radio' = [radio EXCEPT !.receiver =
                     IF ro.kind \in {"espnow", "rejected"} THEN "pool" ELSE "none"]
    /\ UNCHANGED <<chip, joined>>

\* sta_init and ap_init configure their interface before CSI is registered.
Configure ==
    /\ step = "configure" /\ Goto("arm")
    /\ radio' = IF role.kind \in {"sta", "ap"} THEN SetConfig(radio, role.kind) ELSE radio
    /\ UNCHANGED <<chip, role, joined>>

\* Sniffer and access point register theirs later.
set_csi ==
    /\ step = "arm" /\ Goto("enter")
    /\ radio' = IF role.rx /\ role.kind \notin {"sniffer", "ap"} THEN SetCsi(radio) ELSE radio
    /\ UNCHANGED <<chip, role, joined>>

\* The first steps of each role.  A rejected role only logs; an ESP-NOW role
\* changes the channel with its receiver suspended, which is a C5 measure.
Enter ==
    /\ step = "enter"
    /\ CASE role.kind = "emitter"  -> Goto("loop") /\ radio' = Bringup(radio)
         [] role.kind = "sniffer"  -> /\ Goto("loop")
                                      /\ radio' = IF role.rx THEN SetCsi(radio) ELSE radio
         [] role.kind = "ap"       -> Goto("settle") /\ UNCHANGED radio
         [] role.kind = "sta"      -> Goto("loop") /\ UNCHANGED radio
         [] role.kind = "espnow"   -> Goto("suspend") /\ UNCHANGED radio
         [] role.kind = "rejected" -> Goto("leave") /\ UNCHANGED radio
    /\ UNCHANGED <<chip, role, joined>>

\* with_espnow_recv_suspended, at a channel change and at each peer's format.
Suspend ==
    /\ \/ step = "suspend"
       \/ step = "loop" /\ role.kind = "espnow"
    /\ Goto("resume")
    /\ radio' = IF chip = "c5" THEN [radio EXCEPT !.receiver = "none"] ELSE radio
    /\ UNCHANGED <<chip, role, joined>>

Resume ==
    /\ step = "resume" /\ Goto("loop")
    /\ radio' = IF chip = "c5" THEN [radio EXCEPT !.receiver = "pool"] ELSE radio
    /\ UNCHANGED <<chip, role, joined>>

\* Mutant: the registration of an earlier run is relied on.
RunApTrusting ==
    /\ step = "settle" /\ Goto("loop")
    /\ UNCHANGED <<chip, role, radio, joined>>

\* run_ap registers CSI half a second after the access point started.
run_ap ==
    /\ step = "settle" /\ Goto("loop")
    /\ radio' = IF role.rx THEN SetCsi(radio) ELSE radio
    /\ UNCHANGED <<chip, role, joined>>

\* A station joins the access point, and ap_station_monitor registers CSI again.
StationJoins ==
    /\ step = "loop" /\ role.kind = "ap"
    /\ joined' = TRUE
    /\ radio' \in MayLoseCsi(radio)
    /\ UNCHANGED <<chip, step, role>>

ap_station_monitor ==
    /\ step = "loop" /\ joined
    /\ joined' = FALSE
    /\ radio' = IF role.rx THEN SetCsi(radio) ELSE radio
    /\ UNCHANGED <<chip, step, role>>

\* A stop ends the loop; reset_globals unregisters nothing.
StopRole ==
    /\ step \in {"loop", "settle"} /\ Goto("leave")
    /\ joined' = FALSE
    /\ UNCHANGED <<chip, role, radio>>

Leave ==
    /\ step = "leave" /\ Goto("idle")
    /\ UNCHANGED <<chip, role, radio, joined>>

RunStep ==
    \/ \E ro \in Roles : run_inner(ro)
    \/ Configure \/ set_csi \/ Enter \/ Suspend \/ Resume \/ run_ap
    \/ StationJoins \/ ap_station_monitor \/ Leave

-----------------------------------------------------------------------------
\* An emitter's frames leave in the format it was asked for, whatever mode and
\* format an earlier run left in the driver: injected ones by the interface's
\* format, those of the classic chips by their peer's.
ForcedFormatOnAir ==
    step = "loop" /\ role.kind = "emitter" =>
        (IF chip = "classic" THEN "peer" ELSE "interface") \in radio.forced

\* An ESP-NOW role hears and any other role is deaf to ESP-NOW: frames reach the
\* pool or nobody, and the allocating dispatcher is gone since the first run.
ReceiverInPlace ==
    step = "loop" =>
        radio.receiver = (IF role.kind = "espnow" THEN "pool" ELSE "none")
==============================================================================
