----------------------------- MODULE WifiManager -----------------------------
(***************************************************************************)
(* The Wi-Fi manager (wifi_manager.c): start-up of access point and        *)
(* station, the station's reconnects, and what a status snapshot reads of  *)
(* it (bridge_telemetry.c).                                                *)
(*                                                                         *)
(* Several threads write the flags sta_connected, sta_has_addr and         *)
(* sta_connect_requested without a lock: main in wifi_manager_start, then  *)
(* sta_retry_thread, the network event thread that runs the two event      *)
(* handlers, and any thread that asks wifi_manager_sta_ready().  The       *)
(* driver reports what happens to the link through a queue of events.      *)
(***************************************************************************)
EXTENDS Naturals, Sequences

CONSTANT MaxEvents        \* bound on the events that wait in the queue

ASSUME WifiAssumption == MaxEvents \in Nat \ {0}

Threads == {"main", "retry"}
StaSettings == [enabled : BOOLEAN, ssid : BOOLEAN, rotate_mac : BOOLEAN]
Zeroed == [enabled |-> FALSE, ssid |-> FALSE, rotate_mac |-> FALSE]

VARIABLES
    stored,       \* the STA section of the effective configuration; ssid: not empty
    sta_cfg,      \* what wifi_manager_start has captured of it
    sta_connected, sta_has_addr, sta_connect_requested, sta_retry_backoff_s,
    sta_retry_enabled,
    pc,          \* per thread: where it is
    readyPc,      \* a caller of wifi_manager_sta_ready: "idle", "mark" or "result"
    iface,        \* STA interface: "up" or "down" (admin state)
    link,         \* driver: "idle", "connecting" or "up"
    addr,         \* a DHCP address is in the interface's table
    network,      \* the configured network: "near" or "away"
    events,       \* events the handlers have not seen yet
    field,        \* a snapshot: 0, or the field that is read next
    inputs, sta,  \* fields found valid so far, and in the last snapshot
    raced         \* a handler ran inside one of the two unprotected windows

flags == <<sta_connected, sta_has_addr, sta_connect_requested>>
driver == <<iface, link, addr, network, events>>
config == <<stored, sta_cfg>>
snapshot == <<field, inputs, sta>>
vars == <<config, flags, sta_retry_backoff_s, sta_retry_enabled, pc, readyPc, driver,
          snapshot, raced>>

\* uart_nmea_start has succeeded (main returns before any network is started
\* otherwise), and main is about to call wifi_manager_start.
Init ==
    /\ stored \in StaSettings
    /\ sta_cfg = Zeroed
    /\ sta_connected = FALSE /\ sta_has_addr = FALSE /\ sta_connect_requested = FALSE
    /\ sta_retry_backoff_s = 5
    /\ sta_retry_enabled = FALSE
    /\ pc = [main |-> "capture", retry |-> "gate"]
    /\ readyPc = "idle"
    /\ iface = "up"
    /\ link = "idle"
    /\ addr = FALSE
    /\ network \in {"near", "away"}
    /\ events = <<>>
    /\ field = 0 /\ inputs = {} /\ sta = {}
    /\ raced = FALSE

-----------------------------------------------------------------------------
(* The driver and the DHCP client. *)

Report(e) == Len(events) < MaxEvents /\ events' = Append(events, e)

ManagerUnchanged == UNCHANGED <<config, flags, sta_retry_backoff_s, sta_retry_enabled,
                                pc, readyPc, snapshot, raced>>

DriverConnects ==
    /\ link = "connecting" /\ network = "near"
    /\ link' = "up"
    /\ Report("connected")
    /\ ManagerUnchanged /\ UNCHANGED <<iface, addr, network>>

DriverFails ==
    /\ link = "connecting" /\ network = "away"
    /\ link' = "idle"
    /\ Report("failed")
    /\ ManagerUnchanged /\ UNCHANGED <<iface, addr, network>>

LinkLost ==
    /\ link = "up" /\ network = "away"
    /\ link' = "idle"
    /\ Report("disconnected")
    /\ ManagerUnchanged /\ UNCHANGED <<iface, addr, network>>

DhcpBound ==
    /\ link = "up" /\ ~addr
    /\ addr' = TRUE
    /\ Report("addr")
    /\ ManagerUnchanged /\ UNCHANGED <<iface, link, network>>

\* The address outlives the link until the DHCP client stops.
DhcpStop ==
    /\ link # "up" /\ addr
    /\ addr' = FALSE
    /\ Report("stop")
    /\ ManagerUnchanged /\ UNCHANGED <<iface, link, network>>

NetworkMoves ==
    /\ network' \in {"near", "away"} \ {network}
    /\ ManagerUnchanged /\ UNCHANGED <<iface, link, addr, events>>

DriverResult == DriverConnects \/ DriverFails
DriverNext == DriverResult \/ LinkLost \/ DhcpBound \/ DhcpStop \/ NetworkMoves

-----------------------------------------------------------------------------
(* wifi_event_handler and ipv4_event_handler *)

\* mark_sta_ipv4_ready, starting from given values of the first two flags
MarkReady(connected, has_addr) ==
    /\ sta_connected' = (connected \/ addr)
    /\ sta_has_addr' = (has_addr \/ addr)

\* Mutant: the request flag survives a loss of the link.
KeepRequest == sta_connected' = FALSE /\ sta_has_addr' = FALSE
               /\ UNCHANGED sta_connect_requested
ClearAll == sta_connected' = FALSE /\ sta_has_addr' = FALSE
            /\ sta_connect_requested' = FALSE

OnConnected == /\ MarkReady(TRUE, sta_has_addr)
               /\ sta_connect_requested' = FALSE
               /\ sta_retry_backoff_s' = 5
OnLost == ClearAll /\ UNCHANGED sta_retry_backoff_s
\* An address was added to any interface: the access point's counts too.
OnAddr == MarkReady(sta_connected, sta_has_addr)
          /\ UNCHANGED <<sta_connect_requested, sta_retry_backoff_s>>
OnStop == sta_has_addr' = FALSE
          /\ UNCHANGED <<sta_connected, sta_connect_requested, sta_retry_backoff_s>>

InWindow == \/ \E t \in Threads : pc[t] = "requested"
            \/ readyPc = "mark"

HandleEvent ==
    /\ events # <<>>
    /\ CASE Head(events) = "connected" -> OnConnected
         [] Head(events) \in {"failed", "disconnected"} -> OnLost
         [] Head(events) = "addr" -> OnAddr
         [] Head(events) = "stop" -> OnStop
    /\ events' = Tail(events)
    /\ raced' = (raced \/ (Head(events) \in {"failed", "disconnected"} /\ InWindow))
    /\ UNCHANGED <<config, sta_retry_enabled, pc, readyPc, iface, link, addr, network,
                   snapshot>>

-----------------------------------------------------------------------------
(* wifi_manager_sta_ready: the test of the flags, the mark and the result   *)
(* are steps of their own.                                                  *)

ReaderUnchanged == UNCHANGED <<config, sta_connect_requested, sta_retry_backoff_s,
                               sta_retry_enabled, pc, driver, raced>>

ReadyTest ==
    /\ readyPc = "idle"
    /\ readyPc' = IF sta_connected /\ ~sta_has_addr THEN "mark" ELSE "result"
    /\ UNCHANGED <<sta_connected, sta_has_addr>> /\ ReaderUnchanged

ReadyMark ==
    /\ readyPc = "mark"
    /\ readyPc' = "result"
    /\ MarkReady(sta_connected, sta_has_addr)
    /\ ReaderUnchanged /\ UNCHANGED snapshot

ReadyReturn ==
    /\ readyPc = "result"
    /\ readyPc' = "idle"
    /\ UNCHANGED <<sta_connected, sta_has_addr>> /\ ReaderUnchanged

ReadyResult == sta_connected /\ sta_has_addr

\* The Wi-Fi part of collect_inputs: wifi_manager_sta_ready, ..._get_sta_ipv4 and
\* ..._get_sta_rssi, each behind a test of readiness of its own
Fields == <<"sta_ready", "sta_ipv4", "sta_rssi">>
AllFields == {"sta_ready", "sta_ipv4", "sta_rssi"}

FieldValid(f) == /\ ReadyResult
                 /\ f = "sta_ipv4" => addr
                 /\ f = "sta_rssi" => link = "up"

CollectTest ==
    /\ ReadyTest
    /\ field' = IF field = 0 THEN 1 ELSE field
    /\ UNCHANGED <<inputs, sta>>

Found == inputs \cup (IF FieldValid(Fields[field]) THEN {Fields[field]} ELSE {})

CollectField ==
    /\ ReadyReturn
    /\ IF field = 3 THEN field' = 0 /\ inputs' = {} /\ sta' = Found
                    ELSE field' = field + 1 /\ inputs' = Found /\ UNCHANGED sta

ReadNext == CollectTest \/ ReadyMark \/ CollectField

-----------------------------------------------------------------------------
(* Requests, by main in wifi_manager_start and by sta_retry_thread *)

Goto(t, l) == pc' = [pc EXCEPT ![t] = l]

\* disconnect_sta: without a link or an attempt the driver refuses.
DisconnectSta(t) ==
    /\ pc[t] = "disconnect"
    /\ Goto(t, "pause")
    /\ IF link = "idle" THEN UNCHANGED <<link, events>>
                        ELSE link' = "idle" /\ Report("disconnected")
    /\ UNCHANGED <<config, flags, sta_retry_backoff_s, sta_retry_enabled, readyPc,
                   iface, addr, network, snapshot, raced>>

\* k_sleep(500 ms); the event of the disconnect may or may not have been handled.
Pause(t) ==
    /\ pc[t] = "pause"
    /\ Goto(t, "connect")
    /\ UNCHANGED <<config, flags, sta_retry_backoff_s, sta_retry_enabled, readyPc,
                   driver, snapshot, raced>>

Longer == IF sta_retry_backoff_s * 2 > 60 THEN 60 ELSE sta_retry_backoff_s * 2

\* After connect_sta: main returns, the retry thread waits longer next time.
AfterConnect(t) ==
    CASE t = "main"  -> /\ Goto(t, "done")
                        /\ sta_retry_enabled' = TRUE
                        /\ UNCHANGED sta_retry_backoff_s
      [] t = "retry" -> /\ Goto(t, "test")
                        /\ sta_retry_backoff_s' = Longer
                        /\ UNCHANGED sta_retry_enabled

\* connect_sta without an SSID asks for nothing.
ConnectSkipped(t) ==
    /\ pc[t] = "connect"
    /\ ~sta_cfg.ssid
    /\ AfterConnect(t)
    /\ UNCHANGED <<config, flags, readyPc, driver, snapshot, raced>>

\* net_mgmt accepts the request ...
ConnectSta(t) ==
    /\ pc[t] = "connect"
    /\ sta_cfg.ssid
    /\ iface = "up"
    /\ link' = "connecting"
    /\ Goto(t, "requested")
    /\ UNCHANGED <<config, flags, sta_retry_backoff_s, sta_retry_enabled, readyPc,
                   iface, addr, network, events, snapshot, raced>>

\* ... and only then the flag is set;
SetRequested(t) ==
    /\ pc[t] = "requested"
    /\ sta_connect_requested' = TRUE
    /\ AfterConnect(t)
    /\ UNCHANGED <<config, sta_connected, sta_has_addr, readyPc, driver, snapshot, raced>>

\* or net_mgmt returns an error, always when the interface is down.
ConnectRefused(t) ==
    /\ pc[t] = "connect"
    /\ sta_cfg.ssid
    /\ sta_connect_requested' = FALSE
    /\ AfterConnect(t)
    /\ UNCHANGED <<config, sta_connected, sta_has_addr, readyPc, driver, snapshot, raced>>

RequestStep(t) == DisconnectSta(t) \/ Pause(t) \/ ConnectSkipped(t) \/ SetRequested(t)

-----------------------------------------------------------------------------
(* wifi_manager_start *)

\* The reboot-scope settings are read once.
Capture ==
    /\ pc["main"] = "capture"
    /\ sta_cfg' = stored
    /\ Goto("main", "rotate")
    /\ UNCHANGED <<stored, flags, sta_retry_backoff_s, sta_retry_enabled, readyPc,
                   driver, snapshot, raced>>

\* rotate_sta_mac: switched off, or given up before the interface is touched;
\* otherwise the interface is taken down for the change, and stays down when
\* net_if_up fails.
RotateStaMac ==
    /\ pc["main"] = "rotate"
    /\ iface' \in IF sta_cfg.enabled /\ sta_cfg.rotate_mac THEN {"up", "down"} ELSE {iface}
    /\ Goto("main", "ap")
    /\ UNCHANGED <<config, flags, sta_retry_backoff_s, sta_retry_enabled, readyPc,
                   link, addr, network, events, snapshot, raced>>

\* Mutant: a failure of the access point ends the start-up.
GiveUp(ok) == IF ok THEN "station" ELSE "done"
AfterAp(ok) == "station"

\* enable_ap; the address of the access point raises an event of its own, unless
\* the failure came before it was added.
EnableAp ==
    /\ pc["main"] = "ap"
    /\ \E ok \in BOOLEAN :
          /\ Goto("main", AfterAp(ok))
          /\ \/ Report("addr")
             \/ ~ok /\ UNCHANGED events
    /\ UNCHANGED <<config, flags, sta_retry_backoff_s, sta_retry_enabled, readyPc,
                   iface, link, addr, network, snapshot, raced>>

StartStation ==
    /\ pc["main"] = "station"
    /\ IF sta_cfg.enabled
          THEN Goto("main", "disconnect") /\ UNCHANGED sta_retry_enabled
          ELSE Goto("main", "done") /\ sta_retry_enabled' = TRUE
    /\ UNCHANGED <<config, flags, sta_retry_backoff_s, readyPc, driver, snapshot, raced>>

StartStep == Capture \/ RotateStaMac \/ EnableAp \/ StartStation

-----------------------------------------------------------------------------
(* sta_retry_thread *)

\* Mutant: the thread does not wait for the start-up.
NoGate == TRUE
GateOpen == sta_retry_enabled

RetryGate ==
    /\ pc["retry"] = "gate"
    /\ GateOpen
    /\ Goto("retry", IF sta_cfg.enabled /\ sta_cfg.ssid THEN "test" ELSE "exit")
    /\ UNCHANGED <<config, flags, sta_retry_backoff_s, sta_retry_enabled, readyPc,
                   driver, snapshot, raced>>

Busy == sta_connected \/ sta_connect_requested

\* Both tests, and the sleeps of 1 s and of the backoff after them
RetryTest ==
    /\ pc["retry"] \in {"test", "backoff"}
    /\ Goto("retry", IF Busy THEN "test"
                     ELSE IF pc["retry"] = "test" THEN "backoff" ELSE "disconnect")
    /\ UNCHANGED <<config, flags, sta_retry_backoff_s, sta_retry_enabled, readyPc,
                   driver, snapshot, raced>>

RetryStep == RetryGate \/ RetryTest

RequestNext == \E t \in Threads : RequestStep(t) \/ ConnectSta(t) \/ ConnectRefused(t)
Next == DriverNext \/ HandleEvent \/ ReadNext \/ StartStep \/ RetryStep \/ RequestNext

\* Threads run, the driver answers a request it has accepted, and does accept
\* one sooner or later; the page asks for the status again and again.  Nothing
\* is assumed of the network.
Fairness ==
    /\ WF_vars(StartStep) /\ WF_vars(RetryStep) /\ WF_vars(HandleEvent)
    /\ \A t \in Threads : WF_vars(RequestStep(t) \/ ConnectRefused(t))
    /\ SF_vars(\E t \in Threads : ConnectSta(t))
    /\ WF_vars(ReadNext)
    /\ WF_vars(DriverResult) /\ WF_vars(LinkLost) /\ WF_vars(DhcpBound)

FairSpec == Init /\ [][Next]_vars /\ Fairness

-----------------------------------------------------------------------------
(* Properties. *)

Settled == events = <<>> /\ ~raced

\* When no event is on its way, the flags say what the driver does: a request
\* that is flagged is really under way, so that an event will clear it, and a
\* connection that is flagged exists, so that its loss will be reported.  The
\* retry thread waits on nothing else.
FlagsTruthful ==
    Settled => /\ sta_connect_requested => link # "idle"
               /\ sta_connected => link = "up"

\* The station is wanted, and its interface survived the change of its address.
Usable == stored.enabled /\ stored.ssid /\ iface = "up"

Reconnects == <>[](network = "near" /\ Usable) => <>[](link = "up" /\ sta_connected)

\* Once the network stays in reach the station gets connected and stays so,
\* whatever failed at start-up, unless an event was handled in one of the two
\* windows.
ReconnectsUnlessRaced == []~raced => Reconnects

\* Then the status sooner or later shows the station ready, with its address and
\* its signal strength, and goes on to do so, although each of the three is read
\* behind a test of its own and the events come in any order.
StatusShowsStation ==
    []~raced => (<>[](network = "near" /\ Usable) => <>[](sta = AllFields))
=============================================================================
