--------------------------- MODULE WifiManagerProofs ---------------------------
(***************************************************************************)
(* Proofs about the Wi-Fi manager, for any number of events on their way.  *)
(***************************************************************************)
EXTENDS WifiManager, TLAPS

USE WifiAssumption

LossEvents == {"failed", "disconnected"}
EventKinds == LossEvents \cup {"connected", "addr", "stop"}
Pcs == {"capture", "rotate", "ap", "station", "done", "gate", "test", "backoff", "exit",
        "disconnect", "pause", "connect", "requested"}

WifiTypes ==
    /\ pc \in [Threads -> Pcs]
    /\ link \in {"idle", "connecting", "up"}
    /\ events \in Seq(EventKinds)

\* Only one thread asks the driver for anything: the retry thread waits for main.
\* It finds the driver idle when it asks for a connection, and until main has
\* asked for the first one there is no address.
OneAsks ==
    /\ pc["retry"] # "gate" => pc["main"] = "done"
    /\ sta_retry_enabled => pc["main"] = "done"
    /\ \A t \in Threads : pc[t] \in {"pause", "connect"} => link = "idle"
    /\ pc["main"] \notin {"requested", "done"} => link = "idle" /\ ~addr

\* A loss that the event handlers have not seen yet, and one behind event n
LossAhead == \E n \in 1 .. Len(events) : events[n] \in LossEvents
LossAfter(n) == \E m \in 1 .. Len(events) : n < m /\ events[m] \in LossEvents

\* Without a link, whatever flags one, now or when its event is handled, is
\* followed by the event that takes the flag back.
ClaimsEnd ==
    link # "up" =>
        /\ sta_connected => LossAhead
        /\ \A n \in 1 .. Len(events) :
              events[n] = "connected" \/ (events[n] = "addr" /\ addr) => LossAfter(n)

\* Without a link or an attempt, the end of a flagged request is on its way, and
\* so it is for a request that connect_sta is about to flag.
RequestsEnd ==
    link = "idle" =>
        /\ sta_connect_requested => LossAhead
        /\ \A t \in Threads : pc[t] = "requested" => LossAhead

\* wifi_manager_sta_ready marks only a station that is connected.
MarksConnected == readyPc = "mark" => sta_connected

Truthful == raced \/ (ClaimsEnd /\ RequestsEnd /\ MarksConnected)

WifiInv == WifiTypes /\ OneAsks /\ Truthful

-----------------------------------------------------------------------------
(* The queue of events. *)

\* A new event leaves the others in place; a loss is behind all of them.
LEMMA Reported ==
    ASSUME events \in Seq(EventKinds), NEW e \in EventKinds, events' = Append(events, e)
    PROVE  /\ events' \in Seq(EventKinds)
           /\ \A n \in 1 .. Len(events') : n \in 1 .. Len(events) \/ events'[n] = e
           /\ \A n \in 1 .. Len(events) : events'[n] = events[n]
           /\ LossAhead => LossAhead'
           /\ \A n \in 1 .. Len(events) : LossAfter(n) => LossAfter(n)'
           /\ e \in LossEvents => LossAhead' /\ \A n \in 1 .. Len(events) : LossAfter(n)'
<1>1. events' \in Seq(EventKinds) /\ Len(events) \in Nat /\ Len(events') = Len(events) + 1
  OBVIOUS
<1>2. events'[Len(events) + 1] = e /\ \A n \in 1 .. Len(events) : events'[n] = events[n]
  OBVIOUS
<1>3. \A n \in 1 .. Len(events') : n \in 1 .. Len(events) \/ n = Len(events) + 1
  BY <1>1
<1>4. LossAhead => LossAhead'
  BY <1>1, <1>2 DEF LossAhead
<1>5. \A n \in 1 .. Len(events) : LossAfter(n) => LossAfter(n)'
  BY <1>1, <1>2 DEF LossAfter
<1>6. e \in LossEvents => LossAhead' /\ \A n \in 1 .. Len(events) : LossAfter(n)'
  BY <1>1, <1>2 DEF LossAhead, LossAfter
<1> QED BY <1>1, <1>2, <1>3, <1>4, <1>5, <1>6

\* Handling the first event keeps the order of the others.
LEMMA Handled ==
    ASSUME events \in Seq(EventKinds), events # <<>>, events' = Tail(events)
    PROVE  /\ events' \in Seq(EventKinds)
           /\ 1 \in 1 .. Len(events) /\ Head(events) = events[1] /\ events[1] \in EventKinds
           /\ \A n \in 1 .. Len(events') : /\ n + 1 \in 1 .. Len(events)
                                           /\ events'[n] = events[n + 1]
                                           /\ LossAfter(n + 1) => LossAfter(n)'
           /\ LossAhead /\ events[1] \notin LossEvents => LossAhead'
           /\ LossAfter(1) => LossAhead'
<1>1. /\ events' \in Seq(EventKinds) /\ Len(events) \in Nat /\ Len(events) > 0
      /\ Len(events') = Len(events) - 1 /\ Head(events) = events[1]
  OBVIOUS
<1>2. \A n \in 1 .. Len(events') : events'[n] = events[n + 1]
  OBVIOUS
<1>3. \A m \in 1 .. Len(events) : m > 1 => m - 1 \in 1 .. Len(events')
                                         /\ (m - 1) + 1 = m
  BY <1>1
<1>4. \A m \in 1 .. Len(events) : m > 1 => events'[m - 1] = events[m]
  BY <1>2, <1>3
<1>5. LossAfter(1) => LossAhead'
  BY <1>3, <1>4 DEF LossAfter, LossAhead
<1>6. LossAhead /\ events[1] \notin LossEvents => LossAfter(1)
  BY <1>1 DEF LossAfter, LossAhead
<1>7. ASSUME NEW n \in 1 .. Len(events'), LossAfter(n + 1) PROVE LossAfter(n)'
  <2>1. PICK m \in 1 .. Len(events) : n + 1 < m /\ events[m] \in LossEvents
    BY <1>7 DEF LossAfter
  <2>2. m - 1 \in 1 .. Len(events') /\ n < m - 1 /\ events'[m - 1] \in LossEvents
    BY <1>3, <1>4, <2>1
  <2> QED BY <2>2 DEF LossAfter
<1>8. events[1] \in EventKinds /\ 1 \in 1 .. Len(events)
  BY <1>1
<1>9. \A n \in 1 .. Len(events') : n + 1 \in 1 .. Len(events)
  BY <1>1
<1> QED BY <1>1, <1>2, <1>5, <1>6, <1>7, <1>8, <1>9

-----------------------------------------------------------------------------
(* Types, and which thread asks the driver. *)

\* The steps that move a thread move only that one, to one of its places.
LEMMA WifiTypeStep == WifiTypes /\ [Next]_vars => WifiTypes'
<1> SUFFICES ASSUME WifiTypes, [Next]_vars PROVE WifiTypes'
  OBVIOUS
<1> USE DEF WifiTypes
<1>1. ASSUME NEW e \in EventKinds, Report(e) PROVE events' \in Seq(EventKinds)
  BY <1>1 DEF Report
<1>2. CASE DriverNext
  <2>1. pc' = pc /\ link' \in {"idle", "connecting", "up"}
    BY <1>2 DEF DriverNext, DriverResult, DriverConnects, DriverFails, LinkLost, DhcpBound,
                DhcpStop, NetworkMoves, ManagerUnchanged
  <2>2. events' \in Seq(EventKinds)
    BY <1>1, <1>2 DEF DriverNext, DriverResult, DriverConnects, DriverFails, LinkLost,
                      DhcpBound, DhcpStop, NetworkMoves, EventKinds, LossEvents
  <2> QED BY <2>1, <2>2
<1>3. CASE HandleEvent
  BY <1>3, Handled DEF HandleEvent
<1>4. CASE ReadNext
  BY <1>4 DEF ReadNext, CollectTest, ReadyTest, ReadyMark, CollectField, ReadyReturn,
              ReaderUnchanged, driver
<1>5. CASE StartStep
  <2>1. link' = link /\ pc' \in [Threads -> Pcs]
    BY <1>5 DEF StartStep, Capture, RotateStaMac, EnableAp, StartStation, Goto, AfterAp,
                Threads, Pcs, driver
  <2>2. events' \in Seq(EventKinds)
    BY <1>1, <1>5 DEF StartStep, Capture, RotateStaMac, EnableAp, StartStation, driver,
                      EventKinds
  <2> QED BY <2>1, <2>2
<1>6. CASE RetryStep
  BY <1>6 DEF RetryStep, RetryGate, RetryTest, Goto, Threads, Pcs, driver
<1>7. ASSUME NEW t \in Threads, RequestStep(t) \/ ConnectSta(t) \/ ConnectRefused(t)
      PROVE  WifiTypes'
  <2>1. pc' \in [Threads -> Pcs]
    <3>1. AfterConnect(t) => Goto(t, "done") \/ Goto(t, "test")
      BY <1>7 DEF AfterConnect, Threads
    <3>2. Goto(t, "pause") \/ Goto(t, "connect") \/ Goto(t, "requested") \/ AfterConnect(t)
      BY <1>7, Zenon DEF RequestStep, DisconnectSta, Pause, ConnectSkipped, SetRequested,
                         ConnectSta, ConnectRefused
    <3>3. PICK l \in Pcs : Goto(t, l)
      BY <3>1, <3>2 DEF Pcs
    <3> QED BY <3>3 DEF Goto
  <2>2. link' \in {"idle", "connecting", "up"}
    BY <1>7 DEF RequestStep, DisconnectSta, Pause, ConnectSkipped, SetRequested, ConnectSta,
                ConnectRefused, driver
  <2>3. events' \in Seq(EventKinds)
    BY <1>1, <1>7 DEF RequestStep, DisconnectSta, Pause, ConnectSkipped, SetRequested,
                      ConnectSta, ConnectRefused, driver, EventKinds, LossEvents
  <2> QED BY <2>1, <2>2, <2>3
<1>8. CASE UNCHANGED vars
  BY <1>8 DEF vars, driver
<1> QED BY <1>2, <1>3, <1>4, <1>5, <1>6, <1>7, <1>8 DEF Next, RequestNext

\* The gate keeps the retry thread back until main has asked.
LEMMA OneAsksStep == WifiTypes /\ OneAsks /\ [Next]_vars => OneAsks'
<1> SUFFICES ASSUME WifiTypes, OneAsks, [Next]_vars PROVE OneAsks'
  OBVIOUS
<1>0. Threads = {"main", "retry"} /\ pc \in [Threads -> Pcs]
      /\ link \in {"idle", "connecting", "up"}
  BY DEF WifiTypes, Threads
<1>1. CASE UNCHANGED <<pc, sta_retry_enabled, link, addr>>
  BY <1>1 DEF OneAsks
<1>2. CASE DriverNext
  <2>1. UNCHANGED <<pc, sta_retry_enabled>> /\ (link = "idle" => link' = "idle" /\ (~addr => ~addr'))
    BY <1>0, <1>2 DEF DriverNext, DriverResult, DriverConnects, DriverFails, LinkLost,
                DhcpBound, DhcpStop, NetworkMoves, ManagerUnchanged
  <2> QED BY <2>1 DEF OneAsks
<1>3. HandleEvent \/ ReadNext \/ UNCHANGED vars => UNCHANGED <<pc, sta_retry_enabled, link, addr>>
  BY DEF HandleEvent, ReadNext, CollectTest, ReadyTest, ReadyMark, CollectField, ReadyReturn,
         ReaderUnchanged, driver, vars
<1>4. CASE Capture \/ RotateStaMac \/ EnableAp
  <2>1. /\ pc["main"] \notin {"requested", "done"} /\ UNCHANGED <<sta_retry_enabled, link, addr>>
        /\ \E l \in {"rotate", "ap", "station"} : pc' = [pc EXCEPT !["main"] = l]
    BY <1>4 DEF Capture, RotateStaMac, EnableAp, Goto, AfterAp, driver
  <2> QED BY <1>0, <2>1 DEF OneAsks
<1>5. CASE StartStation
  <2>1. /\ pc["main"] = "station" /\ UNCHANGED <<link, addr>>
        /\ \/ pc' = [pc EXCEPT !["main"] = "disconnect"] /\ UNCHANGED sta_retry_enabled
           \/ pc' = [pc EXCEPT !["main"] = "done"]
    BY <1>5 DEF StartStation, Goto, driver
  <2> QED BY <1>0, <2>1 DEF OneAsks
<1>6. CASE RetryStep
  <2>1. /\ UNCHANGED <<sta_retry_enabled, link, addr>>
        /\ pc["retry"] # "gate" \/ sta_retry_enabled
        /\ \E l \in {"test", "exit", "backoff", "disconnect"} : pc' = [pc EXCEPT !["retry"] = l]
    BY <1>6 DEF RetryStep, RetryGate, GateOpen, RetryTest, Goto, driver
  <2> QED BY <1>0, <2>1 DEF OneAsks
<1>7. ASSUME NEW t \in Threads, DisconnectSta(t) \/ Pause(t) PROVE OneAsks'
  <2>1. /\ UNCHANGED <<sta_retry_enabled, addr>>
        /\ pc[t] \in {"disconnect", "pause"}
        /\ \/ pc' = [pc EXCEPT ![t] = "pause"] /\ link' = "idle"
           \/ pc[t] = "pause" /\ pc' = [pc EXCEPT ![t] = "connect"] /\ link' = link
    BY <1>7 DEF DisconnectSta, Pause, Goto, driver
  <2> QED BY <1>0, <2>1 DEF OneAsks
<1>8. ASSUME NEW t \in Threads, ConnectSta(t) PROVE OneAsks'
  <2>1. UNCHANGED <<sta_retry_enabled, addr>> /\ pc[t] = "connect"
        /\ pc' = [pc EXCEPT ![t] = "requested"]
    BY <1>8 DEF ConnectSta, Goto
  <2>2. \A u \in Threads : pc'[u] \in {"pause", "connect"} => FALSE
    BY <1>0, <2>1 DEF OneAsks
  <2> QED BY <1>0, <2>1, <2>2 DEF OneAsks
<1>9. ASSUME NEW t \in Threads, ConnectSkipped(t) \/ SetRequested(t) \/ ConnectRefused(t)
      PROVE  OneAsks'
  <2>1. UNCHANGED <<link, addr>> /\ pc[t] \in {"connect", "requested"}
        /\ \/ t = "main" /\ pc' = [pc EXCEPT ![t] = "done"]
           \/ t = "retry" /\ pc' = [pc EXCEPT ![t] = "test"] /\ UNCHANGED sta_retry_enabled
    BY <1>0, <1>9 DEF ConnectSkipped, SetRequested, ConnectRefused, AfterConnect, Goto, driver
  <2> QED BY <1>0, <2>1 DEF OneAsks
<1> QED BY <1>1, <1>2, <1>3, <1>4, <1>5, <1>6, <1>7, <1>8, <1>9
        DEF Next, StartStep, RequestNext, RequestStep

-----------------------------------------------------------------------------
(* The flags. *)

\* A step that reports nothing and handles nothing.
LEMMA QuietStep ==
    ASSUME Truthful, UNCHANGED <<link, addr, events>>, raced' <=> raced,
           sta_connected' <=> sta_connected,
           link = "idle" /\ sta_connect_requested' => sta_connect_requested \/ LossAhead,
           \A t \in Threads : pc'[t] = "requested" => pc[t] = "requested",
           readyPc' = "mark" => readyPc = "mark" \/ sta_connected
    PROVE  Truthful'
<1>1. (LossAhead' <=> LossAhead) /\ \A n : LossAfter(n)' <=> LossAfter(n)
  BY DEF LossAhead, LossAfter
<1>2. CASE ~raced
  <2>1. ClaimsEnd'
    BY <1>1, <1>2 DEF Truthful, ClaimsEnd
  <2>2. RequestsEnd'
    BY <1>1, <1>2 DEF Truthful, RequestsEnd
  <2>3. MarksConnected'
    BY <1>2 DEF Truthful, MarksConnected
  <2> QED BY <2>1, <2>2, <2>3 DEF Truthful
<1> QED BY <1>2 DEF Truthful

\* The driver reports the end of a link or of an attempt.
LEMMA LossReported ==
    ASSUME WifiTypes, Truthful, NEW e \in LossEvents, Report(e), UNCHANGED <<flags, readyPc, raced>>
    PROVE  Truthful'
<1>1. events \in Seq(EventKinds) /\ e \in EventKinds /\ events' = Append(events, e)
  BY DEF WifiTypes, Report, EventKinds
<1>2. LossAhead' /\ \A n \in 1 .. Len(events') : n \in 1 .. Len(events) \/ events'[n] = e
  BY <1>1, Reported
<1>3. \A n \in 1 .. Len(events) : LossAfter(n)'
  BY <1>1, Reported
<1>4. ClaimsEnd'
  BY <1>2, <1>3 DEF ClaimsEnd, LossEvents
<1>5. RequestsEnd'
  BY <1>2 DEF RequestsEnd
<1>6. MarksConnected \/ raced => MarksConnected' \/ raced'
  BY DEF MarksConnected, flags
<1> QED BY <1>4, <1>5, <1>6 DEF Truthful

\* Another event is reported; it flags no link that is not there.
LEMMA OtherReported ==
    ASSUME WifiTypes, Truthful, NEW e \in {"addr", "stop"}, Report(e), e = "addr" => ~addr,
           UNCHANGED <<flags, readyPc, raced, link>>, addr' => addr,
           \A t \in Threads : pc'[t] = "requested" => pc[t] = "requested"
    PROVE  Truthful'
<1>1. events \in Seq(EventKinds) /\ e \in EventKinds /\ events' = Append(events, e)
  BY DEF WifiTypes, Report, EventKinds
<1>2. /\ LossAhead => LossAhead'
      /\ \A n \in 1 .. Len(events') : n \in 1 .. Len(events) \/ events'[n] = e
      /\ \A n \in 1 .. Len(events) : events'[n] = events[n] /\ (LossAfter(n) => LossAfter(n)')
  BY <1>1, Reported
<1>3. (sta_connected' <=> sta_connected) /\ (sta_connect_requested' <=> sta_connect_requested)
      /\ (raced' <=> raced)
  BY DEF flags
<1>4. ~raced => ClaimsEnd'
  BY <1>2, <1>3 DEF Truthful, ClaimsEnd
<1>5. ~raced => RequestsEnd'
  BY <1>2, <1>3 DEF Truthful, RequestsEnd
<1>6. ~raced => MarksConnected'
  BY <1>3 DEF Truthful, MarksConnected
<1> QED BY <1>3, <1>4, <1>5, <1>6 DEF Truthful

\* What the two event handlers make of the flags.
LEMMA HandlerFlags ==
    ASSUME WifiTypes, HandleEvent
    PROVE  /\ UNCHANGED <<link, addr, pc, readyPc>>
           /\ \/ Head(events) = "connected" /\ ~sta_connect_requested' /\ sta_connected'
              \/ /\ Head(events) \in LossEvents /\ ~sta_connected' /\ ~sta_connect_requested'
                 /\ ~raced' => ~InWindow
              \/ /\ Head(events) = "addr" /\ (sta_connected' <=> sta_connected \/ addr)
                 /\ (sta_connect_requested' <=> sta_connect_requested)
              \/ /\ Head(events) = "stop" /\ (sta_connected' <=> sta_connected)
                 /\ (sta_connect_requested' <=> sta_connect_requested)
           /\ ~raced' => ~raced
<1>1. UNCHANGED <<link, addr, pc, readyPc>>
  BY DEF HandleEvent
<1>2. (~raced' => ~raced) /\ (Head(events) \in LossEvents /\ ~raced' => ~InWindow)
  BY DEF HandleEvent, LossEvents
<1>3. CASE Head(events) = "connected"
  <2>1. OnConnected
    BY <1>3 DEF HandleEvent
  <2> QED BY <1>1, <1>2, <1>3, <2>1 DEF OnConnected, MarkReady
<1>4. CASE Head(events) \in LossEvents
  <2>1. OnLost
    BY <1>4 DEF HandleEvent, LossEvents
  <2> QED BY <1>1, <1>2, <1>4, <2>1 DEF OnLost, ClearAll
<1>5. CASE Head(events) = "addr"
  <2>1. OnAddr
    BY <1>5 DEF HandleEvent
  <2> QED BY <1>1, <1>2, <1>5, <2>1 DEF OnAddr, MarkReady
<1>6. CASE Head(events) = "stop"
  <2>1. OnStop
    BY <1>6 DEF HandleEvent
  <2> QED BY <1>1, <1>2, <1>6, <2>1 DEF OnStop
<1>7. Head(events) \in EventKinds
  BY DEF WifiTypes, HandleEvent
<1> QED BY <1>3, <1>4, <1>5, <1>6, <1>7 DEF EventKinds

\* Handling the first event keeps the flags explained by the events behind it.
LEMMA HandleKeeps ==
    ASSUME WifiTypes, Truthful, HandleEvent
    PROVE  Truthful'
<1> SUFFICES ASSUME ~raced' PROVE ClaimsEnd' /\ RequestsEnd' /\ MarksConnected'
  BY DEF Truthful
<1>1. ClaimsEnd /\ RequestsEnd /\ MarksConnected
  BY HandlerFlags DEF Truthful
<1>2. events \in Seq(EventKinds) /\ events # <<>> /\ events' = Tail(events)
  BY DEF WifiTypes, HandleEvent
<1>3. /\ 1 \in 1 .. Len(events) /\ Head(events) = events[1]
      /\ LossAhead /\ events[1] \notin LossEvents => LossAhead'
      /\ LossAfter(1) => LossAhead'
      /\ \A n \in 1 .. Len(events') : /\ n + 1 \in 1 .. Len(events)
                                      /\ events'[n] = events[n + 1]
                                      /\ LossAfter(n + 1) => LossAfter(n)'
  BY <1>2, Handled
<1>4. UNCHANGED <<link, addr, pc, readyPc>>
  BY HandlerFlags
<1>5. link # "up" => \A n \in 1 .. Len(events') :
              events'[n] = "connected" \/ (events'[n] = "addr" /\ addr') => LossAfter(n)'
  BY <1>1, <1>3, <1>4 DEF ClaimsEnd
<1>6. CASE Head(events) = "connected" /\ ~sta_connect_requested' /\ sta_connected'
  <2>1. events[1] = "connected" /\ events[1] \notin LossEvents
    BY <1>3, <1>6 DEF LossEvents
  <2>2. ClaimsEnd'
    BY <1>1, <1>3, <1>4, <1>5, <2>1 DEF ClaimsEnd
  <2>3. RequestsEnd'
    BY <1>1, <1>3, <1>4, <1>6, <2>1 DEF RequestsEnd
  <2> QED BY <1>6, <2>2, <2>3 DEF MarksConnected
<1>7. CASE /\ Head(events) \in LossEvents /\ ~sta_connected' /\ ~sta_connect_requested'
           /\ ~raced' => ~InWindow
  <2>1. readyPc # "mark" /\ \A t \in Threads : pc[t] # "requested"
    BY <1>7 DEF InWindow
  <2>2. ClaimsEnd'
    BY <1>4, <1>5, <1>7 DEF ClaimsEnd
  <2>3. RequestsEnd' /\ MarksConnected'
    BY <1>4, <1>7, <2>1 DEF RequestsEnd, MarksConnected
  <2> QED BY <2>2, <2>3
<1>8. CASE /\ Head(events) = "addr" /\ (sta_connected' <=> sta_connected \/ addr)
           /\ (sta_connect_requested' <=> sta_connect_requested)
  <2>1. events[1] = "addr" /\ events[1] \notin LossEvents
    BY <1>3, <1>8 DEF LossEvents
  <2>2. ClaimsEnd'
    BY <1>1, <1>3, <1>4, <1>5, <1>8, <2>1 DEF ClaimsEnd
  <2>3. RequestsEnd' /\ MarksConnected'
    BY <1>1, <1>3, <1>4, <1>8, <2>1 DEF RequestsEnd, MarksConnected
  <2> QED BY <2>2, <2>3
<1>9. CASE /\ Head(events) = "stop" /\ (sta_connected' <=> sta_connected)
           /\ (sta_connect_requested' <=> sta_connect_requested)
  <2>1. events[1] = "stop" /\ events[1] \notin LossEvents
    BY <1>3, <1>9 DEF LossEvents
  <2>2. ClaimsEnd'
    BY <1>1, <1>3, <1>4, <1>5, <1>9, <2>1 DEF ClaimsEnd
  <2>3. RequestsEnd' /\ MarksConnected'
    BY <1>1, <1>3, <1>4, <1>9, <2>1 DEF RequestsEnd, MarksConnected
  <2> QED BY <2>2, <2>3
<1> QED BY <1>6, <1>7, <1>8, <1>9, HandlerFlags

\* The driver and the DHCP client.
LEMMA DriverKeeps ==
    ASSUME WifiInv, DriverNext
    PROVE  Truthful'
<1> USE DEF WifiInv
<1>1. UNCHANGED <<flags, pc, readyPc, raced>>
  BY DEF DriverNext, DriverResult, DriverConnects, DriverFails, LinkLost, DhcpBound, DhcpStop,
         NetworkMoves, ManagerUnchanged
<1>2. (sta_connected' <=> sta_connected) /\ (raced' <=> raced)
      /\ (sta_connect_requested' <=> sta_connect_requested)
  BY <1>1 DEF flags
<1>3. CASE DriverConnects \/ DhcpBound
  <2>1. link' = "up"
    BY <1>3 DEF DriverConnects, DhcpBound
  <2>2. ClaimsEnd' /\ RequestsEnd'
    BY <2>1 DEF ClaimsEnd, RequestsEnd
  <2>3. raced' \/ MarksConnected'
    BY <1>1, <1>2 DEF Truthful, MarksConnected
  <2> QED BY <2>2, <2>3 DEF Truthful
<1>4. CASE DriverFails \/ LinkLost
  BY <1>1, <1>4, LossReported DEF DriverFails, LinkLost, LossEvents
<1>5. CASE DhcpStop
  <2>1. Report("stop") /\ link' = link /\ ~addr'
    BY <1>5 DEF DhcpStop
  <2> QED BY <1>1, <2>1, OtherReported
<1>6. CASE NetworkMoves
  BY <1>1, <1>2, <1>6, QuietStep DEF NetworkMoves
<1> QED BY <1>3, <1>4, <1>5, <1>6 DEF DriverNext, DriverResult

\* wifi_manager_sta_ready sets no flag that is not set.
LEMMA ReadKeeps ==
    ASSUME WifiInv, ReadNext
    PROVE  Truthful'
<1> USE DEF WifiInv
<1>1. UNCHANGED <<sta_connect_requested, pc, link, addr, events, raced>>
  BY DEF ReadNext, CollectTest, ReadyTest, ReadyMark, CollectField, ReadyReturn,
         ReaderUnchanged, driver
<1>2. (raced' <=> raced) /\ (sta_connect_requested' <=> sta_connect_requested)
  BY <1>1
<1>3. CASE CollectTest
  <2>1. (sta_connected' <=> sta_connected) /\ (readyPc' = "mark" => sta_connected)
    BY <1>3 DEF CollectTest, ReadyTest
  <2> QED BY <1>1, <1>2, <2>1, QuietStep
<1>4. CASE CollectField
  <2>1. (sta_connected' <=> sta_connected) /\ readyPc' = "idle"
    BY <1>4 DEF CollectField, ReadyReturn
  <2> QED BY <1>1, <1>2, <2>1, QuietStep
<1>5. CASE ReadyMark
  <2>1. readyPc = "mark" /\ readyPc' = "result" /\ (sta_connected => sta_connected')
    BY <1>5 DEF ReadyMark, MarkReady
  <2>2. CASE raced
    BY <1>2, <2>2 DEF Truthful
  <2>3. CASE ~raced
    <3>1. sta_connected
      BY <2>1, <2>3 DEF Truthful, MarksConnected
    <3>2. sta_connected' <=> sta_connected
      BY <2>1, <3>1
    <3> QED BY <1>1, <1>2, <2>1, <3>2, QuietStep
  <2> QED BY <2>2, <2>3
<1> QED BY <1>3, <1>4, <1>5 DEF ReadNext

\* main and the retry thread.
LEMMA AskKeeps ==
    ASSUME WifiInv, StartStep \/ RetryStep \/ RequestNext
    PROVE  Truthful'
<1> USE DEF WifiInv
<1>0. Threads = {"main", "retry"} /\ pc \in [Threads -> Pcs]
      /\ link \in {"idle", "connecting", "up"}
  BY DEF WifiTypes, Threads
<1>1. UNCHANGED <<sta_connected, readyPc, addr, raced>>
  BY DEF StartStep, Capture, RotateStaMac, EnableAp, StartStation, RetryStep, RetryGate,
         RetryTest, RequestNext, RequestStep, DisconnectSta, Pause, ConnectSkipped,
         SetRequested, ConnectSta, ConnectRefused, driver, flags
<1>2. (sta_connected' <=> sta_connected) /\ (raced' <=> raced)
  BY <1>1
<1>3. CASE Capture \/ RotateStaMac \/ StartStation \/ RetryStep
  <2>1. UNCHANGED <<link, events, sta_connect_requested>>
    BY <1>3 DEF Capture, RotateStaMac, StartStation, RetryStep, RetryGate, RetryTest, driver,
                flags
  <2>2. \A t \in Threads : pc'[t] = "requested" => pc[t] = "requested"
    BY <1>0, <1>3 DEF Capture, RotateStaMac, StartStation, RetryStep, RetryGate, RetryTest, Goto
  <2>3. sta_connect_requested' <=> sta_connect_requested
    BY <2>1
  <2> QED BY <1>1, <1>2, <2>1, <2>2, <2>3, QuietStep
<1>4. CASE EnableAp
  <2>1. /\ pc["main"] = "ap" /\ UNCHANGED <<link, flags>>
        /\ pc' = [pc EXCEPT !["main"] = "station"]
        /\ Report("addr") \/ UNCHANGED events
    BY <1>4 DEF EnableAp, Goto, AfterAp
  <2>2. ~addr /\ ~addr'
    BY <1>1, <2>1 DEF OneAsks
  <2>3. \A t \in Threads : pc'[t] = "requested" => pc[t] = "requested"
    BY <1>0, <2>1
  <2>4. CASE Report("addr")
    BY <1>1, <2>1, <2>2, <2>3, <2>4, OtherReported
  <2>5. CASE UNCHANGED events
    <3>1. sta_connect_requested' <=> sta_connect_requested
      BY <2>1 DEF flags
    <3> QED BY <1>1, <1>2, <2>1, <2>3, <2>5, <3>1, QuietStep
  <2> QED BY <2>1, <2>4, <2>5
<1>5. ASSUME NEW t \in Threads, DisconnectSta(t) PROVE Truthful'
  <2>1. UNCHANGED flags /\ pc' = [pc EXCEPT ![t] = "pause"]
    BY <1>5 DEF DisconnectSta, Goto
  <2>2. CASE link = "idle"
    <3>1. UNCHANGED <<link, events>>
      BY <1>5, <2>2 DEF DisconnectSta
    <3>2. \A u \in Threads : pc'[u] = "requested" => pc[u] = "requested"
      BY <1>0, <2>1
    <3>3. sta_connect_requested' <=> sta_connect_requested
      BY <2>1 DEF flags
    <3> QED BY <1>1, <1>2, <3>1, <3>2, <3>3, QuietStep
  <2>3. CASE link # "idle"
    <3>1. Report("disconnected")
      BY <1>5, <2>3 DEF DisconnectSta
    <3> QED BY <1>1, <2>1, <3>1, LossReported DEF LossEvents
  <2> QED BY <2>2, <2>3
<1>6. ASSUME NEW t \in Threads, ConnectSta(t) PROVE Truthful'
  <2>1. link = "idle" /\ link' = "connecting" /\ UNCHANGED events
    BY <1>6 DEF ConnectSta, OneAsks
  <2>2. (LossAhead' <=> LossAhead) /\ \A n : LossAfter(n)' <=> LossAfter(n)
    BY <2>1 DEF LossAhead, LossAfter
  <2>3. ~raced => ClaimsEnd'
    BY <1>1, <1>2, <2>1, <2>2 DEF Truthful, ClaimsEnd
  <2>4. RequestsEnd'
    BY <2>1 DEF RequestsEnd
  <2>5. ~raced => MarksConnected'
    BY <1>1, <1>2 DEF Truthful, MarksConnected
  <2> QED BY <1>2, <2>3, <2>4, <2>5 DEF Truthful
<1>7. ASSUME NEW t \in Threads, Pause(t) \/ ConnectSkipped(t) \/ ConnectRefused(t)
      PROVE  Truthful'
  <2>1. UNCHANGED <<link, events>> /\ (sta_connect_requested' => sta_connect_requested)
    BY <1>7 DEF Pause, ConnectSkipped, ConnectRefused, driver, flags
  <2>2. \A u \in Threads : pc'[u] = "requested" => pc[u] = "requested"
    BY <1>0, <1>7 DEF Pause, ConnectSkipped, ConnectRefused, AfterConnect, Goto
  <2> QED BY <1>1, <1>2, <2>1, <2>2, QuietStep
<1>8. ASSUME NEW t \in Threads, SetRequested(t) PROVE Truthful'
  <2>1. UNCHANGED <<link, events>> /\ pc[t] = "requested"
    BY <1>8 DEF SetRequested, driver
  <2>2. \A u \in Threads : pc'[u] = "requested" => pc[u] = "requested"
    BY <1>0, <1>8 DEF SetRequested, AfterConnect, Goto
  <2>3. ~raced /\ link = "idle" => LossAhead
    BY <2>1 DEF Truthful, RequestsEnd
  <2>4. CASE ~raced
    BY <1>1, <1>2, <2>1, <2>2, <2>3, <2>4, QuietStep
  <2>5. CASE raced
    BY <1>2, <2>5 DEF Truthful
  <2> QED BY <2>4, <2>5
<1> QED BY <1>3, <1>4, <1>5, <1>6, <1>7, <1>8 DEF StartStep, RequestNext, RequestStep

-----------------------------------------------------------------------------
\* Nothing is flagged before the network is started.
LEMMA WifiInit == Init => WifiInv
<1> SUFFICES ASSUME Init PROVE WifiInv
  OBVIOUS
<1>1. WifiTypes
  BY DEF Init, WifiTypes, Threads, Pcs
<1>2. OneAsks
  BY DEF Init, OneAsks, Threads
<1>3. Truthful
  <2>1. ClaimsEnd
    BY DEF Init, ClaimsEnd
  <2>2. RequestsEnd
    BY DEF Init, RequestsEnd, Threads
  <2>3. MarksConnected
    BY DEF Init, MarksConnected
  <2> QED BY <2>1, <2>2, <2>3 DEF Truthful
<1> QED BY <1>1, <1>2, <1>3 DEF WifiInv

\* The invariant is inductive.
LEMMA WifiStep == WifiInv /\ [Next]_vars => WifiInv'
<1> SUFFICES ASSUME WifiInv, [Next]_vars PROVE WifiInv'
  OBVIOUS
<1>1. WifiTypes' /\ OneAsks'
  BY WifiTypeStep, OneAsksStep DEF WifiInv
<1>2. CASE UNCHANGED vars
  <2>1. UNCHANGED <<link, addr, events, pc, readyPc, flags, raced>>
    BY <1>2 DEF vars, driver
  <2>2. (sta_connected' <=> sta_connected) /\ (raced' <=> raced)
        /\ (sta_connect_requested' <=> sta_connect_requested)
    BY <2>1 DEF flags
  <2>3. Truthful'
    BY <2>1, <2>2, QuietStep DEF WifiInv
  <2> QED BY <1>1, <2>3 DEF WifiInv
<1>3. CASE HandleEvent
  BY <1>1, <1>3, HandleKeeps DEF WifiInv
<1> QED BY <1>1, <1>2, <1>3, DriverKeeps, ReadKeeps, AskKeeps DEF Next, WifiInv

\* sta_connect_requested and sta_connected never claim more than the driver does,
\* once the events on their way are handled, in whatever order main, the retry
\* thread, the event handlers and the readers run outside the two windows.
THEOREM FlagsStayTruthful == FairSpec => []FlagsTruthful
<1>1. WifiInv => FlagsTruthful
  <2> SUFFICES ASSUME WifiInv, events = <<>>, ~raced
               PROVE  /\ sta_connect_requested => link # "idle"
                      /\ sta_connected => link = "up"
    BY DEF FlagsTruthful, Settled
  <2>1. ~LossAhead
    BY DEF LossAhead
  <2> QED BY <2>1 DEF WifiInv, Truthful, ClaimsEnd, RequestsEnd
<1> QED BY <1>1, WifiInit, WifiStep, PTL DEF FairSpec
=============================================================================
