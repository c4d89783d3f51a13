# ESP NMEA bridge: TLA+ models, checks and proofs

The ESP NMEA bridge is firmware for an ESP32-C6 (Zephyr). It reads NMEA 0183
lines from a UART, drops the AIS reports of its own ship, and copies every
other line to TCP peers: up to three that connect to its server, and one it
connects to itself. A web app configures it, shows its status and updates its
firmware.

This directory models the program under `src/src/`. Section 1 is the inventory
of the system, section 2 says which module models what, section 3 what TLC
checks, section 4 what is proved, section 5 where code and documentation
disagree, section 6 what is left out, and section 7 what comes next.

## 1. The system

### 1.1 Threads

The target has one core; a lower number preempts a higher one.

| Thread | Priority | Code |
|---|---|---|
| UART receive | 4 | `uart_nmea.c` |
| dispatcher | 5 | `nmea_bridge.c` |
| TCP server, peer threads, TCP client | 7 | `tcp_nmea_server.c`, `tcp_nmea_client.c`, `tcp_nmea_session.c` |
| web server | 8 | `web_app.c` (runs `bridge_config.c`, `ota_update.c`, `bridge_telemetry.c`) |
| status LED, statistics, Wi-Fi retry | 10 | `status_led.c`, `main.c`, `wifi_manager.c` |
| network event thread, system work queue | Zephyr | event handlers of `wifi_manager.c`; delayed reboot of `web_app.c` |

### 1.2 Components

**NMEA bridge** (`nmea_bridge.c`). *State*: ingest queue, table of sinks with a
queue and statistics each, `sinks_lock`, `bridge_stats`. *Operations*: publish a
frame, dispatch it to every active sink, open / take from / close a sink.
*Interaction*: called by the UART thread and by every session; its counters feed
telemetry. *Hard*: `put_drop_oldest` is three kernel calls, a session is
preempted between testing `active` and taking from the queue, slots are
recycled. *Correct when* no frame is lost without being counted, sinks see
frames in order and once, a slow sink loses old frames of its own only, and
nothing crosses over to the next owner of a slot.

**TCP server and sessions** (`tcp_nmea_server.c`, `tcp_nmea_session.c`).
*State*: listening socket, peer slots with thread, stack and descriptor,
`active_sessions`. *Operations*: accept, allocate or reject, run a session
(open sink, drain, take, send), clean up. *Hard*: several ways to end with
different things to give back; exact fit of sinks to sessions. *Correct when*
everything taken is returned once, a slot is handed on only when its former
session has given everything back, and a slot whose peer has gone comes back.

**TCP client** (`tcp_nmea_client.c`). *State*: `config_gen`,
`config_change_sem`, `session_fd` under `session_fd_lock`, and the loop's own
snapshot. *Operations*: read a configuration, resolve, connect, run a session,
back off; the listener bumps the generation, wakes the loop, and shuts the
socket down. *Hard*: the listener runs in the web thread at any point of the
loop; descriptor numbers are shared with every other thread. *Correct when* a
change always takes effect, no descriptor leaks, and no foreign descriptor is
shut down.

**UART input and AIS filter** (`uart_nmea.c`, `ais_mmsi_filter.c`). *State*:
line buffer, skip flag, the filter with one remembered multipart sequence, the
effective MMSI. *Operations*: receive a byte, end a line, decide, apply a new
MMSI. *Hard*: lines around the buffer size; lost and interleaved fragments;
configuration changes in the middle of a message. *Correct when* only whole
lines leave, own messages are dropped as a whole, and nothing else is.

**Bridge configuration** (`bridge_config.c`, handlers in `web_app.c`).
*State*: five sections in RAM, their records in settings/NVS, two sticky flags.
*Operations*: load, five setters, factory reset in passes, listener. *Hard*: a
request saves several sections one after the other; each save may fail; power
may go in between; a reset can fail half way. *Correct when* what was
acknowledged is what the next boot runs on, and a difference between RAM and
store is always announced as a required reboot.

**OTA update** (`ota_update.c`, upload and status handlers in `web_app.c`).
*State*: status structure, the two image slots with MCUboot's flags, the delayed
reboot. *Operations*: begin (with an erase of many sectors), write, finish (flush,
then upgrade request), self-check, reboot, boot. *Hard*: power loss anywhere, in
the middle of the erase and before the request too; a second upload before the
reboot; confirmation. *Correct when* only complete images are asked for, they run
as test images first, and only reachable ones stay.

**Web server** (`web_app.c`). *State*: one connection, one receive buffer.
*Operations*: accept, read header and body, dispatch, answer, close. *Hard*:
chunks split anywhere, lengths at the limit, one thread for everybody. *Correct
when* nothing is read or written beyond the buffer or the stated length, and a
client cannot keep others out.

**Wi-Fi manager** (`wifi_manager.c`). *State*: the captured settings, three
station flags and a gate written by several threads without a lock, a backoff.
*Operations*: start-up (capture, MAC rotation, access point, station), connect,
disconnect and retry, two event handlers, readiness query. *Hard*: events are
handled between a driver call and the assignment after it; the retry thread
exists before the settings do; asking for readiness changes flags. *Correct
when* the flags agree with the driver, the station reconnects whatever failed at
start-up, and the status shows it.

**Status LED** (`status_led.c`, `status_led_policy.c`). *State*: policy, retry
backoff, last colour applied. *Operations*: reports, render, update strip.
*Hard*: 32-bit milliseconds, failing strip, reports at any rate. *Correct when*
flashes are short, the backoff holds, and the strip catches up with the policy.

**Bridge telemetry** (`bridge_telemetry.c`). *State*: last seen frame counter
and the time it changed. *Operation*: build a snapshot, for every status request.
*Hard*: snapshots come at arbitrary times; the counter wraps; the station fields
are read one after the other. *Correct when* recent input is never called idle
and contradictions between fields do not last.

**Browser client** (`web_assets/app.js`). *State*: connection and reboot flags,
the banner, the controls of the configuration cards and of the firmware card.
*Operations*: poll the status every 2 s without waiting for the last answer, load
the configuration and retry, save, factory reset, reboot, upload. *Hard*: answers
are lost or overtake each other, and the device may restart without the page
noticing. *Correct when* no control stays disabled for good and the banner tells
what the device would tell.

**Start-up** (`main.c`), **assets**, **DNS-SD records**, **boards**, **tests**:
see section 6.

The `hazards` list of `PROJECT.json` names the lines where these difficulties
bite and the properties aimed at them.

### 1.3 How the models divide the program

Components meet at narrow interfaces, and the module on each side of one keeps
what the other side may do:

* `UartNmea` hands a line to the bridge: the `Publish…` actions of `NmeaBridge`.
* a session's use of a sink is `Open…`, `Take…`, `Close…` in `NmeaBridge`; in
  `TcpNmeaServer` it is one sink held or not; in `TcpNmeaClient` the socket side.
* `bridge_config_changed` is the action `Listener` of `BridgeConfig`, `Notify`
  of `TcpNmeaClient` and `SetAisConfig` of `UartNmea`.
* `WebServer` has the transport of a request; `BridgeConfig` and `OtaUpdate` the
  effect of the handlers. A status request is composed with `BridgeTelemetry`.
* `OtaPage` extends `OtaUpdate` with the browser on the other side of the network.
  `WebPage` keeps of the device only the reboot-required flag and the delayed
  reboot; both share the polls with each other and nothing else.
* the session counter of the LED appears in `TcpNmeaServer` (is it exact?) and in
  `StatusLed` (what is shown).

## 2. The modules

Variables carry the names of the C variables they stand for; those that are not
C variables (program counters, environment, history) are in camelCase or are
commented. `PROJECT.json` maps every definition to its lines. Operators marked
"Mutant" are the damaged variants used to test the properties; no specification
uses them.

**`NmeaBridge`.** Three kinds of threads with program counters `uartPc`,
`dispPc`, `sessPc`. Every kernel call (`k_msgq_put`, `get`, `purge`,
`k_mutex_lock`) is a step of its own, and a thread moves only while no thread of
higher priority can. So `PublishFrame`, `PublishDrop`, `PublishReput` are the
three calls of `put_drop_oldest` on the ingest queue and `DispPut`, `DispDrop`,
`DispReput` those on a sink queue. Priorities matter: they are why a queue is not
touched between the failed put and the second one. `taken`, `lastTaken`,
`openedAfter` and `retiredDrops` are history variables. Frames are their numbers
in order of acceptance; their content plays no role on this path.

**`FrameBroadcast`, `NmeaBridgeRefinement`.** What the bridge promises, without
threads, locks and slots: a backlog and subscriptions that are bounded, start
empty and lose their oldest frame when full, and nothing else; and the mapping
under which `NmeaBridge` implements it. A put that has begun counts as done
(`Backlog`), and a frame counts as delivered to all open sinks at once when the
dispatcher has `sinks_lock` (`Delivered`). That is sound because nobody who reads
a queue runs before the three calls, and the loop over the sinks, are through;
without the priorities or the lock the mapping breaks.

**`TcpNmeaServer`.** `server_thread`, one thread per slot, and the client thread
as one more user of sinks and counters. A session loops over drain, take and send;
in `send_all` it may be `"blocked"` for as long as the peer leaves its window closed,
and it does not see a close meanwhile. A peer thread that has freed its slot is
`"leaving"` until it has logged and returned. When the server creates a thread in
such a slot, the program's behaviour is undefined: `srvPc` becomes `"undefined"` and
the model stops. Descriptors are drawn from a finite set and may be reused at once.

**`TcpNmeaClient`.** One label of `pc` per stretch of `client_thread` between
two points where the listener's effects matter; critical sections under
`session_fd_lock` are one step. `owner` is the descriptor table, in which other
threads open and close too. Timed waits may end at any time.

**`AisMmsiFilter`, `UartNmea`.** The filter is a record and two operators,
`ShouldDrop` and the update of the sequence. `UartNmea` is the two nested loops
of the thread, byte by byte for the length, with two radio channels on which
messages of several fragments progress independently; any fragment may be
damaged, unreadable, or lost to an overlong line.

**`BridgeConfig`.** The web thread as one process whose steps are separated
wherever power loss matters: per section, skip / save / update RAM / listener;
for the reset, collect / delete key by key / rescan. Values of a section are
opaque. The store may hold malformed records, unknown keys and a key whose name
does not fit. A boot may fail to read some records (`session = "tainted"`).

**`OtaUpdate`, `OtaPage`.** Status machine, two slots, MCUboot's decision at boot
(external), the delayed reboot, and status polls with the self-check. The erase
of the upload slot takes away the image first and the trailer with the upgrade
request last (`Begin`, `BeginDone`), and flush and upgrade request are two steps
(`Flush`, `RequestUpgrade`); a restart or an error may come between any of them. The
last bytes of an image may reach the slot before the flush. `OtaPage`
puts the firmware card in front of it: polls as counters per phase (they are
alike, so only their number matters), one upload, and the controls as last set.

**`WebPage`.** The configuration cards: polls, loads with their 5 s retry, a save
or reset, a reboot request, all in flight together. `blind` records that the page
had no way to know the flag (section 5).

**`WifiManager`.** Main in `wifi_manager_start`, the retry thread, the event
thread, readiness callers, the snapshot of a status, driver and a queue of events.
The access point and its DHCP server may fail. `raced` records that an event was
handled in one of the two windows the code leaves open (section 5).

**`StatusLed`.** Policy and LED thread over a clock modulo `Wrap`. The reporter
reads the clock before it takes the lock, so there may be one report in between.
The LED thread reads the clock once per round and uses that reading for rendering,
for the comparison with `next_retry_ms` (`mayRetry`) and, when the update fails, for
the next `next_retry_ms`; `MaxLag` bounds the time until the update has ended.
The loop of `status_led_retry_delay_ms` is the recursive function `DelayAfter`.

**`WebServer`, `BridgeTelemetry`.** One thread, a backlog of clients, byte strings
as lengths; a status request takes a snapshot, which compares a wrapping counter
with that of the last one and keeps the input active for a window.

Modules named `MC…` are the TLC instances. Modules named `…Proofs` hold theorems:
`NmeaBridgeProofs`, `TcpNmeaServerProofs`, `TcpNmeaClientProofs` (with `StatusLed`,
to which the client reports), `UartNmeaProofs`, `BridgeConfigProofs`,
`OtaUpdateProofs` (which covers `OtaPage` too), `WifiManagerProofs` and
`WebServerProofs` (with `BridgeTelemetry` and `WebPage`, the page it serves). The
modules that share a proof module keep their names apart (`LedSpec`, `PageSpec`).

## 3. What TLC checks

| Run | What it asks | Bounds | States |
|---|---|---|---|
| `bridge_frames` | Accounting, order, freshness and isolation of frames at every preemption point; the whole is an atomic lossy broadcast that delivers | 3 sessions for 2 sinks, depths 2, 3 frames, 1 reject | 363 k |
| `server_resources` | Sinks, slots, descriptors and counters; a slot comes back | 2 peers and the client, 3 sinks, 3 descriptors | 251 k |
| `client_live_apply` | Live changes at any point of the client loop | 2 servers and off, 2 descriptors, 2 changes | 38 k |
| `client_stalled_peer` | *violation*, section 5 | 1 server, 1 change | |
| `uart_filter` | Framing, filter, a new MMSI takes effect | 2 ships, 2 channels, 1 id, 3 fragments, buffer of 2 | 318 k |
| `ais_stale_sequence` | *violation*, section 5 | 1 channel, 2 ids, 2 fragments | |
| `config_store` | Updates, resets, failures, power loss, boots that read part of the store | 3 of 5 sections touched, 2 values, 2 keys per pass | 1.7 M |
| `ota_slots` | Uploads from the page, interrupted anywhere, boots, confirmation; the card comes back | 2 images of up to 2 chunks, requests of up to 3, 2 polls in flight | 336 k |
| `wifi_station` | Start-up, flags, reconnecting, status | 3 pending events | 466 k |
| `status_led` | Flashes and backoff over the wrap; the strip shows what the policy renders | clock of 6 ticks, 2 kinds of flash, delays 1 and 2 | 1.8 M |
| `web_requests` | Buffer, next client, input state over the wrap | buffer of 4 bytes, lengths to 5, 2 clients, window 1, counter modulo 3 | 580 k |
| `page_config` | Banner and controls of the configuration cards | 2 polls, 1 load and 1 reboot request in flight | 499 k |

Why the bounds are enough. `bridge_frames`: with three frames and depth 2 both
queues overflow; with three sessions for two sinks a slot is recycled while the
other is in use and an open is refused. `server_resources`: there are exactly as
many sinks as the build assertion asks for, so one that is returned late is
missed; a third connection is rejected. `client_live_apply`: two changes allow
the return to the first value and a change during the wake-up of another; two
descriptors allow reuse of a number by a foreign thread. `uart_filter`: all
messages have the same sequence id or none, which is the hardest case for the
filter; lines of `FrameMax`, `FrameMax + 1` and more bytes all occur.
`config_store`: the touched sections contain two live ones and one that needs a
reboot, and three keys plus an unknown and a corrupt one do not fit into one pass
of two. `ota_slots`: two chunks make "some, not all" possible and length 3
exceeds the slot; a good and a broken image, next to a damaged slot, are what the
boot loader and the code tell apart (MCUboot treats an unsigned image like a damaged
one); with two polls one answer overtakes another.
`wifi_station`: all settings and every failure of start-up occur; three events are
a connect, its address and a disconnect that nobody has handled. `status_led`:
durations keep their order (flash < half the clock), and the clock wraps several
times; the delay of a second failure is doubled, which is the maximum, and an update may take
part of it. Two kinds of flash are ranked against each other and take turns when they
return half a range after their reports (section 5); the third differs from them in
rank only. `web_requests`: header and body
together may fill, exceed or miss the buffer by one; a counter modulo 3 wraps
between two snapshots, and a window of one tick is passed between them or not.
`page_config`: with one chain of loads the load that `FetchAgain` starts still
overlaps polls, saves and reboots; one poll and two chains (797 k states) give the
same result.

The names of the properties and what each states are in the modules, in the
comment above each one. A property is about the code lines its mutant damages:
every property of a passing run is violated when the mutant listed for it in
`PROJECT.json` replaces the definition.

### Fairness

`config_store` uses none. Elsewhere a liveness property is checked too:

* `NmeaBridge`: the dispatcher and the UART thread run when they can (they have
  the two highest priorities), and a session inside `sinks_lock` leaves it (the
  critical sections do not block, and the mutex inherits priority). Nothing
  obliges a session to call anything.
* `TcpNmeaServer`: peer and server threads run; no remote end need do anything, nor
  open its window. `SlotRecovered` says itself that it is about peers with which
  `send_all` is not stuck for good.
* `TcpNmeaClient`: the client thread runs (connect has a timeout), the web
  thread finishes a listener call. Strong fairness of `SendDone` stands for the
  retry loop of `send_all`: a window that keeps opening is used. `FairSpec` adds
  that a closed window opens again, `StallSpec` does not: the difference is the
  finding about `send_all`.
* `UartNmea`: strong fairness of `PollEmpty`, because the thread empties the receive
  FIFO by polling much faster than a serial line fills it, and has the highest
  priority.
* `OtaPage`: delayed work runs, the boot loader boots, the web thread answers (its
  sends may fail), and the browser reports what was answered or lost. Strong
  fairness of `ServePoll` and `ServeUpload`: the thread is busy in between, and
  takes waiting connections in order. No user need do anything and nothing
  brings the network back: `UploadComesBack` is about bridges that stay reachable.
* `WebPage`: the same for polls, loads (with their retry timer), posts and the
  reboot. Restarts and the network are free.
* `WifiManager`: main and the other threads run, a request the driver accepted is
  answered, and one of many requests is accepted. Nothing is assumed of the
  network except in the premises of the properties.
* `StatusLed`: time and the LED thread do not both stand still, and a strip tried
  again and again works sooner or later (strong fairness of `UpdateSucceeds`).
* `WebServer`: the thread runs and a receive ends, by data or by its timeout;
  a client in `Readers` takes what it is sent.

## 4. What is proved

TLAPS checks these for every value of the constants that meets the named
assumption. Together they state every invariant and every action property that a
passing run checks.

### `NmeaBridgeProofs` (from `BridgeAssumption`: depths and sinks positive, thread names distinct)

| Theorem | States |
|---|---|
| `TypeCorrect` | `TypeOK`: types, and no queue outgrows its depth |
| `SecondPutSucceeds` | `PutStages`: the second put of `put_drop_oldest` always finds room |
| `IngestAccounting` | `IngestAccounted`: every accepted frame is queued, dispatched, counted as dropped, or in hand |
| `HandlesStayValid` | `HandlesValid`: a handle stays valid until closed; no slot is shared |
| `SinkAccounting` | `SinkAccounted`: queued = consumed + dropped + waiting (+ in hand) per open sink |
| `FramesStayInOrder` | `SinkOrdered`: a sink holds frames in order, none twice, none from before it was opened |
| `NewestFrameKept` | `NewestKept`: a served sink holds the newest frame, or its session took it last |
| `DropTotalIsExact` | `DropTotalExact`: the bridge's total of drops is the sum over open and closed sinks |
| `BridgeImplementsBroadcast` | the frame path implements `FrameBroadcast` (initial states and steps) |

`TypeOK` alone is not inductive: after the second put a queue could be one too
long, unless the oldest frame was really removed before. So the invariant is
`TypeInv == TypeOK /\ PutStages`, where `PutStages` says what the queue looks like
at each stage of `put_drop_oldest`. It holds across the steps of other threads
because of the priorities: lemma `SessFrame` shows that a session moves only while
the UART thread is idle and the dispatcher waits, `DispFrame` that the
dispatcher moves only while the UART thread is idle. The two accounting theorems
rest on `TypeInv`; `SinkAccounting` also on `HandlesValid`, since two sessions with
one slot could both be between taking and counting. The dispatcher's part is
lemma `DispKeepsBalance`: no step of it changes
`queued - dropped_oldest - Len(msgq)` of an active sink.

Order in the sinks comes from order in the ingest queue, so
`DeliveryInv == TypeInv /\ IngestOrdered /\ HandlesValid /\ SinkOrdered /\ NewestKept`:
`IngestOrdered` says that the ingest queue increases and lies between the frame in
hand and the newest one put. `SinkOrdered` bounds a sink by the frame in hand, or by
the one before it where the dispatcher has not been yet; taking the next frame
moves that bound, which is where `IngestOrdered` is needed. Lemmas `AppendInOrder`
and `TailInOrder` are all that is used of sequences.

`DropInv == DropNoted /\ DropTotalExact` adds that the count before a drop was noted
(`before`). The total is a sum over the slots, a fold defined by recursion, so the
proof starts with that recursion: `SumFcnExists` shows that it has a solution, by
extending one for the sets of at most `n` elements to those of `n + 1`, and
`SumChange` that changing one summand changes the sum by as much. Both inductions
go by the least element of a set of counterexamples (`Least`, from the library's
`WFMin`), since the library's induction rules take operators the provers cannot
instantiate.

The refinement is one lemma per thread. `UartImplements`: the first put of
`put_drop_oldest` is the abstract `Accept`, the other two calls stutter.
`DispImplements`: getting a frame is `Take`, locking the sinks is `Deliver`, and
the loop over the slots stutters. `SessImplements`: each locked step of a session
is one abstract step or a stutter; that an open passes the abstract limit on
subscribers is a counting argument over handles (`HandleFitsSlot`). Proved is
`BroadcastSafety`, the initial condition and the steps of `ImplementsBroadcast`;
its fairness stays with TLC.

### `TcpNmeaServerProofs` (from `ServerAssumption`: the build assertion `MaxSinks >= MaxPeers + 1`; names distinct)

| Theorem | States |
|---|---|
| `SlotsStayExclusive` | `SlotsExclusive`: a slot is handed out only when its former thread has at most to log and return; a thread holds a sink exactly between open and close |
| `SinksSuffice` | `SinkAvailable`: a session that starts finds a free sink |
| `DescriptorsStayOwned` | `DescriptorsOwned`: the open descriptors are those of the accept loop and of the slots, one each |
| `SessionCountExact` | `SessionsCounted`: both session counters are the number of running sessions |

`SlotsExclusive` is inductive together with the types; it does not say that the
former thread *has* returned, which the code does not ensure (section 5). `SinksSuffice` follows by
counting: a session at its start holds no sink, so at most `MaxPeers` of the
`MaxPeers + 1` threads do. Descriptors need `InHand` in addition, which says at which
places of the accept loop and of a peer thread a descriptor is held: without it a
close could be a second one.

### `TcpNmeaClientProofs` (from `ClientAssumption`: `Disabled` and `NoFd` are no server and no descriptor; and from `LedAssumption`, see below)

| Theorem | States |
|---|---|
| `ShutdownSafe` | `ShutdownHitsOwnSocket`: the listener shuts down the client's own socket only |
| `NoDescriptorLeak` | `NoFdLeak`: each way out of an attempt returns its descriptor |
| `StaleSessionsEnd` | `StaleSessionDoomed`: a session on an outdated configuration has its socket at EOF, or the listener is still due |
| `FlashesAreRecent` | `FlashIsRecent`, an action property of `StatusLed`: a flash is shown only shortly after a report |
| `BackoffIsKept` | `BackoffKept`, an action property of `StatusLed`: from the clock reading of a failed update to that of the next one passes its delay |
| `DelaysOnlyGrow` | a further failure never shortens the delay, and the maximum bounds it |

`ClientInv == FdInv /\ GenInv`. `FdInv` follows the descriptor through the loop:
`session_fd` is set exactly while the attempt that owns it is registered.
`GenInv` follows the configuration: as long as the generation the client read is
current, the configuration it read *afterwards* is the one in force or the one a
pending listener is about to retire. That order of the two reads is what makes the
checks before and after `connect` sufficient.

The three about the LED are from `LedAssumption` (positive durations, an even clock,
a flash and a preemption together shorter than half of it). `FlashInv` says where
the deadline of a flash lies from the present: `Flash` ticks after the last report,
the clock having wrapped any number of times since (`UntilKnown`), and that a time
read by a preempted thread is at most `MaxLag` old (`LagBounded`). `ModWithin` reduces
the remainders of the code's unsigned differences to additions of the range, after
which the half of the range on which a difference falls is linear arithmetic.
`BackoffRuns` says that what has passed since the clock reading of the failed update
and what is left of its delay make up the delay; the clock saturates `sinceTry` at
`RetryMax + MaxLag`, so this needs the bound of the delay, which follows from the
recursion (`DelayExists`, `DelayGrows`). `RetryEarned` carries it from the comparison
at the top of the loop to the update, which `LagBounded` says is at most `MaxLag` later.

### `UartNmeaProofs` (from `UartAssumption` and `AisAssumption`: positive sizes; the special values are no MMSIs and no ids)

| Theorem | States |
|---|---|
| `LinesStayWhole` | `WholeLines`: the buffer holds the line from its first byte on, or is skipping for a reason |
| `OnlyOwnShipDropped` | `DropsOnlyOwnLossless`: while nothing is lost, only the own ship's frames are dropped |
| `OwnMessageNeverSplit` | `OwnMessageDropped`: a tracked own message is not published in part |

The two statements about the filter speak of the line that has just ended, so the
invariant relates what the filter remembers to what the receiver has under way
(`AirInv`). `TrackedFollowed`: a tracked message *is* the remembered sequence, at the
fragment that comes next; hence at most one message is tracked, and its next
intact fragment matches. `SequenceUnderWay`: while nothing was lost, the remembered
sequence is a message under way on its channel and the own ship's; hence whatever
matches it is the own ship's. The second fails after a loss, which is the
finding about stale sequences (section 5). Lemma `AisLineKeeps` is the core: the
filter changes only by a new own message, after which nothing else is tracked, or
by the one fragment it waits for, after which both sides have moved on by one.
That the channel is part of the key is used twice.

### `BridgeConfigProofs` (from `ConfigAssumption`: the default is a value; markers and keys are distinct)

| Theorem | States |
|---|---|
| `AcknowledgedValueSurvives` | `AcknowledgedSurvives`: what was acknowledged is what the next boot loads |
| `RebootChangesNothing` | `NoSilentRevert`: without a required reboot, a reboot would change nothing in force |
| `ResetLeavesNothing` | `ResetComplete`: a reset that succeeds leaves no key behind |

`ConfigInv` adds to the types where the thread is (`Stages`), that promises are
withdrawn while a request works on them (`Withdrawn`), and that RAM and store agree
as long as a save may be skipped (`RamMatchesStore`): the skip for an unchanged value
acknowledges without writing, so this agreement is what makes it safe. It has two
exceptions, the section just saved and what the running reset has deleted.
`ConsumersMatchRam` does the same for the listener. `RequestStored` and `SavedStored`
carry the values of a request to its acknowledgement, `PassComplete` what a pass of
the reset has seen to its end.

### `OtaUpdateProofs` (from `OtaAssumption` and `PageAssumption`: the factory image is signed and healthy, healthy images are signed, markers are no images; clients may announce more than fits)

| Theorem | States |
|---|---|
| `OnlyAcceptedImagesTried` | `OnlyAcceptedTried`: the upgrade request is on the complete image of the last finished upload, or on a visibly damaged one |
| `AcceptedImageKept` | `AcceptedKept`: an accepted image stays marked until it is booted or another upload begins |
| `BrokenImageRunsOnce` | `BrokenRunsOnce`, an action property: after a broken test image the next boot runs a healthy one, and a broken image comes up confirmed in the one way of section 5 only |
| `PageImplementsUpdate` | `PageSpec => Spec`: the page's steps are steps of the update, or leave it alone |

The theorems about the update are first proved for `OtaUpdate` alone and then
carried over by `PageImplementsUpdate`, so the page's polls and lost answers need not
be looked at again. `UpdateInv` adds `Receiving`: during the erase the slot is visibly
damaged, whatever mark is still on it, and from its end to the upgrade request there
is no mark; so no interruption leaves a mark on an image that was not accepted.
`WayBack`: uploads and marks exist only while the running image answers, and a test
image that does not has a healthy one in the other slot. It does not say that every
broken image runs as a test image, which is false of the code (section 5, number 3);
`BrokenRunsOnce` names the exception.

### `WifiManagerProofs` (from `WifiAssumption`: a positive number of pending events)

`FlagsStayTruthful` states `FlagsTruthful`: with no event on its way, and outside the
two windows of section 5, a flagged request is under way and a flagged connection
exists. Between events the flags lag behind the driver, so the invariant explains
each flag by the queue: `ClaimsEnd` and `RequestsEnd` say that a flag without a link, now or
once a queued event has been handled, is followed by a queued event that takes it
back. `OneAsks` keeps the retry thread from asking while main does.

### `WebServerProofs` (from `WebAssumption` and `TelemetryAssumption`: positive sizes, a body limit within the buffer, a counter of at least two values)

| Theorem | States |
|---|---|
| `BodyEndsInBuffer` | `RoomBehindBody`: nothing is received beyond the buffer; the parser gets the whole body and has a byte behind it |
| `SnapshotMissesNothing` | `InputNotMissed`, an action property: recent input is never called idle |
| `BannerTellsTheTruth` | `BannerTruthful` of `WebPage`: outside `blind` the banner says what the device would |

`ConfigFits` carries the check of the header to the end of the body. For the
telemetry, `NewFramesCounted` says how far the wrapping counter has moved since it was
last collected, so that a change cannot be missed (`CounterMoves`), and `FrameSeen`
that the last frame, if it is not new, was seen by a snapshot no earlier than it came.

The banner is from `PageAssumption` (positive bounds on requests in flight).
`CardsInv` generalises `BannerTruthful` to the moments when something is in flight:
unless `blind`, the banner tells the flag, or a load is under way that will replace
it, or a save or reset that the device has dealt with carries an answer that may
(`BannerOrAnswer`). It counts the chains of loads over their phases (`LoadsCounted`), since
"none is under way" is the phase `idle` holding all of them. `OneAtATime` adds that
the forms are disabled while a save or reset is out, so one answer cannot be
overwritten by the next request.

### Only model-checked

* **Liveness**, and with it the fairness part of `ImplementsBroadcast`: outside what
  the prover does.
* **Absence of deadlock**, which is a statement about what is enabled.

## 5. Where code and documentation disagree

Two disagreements are runs that end in a violation; `findings` in `PROJECT.json`
quotes the text.

1. **A peer that stops reading blocks a live change** (`client_stalled_peer`).
   `send_all` in `tcp_nmea_session.c` retries on EAGAIN without looking at the
   EOF mark or the generation, while the header promises that a change closes
   the session and takes effect immediately. `LiveApply` holds for peers that
   resume reading (`FairSpec`), and fails without that assumption (`StallSpec`).
2. **A stale AIS sequence drops another ship** (`ais_stale_sequence`). A first
   fragment of another ship does not clear the remembered sequence; after a lost
   fragment its second part matches and is dropped. `DropsOnlyOwnLossless` is
   what holds.

More met while modelling are carved out of a property by a named condition, or
follow from one action:

3. **An upload without a request becomes permanent** (`ota_update.c:233`). An upload
   is accepted while a test image runs that no status poll has confirmed yet, and
   overwrites the image MCUboot would go back to. If power is lost between the complete
   write and `boot_request_upgrade`, or that call fails and the device restarts, MCUboot
   reverts the test image into the unmarked upload and keeps it as confirmed, while
   `Kconfig` (line 51) says that uploads are "booted once as a test image". A broken
   image stays for good then. `BrokenRunsOnce` says that this is the only way.
4. **A status poll hides a pending reboot** (`ota_update.c:266`, action
   `SelfCheckConfirmed`). The self-check sets `CONFIRMED` over `PENDING_REBOOT`
   and `ERROR`. The upgrade request itself survives (`AcceptedKept`). In the page
   the same answer ends the expectation of the reboot: for the rest of the 750 ms
   the upload is offered again, and the reboot then shows as "unreachable".
   `UploadComesBack` shows that the card recovers from all of this.
5. **A lost connect failure** (`wifi_manager.c:394`). `sta_connect_requested` is
   set after the driver call; a failure handled in between leaves it set for
   good, and `sta_retry_thread` waits on it. The variable `raced` marks this
   window and the one between test and assignment in `wifi_manager_sta_ready`;
   `FlagsTruthful` and `ReconnectsUnlessRaced` are claimed outside of them.
6. **A flash after 24.9 days** (`status_led_policy.c:5`). Flash flags are never
   cleared and the signed difference changes sign half a range after the
   deadline. `FlashIsRecent` is claimed within half the range, and `LedCatchesUp`
   claims the rendered colour, which may be that of a dormant flash: with several
   kinds these take turns, and the base state need not show again.
7. **Input active outside the window** (`bridge_telemetry.c:83`). The window
   starts at the request that noticed a frame, not at the frame. `InputNotMissed`
   is therefore one-sided: recent input is never called idle, while old input may
   be called active for a window after the request that noticed it.
8. **A client that does not read holds the web server** (`web_app.c:121`).
   Receives have a timeout, sends have not. `NextIsServed` is checked with every
   client in `Readers`.
9. **The banner of the page** (`web_assets/app.js`). A load that a save, a reset
   or a restart has overtaken replaces the banner with a state that is over; a
   save whose answer is lost leaves the banner as it was, and one whose answer
   has no body takes it away; a restart between two polls is not noticed. These
   are the cases of `blind`; outside of them `BannerTruthful` holds.
10. **A reboot forgotten early** (`web_assets/app.js`, `ApplyStatus`). Between the
   click and the answer of POST /api/reboot there is no grace period yet, so a
   status applied then ends `rebootInProgress` before the reboot.
11. **An interface that stays down** (`wifi_manager.c:332`). When `net_if_up`
   fails after the change of the MAC address nothing takes the interface up
   again, and every later connect is refused.
12. **A save skipped after a bad boot** (`bridge_config.c:346`). If a record could
   not be read at boot, RAM holds the default and saving the default is
   acknowledged without being stored. `AcknowledgedSurvives` covers such a
   session only where store and request agree.
13. **A thread created over a live one** (`tcp_nmea_server.c:34`). `close_peer` frees the
   slot while its thread has still to log and return. The server thread has the same
   priority; if it is scheduled there and accepts, `k_thread_create` initialises a
   thread object and a stack that are in use. `SlotsExclusive` says what has been given
   back by then, and nothing is claimed of what follows.
14. **A blocked peer keeps its slot** (`tcp_nmea_session.c:66`). The server's side of
   number 1: a peer that closes its sending side and stops reading is not noticed
   while `send_all` retries. `SlotRecovered` excludes it by its premise.
15. **The backoff counts from before the update** (`status_led.c:124`). The delay is
   added to the time read at the top of the loop, so after an update that blocked the
   pause is shorter than the logged "retrying in" by that time. `BackoffKept` is about
   the clock readings.

`WholeLines` records a smaller surprise: a line of exactly `FrameMax + 1` bytes
takes the next line with it, since its newline is the byte that overflows.

## 6. What is not modelled

* **Text.** Parsing of NMEA fields, the six-bit payload, HTTP header lines and
  JSON, and all formatting, are abstracted to what the decisions tell apart
  (valid or not, length, kind). The host tests under `tests/` cover them well.
* **Shutdown handlers and access point events** of the Wi-Fi manager: driver calls
  on the way to the reset, and log lines.
* **Start-up** (`main.c`) beyond the start of the network: one sequential pass;
  its results are the initial states. The statistics thread logs.
* **The page's texts**, the contents of its forms, input it rejects before
  sending anything, theme and tabs.
* **Assets, DNS-SD records, boards, build files**: no state. Build options are
  the constants.
* **What follows when a peer thread is created over a live one** (section 5, number
  13): the model stops there.
* **Bytes of a partly sent frame**: a session sends frames or ends.
* **The values of time-outs**: a timed wait may end at any time, except in
  `StatusLed` and `BridgeTelemetry`, which are about time.
* **More than one reboot request of the page at a time**: the button is disabled
  while one is in flight, except in the case of section 5, number 10.

## 7. Plan

Done: the modules above, the refinement of the frame path, the device and its page
together, and the theorems of section 4, which state every safety property of the
passing runs.

What could follow, with changes to the code: the bytes of a partly sent frame
(section 6), if `send_all` looks at the EOF mark (section 5, number 1); the return of
the base state in `LedCatchesUp`, once flash flags are cleared (number 6); a peer slot
that is free only when its thread has been joined (number 13).

## Running

    tlc -workers 2 -config NmeaBridge.cfg MCNmeaBridge
    tlapm NmeaBridgeProofs.tla

The configuration and the module of each run are listed under `runs` in
`PROJECT.json`.
