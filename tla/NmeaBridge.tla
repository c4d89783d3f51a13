------------------------------ MODULE NmeaBridge ------------------------------
(***************************************************************************)
(* The frame path of nmea_bridge.c: the UART thread publishes frames into  *)
(* the ingest queue, one dispatcher thread copies each of them into the    *)
(* queue of every active sink, and TCP sessions open, take from and close  *)
(* sinks.  Both queues drop the oldest frame when they are full.           *)
(*                                                                         *)
(* The threads run on one core under strict priorities (UART 4, dispatcher *)
(* 5, sessions 7; a lower number runs first), and a thread is preempted    *)
(* between any two kernel calls.  k_msgq_put, k_msgq_get and k_msgq_purge  *)
(* are one step each; put_drop_oldest is up to three.  Frames are numbered *)
(* in the order in which they are accepted.                                *)
(***************************************************************************)
EXTENDS Integers, Sequences, FiniteSetsExt

CONSTANTS
    Sessions,      \* threads that run tcp_nmea_session_run
    MaxSinks,      \* CONFIG_ESP_NMEA_BRIDGE_NMEA_SINKS_MAX
    IngestDepth,   \* CONFIG_ESP_NMEA_BRIDGE_INGEST_QUEUE_DEPTH
    SinkDepth,     \* CONFIG_ESP_NMEA_BRIDGE_SINK_QUEUE_DEPTH
    MaxFrames,     \* bound on the frames accepted in a behaviour
    MaxRejects,    \* bound on the frames rejected in a behaviour
    Dispatcher,    \* the dispatcher thread, as an owner of sinks_lock
    Nobody         \* sinks_lock is free

ASSUME BridgeAssumption ==
    /\ MaxSinks \in Nat \ {0}
    /\ IngestDepth \in Nat \ {0}
    /\ SinkDepth \in Nat \ {0}
    /\ MaxFrames \in Nat
    /\ MaxRejects \in Nat
    /\ Dispatcher \notin Sessions
    /\ Nobody \notin Sessions
    /\ Dispatcher # Nobody

Slots == 0 .. MaxSinks - 1
NoSink == -1          \* sink->id of a handle that is not open

VARIABLES
    \* UART thread, inside nmea_bridge_publish_frame
    uartPc,           \* "idle", or the next step of put_drop_oldest
    \* ingest queue and bridge_stats
    ingest, frames_in, ingest_dropped_oldest, publish_invalid,
    publish_oversize, publish_no_sinks, sink_dropped_oldest,
    \* dispatcher_thread and its locals
    dispPc, frame, slot, any, before,
    \* sinks[] (active: the slots whose flag is set) and sinks_lock
    sinks_lock, active, msgq, queued, consumed, dropped_oldest,
    \* sessions: program counter and sink handle
    sessPc, sinkId,
    \* history: frames the dispatcher took, the newest frame a sink's owner
    \* took, the newest frame dispatched before the sink was opened, and the
    \* drops of sinks whose statistics have been zeroed since
    taken, lastTaken, openedAfter, retiredDrops

uartVars  == <<uartPc, ingest, frames_in, ingest_dropped_oldest,
               publish_invalid, publish_oversize>>
dispVars  == <<dispPc, frame, slot, any, before, publish_no_sinks,
               sink_dropped_oldest, taken>>
sinkVars  == <<active, msgq, queued, consumed, dropped_oldest, lastTaken,
               openedAfter, retiredDrops>>
sessVars  == <<sessPc, sinkId>>
vars == <<uartVars, dispVars, sinkVars, sessVars, sinks_lock>>

-----------------------------------------------------------------------------
(* Kernel queues (Zephyr k_msgq). *)

\* k_msgq_put(.., K_NO_WAIT) leaves a full queue alone and returns an error.
\* Mutant: one message too many.
HasRoomOffByOne(q, depth) == Len(q) <= depth
HasRoom(q, depth) == Len(q) < depth

PutNoWait(q, f, depth) == IF HasRoom(q, depth) THEN Append(q, f) ELSE q

\* k_msgq_get(.., K_NO_WAIT) whose result is ignored.
GetNoWait(q) == IF q = <<>> THEN q ELSE Tail(q)

\* Mutant: the queue of a recycled slot keeps its frames.
PurgeNothing(q) == q
Purge(q) == <<>>

\* put_drop_oldest makes room.  Mutant: it counts the drop and frees nothing.
DropNothing(q) == q
DropOldest(q) == GetNoWait(q)

-----------------------------------------------------------------------------
(* Scheduling: a thread runs only while no thread of higher priority can. *)

UartRunning == uartPc # "idle"

\* The dispatcher waits for a frame in "get" and for sinks_lock in "lock".
DispRunnable == CASE dispPc = "get"  -> ingest # <<>>
                  [] dispPc = "lock" -> sinks_lock = Nobody
                  [] OTHER           -> TRUE

\* Mutant: the dispatcher is time-sliced with the UART thread.
DispMayAlwaysRun == TRUE
DispMayRun == ~UartRunning

SessMayRun == ~UartRunning /\ ~DispRunnable

-----------------------------------------------------------------------------
(* nmea_bridge_publish_frame, called by the UART thread only. *)

\* data == NULL || len == 0, or len > sizeof(frame.data)
PublishReject ==
    /\ uartPc = "idle"
    /\ publish_invalid + publish_oversize < MaxRejects
    /\ \/ publish_invalid' = publish_invalid + 1 /\ UNCHANGED publish_oversize
       \/ publish_oversize' = publish_oversize + 1 /\ UNCHANGED publish_invalid
    /\ UNCHANGED <<uartPc, ingest, frames_in, ingest_dropped_oldest,
                   dispVars, sinkVars, sessVars, sinks_lock>>

\* frames_in++ and the first put of put_drop_oldest
PublishFrame ==
    /\ uartPc = "idle"
    /\ frames_in < MaxFrames
    /\ frames_in' = frames_in + 1
    /\ ingest' = PutNoWait(ingest, frames_in', IngestDepth)
    /\ uartPc' = IF HasRoom(ingest, IngestDepth) THEN "idle" ELSE "drop"
    /\ UNCHANGED <<ingest_dropped_oldest, publish_invalid, publish_oversize,
                   dispVars, sinkVars, sessVars, sinks_lock>>

PublishDrop ==
    /\ uartPc = "drop"
    /\ ingest' = DropOldest(ingest)
    /\ ingest_dropped_oldest' = ingest_dropped_oldest + 1
    /\ uartPc' = "reput"
    /\ UNCHANGED <<frames_in, publish_invalid, publish_oversize,
                   dispVars, sinkVars, sessVars, sinks_lock>>

PublishReput ==
    /\ uartPc = "reput"
    /\ ingest' = PutNoWait(ingest, frames_in, IngestDepth)
    /\ ingest_dropped_oldest' =
          ingest_dropped_oldest + (IF HasRoom(ingest, IngestDepth) THEN 0 ELSE 1)
    /\ uartPc' = "idle"
    /\ UNCHANGED <<frames_in, publish_invalid, publish_oversize,
                   dispVars, sinkVars, sessVars, sinks_lock>>

UartNext == PublishReject \/ PublishFrame \/ PublishDrop \/ PublishReput

-----------------------------------------------------------------------------
(* dispatcher_thread *)

DispGet ==
    /\ DispMayRun
    /\ dispPc = "get"
    /\ ingest # <<>>
    /\ frame' = Head(ingest)
    /\ ingest' = Tail(ingest)
    /\ taken' = taken + 1
    /\ dispPc' = "lock"
    /\ UNCHANGED <<uartPc, frames_in, ingest_dropped_oldest, publish_invalid,
                   publish_oversize, slot, any, before, publish_no_sinks,
                   sink_dropped_oldest, sinkVars, sessVars, sinks_lock>>

DispLock ==
    /\ DispMayRun
    /\ dispPc = "lock"
    /\ sinks_lock = Nobody
    /\ sinks_lock' = Dispatcher
    /\ slot' = 0
    /\ any' = 0
    /\ dispPc' = "slot"
    /\ UNCHANGED <<uartVars, frame, before, publish_no_sinks,
                   sink_dropped_oldest, taken, sinkVars, sessVars>>

\* if (!sinks[i].active) continue;
DispSkip ==
    /\ DispMayRun
    /\ dispPc = "slot"
    /\ slot \in Slots
    /\ slot \notin active
    /\ slot' = slot + 1
    /\ UNCHANGED <<uartVars, dispPc, frame, any, before, publish_no_sinks,
                   sink_dropped_oldest, taken, sinkVars, sessVars, sinks_lock>>

\* Mutant: before is read after the put, so that no increase is ever seen.
CountNoDrops(drops) ==
    /\ sink_dropped_oldest' = sink_dropped_oldest + (drops - drops)
    /\ queued' = [queued EXCEPT ![slot] = @ + 1]
    /\ any' = 1
    /\ slot' = slot + 1
    /\ dispPc' = "slot"

\* The rest of the loop body once the put has returned: totals, queued, any.
CountQueued(drops) ==
    /\ sink_dropped_oldest' = sink_dropped_oldest + (drops - before')
    /\ queued' = [queued EXCEPT ![slot] = @ + 1]
    /\ any' = 1
    /\ slot' = slot + 1
    /\ dispPc' = "slot"

\* before = dropped_oldest, and the first put of put_drop_oldest
DispPut ==
    /\ DispMayRun
    /\ dispPc = "slot"
    /\ slot \in active
    /\ before' = dropped_oldest[slot]
    /\ msgq' = [msgq EXCEPT ![slot] = PutNoWait(@, frame, SinkDepth)]
    /\ IF HasRoom(msgq[slot], SinkDepth)
          THEN CountQueued(dropped_oldest[slot])
          ELSE /\ dispPc' = "drop"
               /\ UNCHANGED <<sink_dropped_oldest, queued, any, slot>>
    /\ UNCHANGED <<uartVars, frame, publish_no_sinks, taken, active, consumed,
                   dropped_oldest, lastTaken, openedAfter, retiredDrops, sessVars, sinks_lock>>

DispDrop ==
    /\ DispMayRun
    /\ dispPc = "drop"
    /\ msgq' = [msgq EXCEPT ![slot] = DropOldest(@)]
    /\ dropped_oldest' = [dropped_oldest EXCEPT ![slot] = @ + 1]
    /\ dispPc' = "reput"
    /\ UNCHANGED <<uartVars, frame, slot, any, before, publish_no_sinks,
                   sink_dropped_oldest, taken, active, queued, consumed,
                   lastTaken, openedAfter, retiredDrops, sessVars, sinks_lock>>

DispReput ==
    /\ DispMayRun
    /\ dispPc = "reput"
    /\ msgq' = [msgq EXCEPT ![slot] = PutNoWait(@, frame, SinkDepth)]
    /\ dropped_oldest' = [dropped_oldest EXCEPT ![slot] =
                             @ + (IF HasRoom(msgq[slot], SinkDepth) THEN 0 ELSE 1)]
    /\ before' = before
    /\ CountQueued(dropped_oldest'[slot])
    /\ UNCHANGED <<uartVars, frame, publish_no_sinks, taken, active, consumed,
                   lastTaken, openedAfter, retiredDrops, sessVars, sinks_lock>>

DispUnlock ==
    /\ DispMayRun
    /\ dispPc = "slot"
    /\ slot = MaxSinks
    /\ publish_no_sinks' = publish_no_sinks + (1 - any)
    /\ sinks_lock' = Nobody
    /\ dispPc' = "get"
    /\ UNCHANGED <<uartVars, frame, slot, any, before, sink_dropped_oldest,
                   taken, sinkVars, sessVars>>

DispNext == DispGet \/ DispLock \/ DispSkip \/ DispPut \/ DispDrop
            \/ DispReput \/ DispUnlock

-----------------------------------------------------------------------------
(* Sink handles, used by sessions.  Every operation takes sinks_lock, does  *)
(* its critical section and releases it; only the k_msgq_get of sink_take   *)
(* and the counter after it run without the lock.                           *)

LockStep(s, from, to) ==
    /\ SessMayRun
    /\ sessPc[s] = from
    /\ sinks_lock = Nobody
    /\ sinks_lock' = s
    /\ sessPc' = [sessPc EXCEPT ![s] = to]
    /\ UNCHANGED <<uartVars, dispVars, sinkVars, sinkId>>

\* nmea_bridge_sink_open
OpenLock(s) == LockStep(s, "closed", "opening")

\* Mutant: the scan forgets to test active.
AllSlots == Slots
FreeSlots == Slots \ active

OpenSlot(s) ==
    /\ SessMayRun
    /\ sessPc[s] = "opening"
    /\ \E i \in FreeSlots :
          /\ \A j \in FreeSlots : i <= j
          /\ active' = active \cup {i}
          /\ msgq' = [msgq EXCEPT ![i] = Purge(@)]
          /\ queued' = [queued EXCEPT ![i] = 0]
          /\ consumed' = [consumed EXCEPT ![i] = 0]
          /\ dropped_oldest' = [dropped_oldest EXCEPT ![i] = 0]
          /\ retiredDrops' = retiredDrops + dropped_oldest[i]
          /\ lastTaken' = [lastTaken EXCEPT ![i] = 0]
          /\ openedAfter' = [openedAfter EXCEPT ![i] =
                                IF dispPc = "get" THEN frame ELSE frame - 1]
          /\ sinkId' = [sinkId EXCEPT ![s] = i]
    /\ sessPc' = [sessPc EXCEPT ![s] = "open"]
    /\ sinks_lock' = Nobody
    /\ UNCHANGED <<uartVars, dispVars>>

\* -ENOMEM: every slot is in use
OpenFail(s) ==
    /\ SessMayRun
    /\ sessPc[s] = "opening"
    /\ FreeSlots = {}
    /\ sessPc' = [sessPc EXCEPT ![s] = "closed"]
    /\ sinks_lock' = Nobody
    /\ UNCHANGED <<uartVars, dispVars, sinkVars, sinkId>>

\* nmea_bridge_sink_take
TakeLock(s) == LockStep(s, "open", "checking")

\* -ENOTCONN when the slot is no longer active
TakeCheck(s) ==
    /\ SessMayRun
    /\ sessPc[s] = "checking"
    /\ sessPc' = [sessPc EXCEPT ![s] =
                     IF sinkId[s] \in active THEN "getting" ELSE "open"]
    /\ sinks_lock' = Nobody
    /\ UNCHANGED <<uartVars, dispVars, sinkVars, sinkId>>

TakeGet(s) ==
    /\ SessMayRun
    /\ sessPc[s] = "getting"
    /\ msgq[sinkId[s]] # <<>>
    /\ lastTaken' = [lastTaken EXCEPT ![sinkId[s]] = Head(msgq[sinkId[s]])]
    /\ msgq' = [msgq EXCEPT ![sinkId[s]] = Tail(@)]
    /\ sessPc' = [sessPc EXCEPT ![s] = "got"]
    /\ UNCHANGED <<uartVars, dispVars, active, queued, consumed,
                   dropped_oldest, openedAfter, retiredDrops, sinkId, sinks_lock>>

TakeCount(s) ==
    /\ SessMayRun
    /\ sessPc[s] = "got"
    /\ consumed' = [consumed EXCEPT ![sinkId[s]] = @ + 1]
    /\ sessPc' = [sessPc EXCEPT ![s] = "open"]
    /\ UNCHANGED <<uartVars, dispVars, active, msgq, queued, dropped_oldest,
                   lastTaken, openedAfter, retiredDrops, sinkId, sinks_lock>>

\* -EAGAIN: no frame within TCP_NMEA_SESSION_FRAME_WAIT
TakeTimeout(s) ==
    /\ SessMayRun
    /\ sessPc[s] = "getting"
    /\ msgq[sinkId[s]] = <<>>
    /\ sessPc' = [sessPc EXCEPT ![s] = "open"]
    /\ UNCHANGED <<uartVars, dispVars, sinkVars, sinkId, sinks_lock>>

\* nmea_bridge_sink_close
CloseLock(s) == LockStep(s, "open", "closing")

\* Mutant: returns without k_mutex_unlock.
CloseKeepsLock(s) ==
    /\ SessMayRun
    /\ sessPc[s] = "closing"
    /\ sessPc' = [sessPc EXCEPT ![s] = "closed"]
    /\ active' = active \ {sinkId[s]}
    /\ msgq' = [msgq EXCEPT ![sinkId[s]] = Purge(@)]
    /\ sinkId' = [sinkId EXCEPT ![s] = NoSink]
    /\ UNCHANGED <<uartVars, dispVars, queued, consumed, dropped_oldest,
                   lastTaken, openedAfter, retiredDrops, sinks_lock>>

CloseSlot(s) ==
    /\ SessMayRun
    /\ sessPc[s] = "closing"
    /\ active' = active \ {sinkId[s]}
    /\ msgq' = [msgq EXCEPT ![sinkId[s]] = Purge(@)]
    /\ sinkId' = [sinkId EXCEPT ![s] = NoSink]
    /\ sessPc' = [sessPc EXCEPT ![s] = "closed"]
    /\ sinks_lock' = Nobody
    /\ UNCHANGED <<uartVars, dispVars, queued, consumed, dropped_oldest,
                   lastTaken, openedAfter, retiredDrops>>

LockedStep(s) == OpenSlot(s) \/ OpenFail(s) \/ TakeCheck(s) \/ CloseSlot(s)
SessNext(s) == \/ LockedStep(s)
               \/ OpenLock(s) \/ TakeLock(s) \/ CloseLock(s)
               \/ TakeGet(s) \/ TakeCount(s) \/ TakeTimeout(s)

-----------------------------------------------------------------------------
\* nmea_bridge_init has run; no frame has arrived and no session exists.
Init ==
    /\ uartPc = "idle"
    /\ ingest = <<>>
    /\ frames_in = 0
    /\ ingest_dropped_oldest = 0
    /\ publish_invalid = 0
    /\ publish_oversize = 0
    /\ publish_no_sinks = 0
    /\ sink_dropped_oldest = 0
    /\ dispPc = "get"
    /\ frame = 0
    /\ slot = 0
    /\ any = 0
    /\ before = 0
    /\ sinks_lock = Nobody
    /\ active = {}
    /\ msgq = [i \in Slots |-> <<>>]
    /\ queued = [i \in Slots |-> 0]
    /\ consumed = [i \in Slots |-> 0]
    /\ dropped_oldest = [i \in Slots |-> 0]
    /\ sessPc = [s \in Sessions |-> "closed"]
    /\ sinkId = [s \in Sessions |-> NoSink]
    /\ taken = 0
    /\ lastTaken = [i \in Slots |-> 0]
    /\ openedAfter = [i \in Slots |-> 0]
    /\ retiredDrops = 0

Next == UartNext \/ DispNext \/ \E s \in Sessions : SessNext(s)

Spec == Init /\ [][Next]_vars

\* A thread that can run does.  A session need not call anything, but once it
\* owns sinks_lock it finishes its critical section.
Fairness ==
    /\ WF_vars(PublishDrop \/ PublishReput)
    /\ WF_vars(DispNext)
    /\ \A s \in Sessions : WF_vars(LockedStep(s))

FairSpec == Spec /\ Fairness

-----------------------------------------------------------------------------
(* Properties. *)

\* The session that holds an open handle on slot i, between k_msgq_get and
\* the increment of consumed.
BetweenGetAndCount(i) == \E s \in Sessions : sessPc[s] = "got" /\ sinkId[s] = i
HoldsHandle(s) == sessPc[s] \in {"open", "checking", "getting", "got", "closing"}

UartTypes ==
    /\ uartPc \in {"idle", "drop", "reput"}
    /\ ingest \in Seq(Nat)
    /\ Len(ingest) <= IngestDepth
    /\ frames_in \in Nat
    /\ ingest_dropped_oldest \in Nat
    /\ publish_invalid \in Nat
    /\ publish_oversize \in Nat

DispTypes ==
    /\ dispPc \in {"get", "lock", "slot", "drop", "reput"}
    /\ frame \in Nat
    /\ slot \in 0 .. MaxSinks
    /\ any \in {0, 1}
    /\ before \in Nat
    /\ publish_no_sinks \in Nat
    /\ sink_dropped_oldest \in Nat
    /\ taken \in Nat

SinkTypes ==
    /\ active \subseteq Slots
    /\ msgq \in [Slots -> Seq(Nat)]
    /\ \A i \in Slots : Len(msgq[i]) <= SinkDepth
    /\ queued \in [Slots -> Nat]
    /\ consumed \in [Slots -> Nat]
    /\ dropped_oldest \in [Slots -> Nat]
    /\ lastTaken \in [Slots -> Nat]
    /\ openedAfter \in [Slots -> Int]
    /\ retiredDrops \in Nat

SessTypes ==
    /\ sinks_lock \in Sessions \cup {Dispatcher, Nobody}
    /\ sessPc \in [Sessions -> {"closed", "opening", "open", "checking",
                                "getting", "got", "closing"}]
    /\ sinkId \in [Sessions -> Slots \cup {NoSink}]

\* Every variable stays in its domain and no queue outgrows its depth.
TypeOK == UartTypes /\ DispTypes /\ SinkTypes /\ SessTypes

\* A handle that nmea_bridge_sink_open returned stays valid until its owner
\* closes it, and no two sessions ever hold the same slot.
HandlesValid ==
    /\ \A s \in Sessions :
          IF HoldsHandle(s) THEN sinkId[s] \in active
                            ELSE sinkId[s] = NoSink
    /\ \A s, t \in Sessions :
          HoldsHandle(s) /\ HoldsHandle(t) /\ sinkId[s] = sinkId[t] => s = t

\* No frame is lost unaccounted between UART and dispatcher: what was accepted
\* is still queued, was dispatched, was counted in ingest_dropped_oldest, or is
\* the one frame put_drop_oldest has in hand.
IngestAccounted ==
    frames_in = ingest_dropped_oldest + Len(ingest) + taken
                + (IF uartPc = "idle" THEN 0 ELSE 1)

\* Per open sink, the statistics account for every frame the dispatcher queued:
\* queued = consumed + dropped_oldest + frames waiting (+ the one in hand).
SinkAccounted ==
    \A i \in active :
        queued[i] = consumed[i] + dropped_oldest[i] + Len(msgq[i])
                    + (IF BetweenGetAndCount(i) THEN 1 ELSE 0)

\* put_drop_oldest works on a queue nobody else touches meanwhile: it drops from
\* a full queue, and its second put always finds room, so that the branch that
\* would count a frame lost after one was already dropped is never taken.
PutStages ==
    /\ uartPc = "drop" => Len(ingest) = IngestDepth
    /\ uartPc = "reput" => HasRoom(ingest, IngestDepth)
    /\ dispPc \in {"drop", "reput"} =>
          slot \in active /\ before <= dropped_oldest[slot]
    /\ dispPc = "drop" => Len(msgq[slot]) = SinkDepth
    /\ dispPc = "reput" => HasRoom(msgq[slot], SinkDepth)

Increasing(q) == \A m, n \in 1 .. Len(q) : m < n => q[m] < q[n]

\* Slot i already has the frame that the dispatcher is copying.
Served(i) == dispPc = "get" \/ (dispPc \in {"slot", "drop", "reput"} /\ i < slot)

\* A session reads frames in the order in which the UART delivered them, none
\* twice, and none that was dispatched before its sink was opened: a slot that
\* is recycled by another session brings nothing along.
SinkOrdered ==
    \A i \in active :
        /\ Increasing(msgq[i])
        /\ \A n \in 1 .. Len(msgq[i]) :
              /\ lastTaken[i] < msgq[i][n]
              /\ openedAfter[i] < msgq[i][n]
              /\ IF Served(i) THEN msgq[i][n] <= frame ELSE msgq[i][n] < frame
        /\ IF Served(i) THEN lastTaken[i] <= frame /\ openedAfter[i] <= frame
                        ELSE lastTaken[i] < frame /\ openedAfter[i] < frame

\* A slow sink loses old frames only: once the dispatcher has served a sink,
\* the newest frame is the last one in its queue, or its owner already has it.
NewestKept ==
    \A i \in active : Served(i) /\ openedAfter[i] < frame =>
        \/ msgq[i] # <<>> /\ msgq[i][Len(msgq[i])] = frame
        \/ msgq[i] = <<>> /\ lastTaken[i] = frame

Total(drops) == MapThenSumSet(LAMBDA i : drops[i], Slots)

\* bridge_stats.sink_dropped_oldest is the exact total of the frames that any
\* sink lost, sinks that were closed and recycled since included; only the drop
\* of the slot that is being served may still be missing.
DropTotalExact ==
    Total(dropped_oldest) + retiredDrops
        = sink_dropped_oldest
          + (IF dispPc = "reput" THEN dropped_oldest[slot] - before ELSE 0)

=============================================================================
