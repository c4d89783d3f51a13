--------------------------- MODULE NmeaBridgeProofs ---------------------------
(***************************************************************************)
(* Proofs about NmeaBridge, for any set of sessions, any number of sinks   *)
(* and any depth of the queues: types, accounting and handles; what        *)
(* reaches a session and in which order; and that the frame path           *)
(* implements FrameBroadcast.                                              *)
(***************************************************************************)
EXTENDS NmeaBridgeRefinement, FiniteSetTheorems, WellFoundedInduction, TLAPS

USE BridgeAssumption

-----------------------------------------------------------------------------
(* The kernel queues. *)

\* A put never outgrows the queue and adds one message when there was room.
LEMMA PutType ==
    ASSUME NEW q \in Seq(Nat), NEW f \in Nat, NEW d \in Nat, Len(q) <= d
    PROVE  /\ PutNoWait(q, f, d) \in Seq(Nat)
           /\ Len(PutNoWait(q, f, d)) <= d
           /\ Len(PutNoWait(q, f, d)) = Len(q) + (IF HasRoom(q, d) THEN 1 ELSE 0)
  BY DEF PutNoWait, HasRoom

\* Dropping the oldest message frees one place of a queue that is not empty.
LEMMA DropType ==
    ASSUME NEW q \in Seq(Nat)
    PROVE  /\ DropOldest(q) \in Seq(Nat)
           /\ Len(DropOldest(q)) <= Len(q)
           /\ Len(q) > 0 => Len(DropOldest(q)) = Len(q) - 1
  BY DEF DropOldest, GetNoWait

\* Taking the head leaves a queue that is one shorter.
LEMMA TailType ==
    ASSUME NEW q \in Seq(Nat), q # <<>>
    PROVE  Head(q) \in Nat /\ Tail(q) \in Seq(Nat) /\ Len(Tail(q)) = Len(q) - 1
  OBVIOUS

-----------------------------------------------------------------------------
(* What each thread leaves alone. *)

\* The UART thread touches the ingest queue and the bridge's counters only.
LEMMA UartFrame ==
    UartNext => UNCHANGED <<dispVars, sinkVars, sessVars, sinks_lock>>
  BY DEF UartNext, PublishReject, PublishFrame, PublishDrop, PublishReput

\* The dispatcher moves only while the UART thread is idle, and opens or closes no
\* sink.
LEMMA DispFrame ==
    DispNext => /\ UNCHANGED <<uartPc, frames_in, ingest_dropped_oldest,
                               publish_invalid, publish_oversize, active,
                               consumed, lastTaken, openedAfter, retiredDrops,
                               sessVars>>
                /\ uartPc = "idle"
  BY DEF DispNext, DispGet, DispLock, DispSkip, DispPut, DispDrop, DispReput,
         DispUnlock, CountQueued, uartVars, sinkVars, DispMayRun, UartRunning

\* A session runs only while the UART thread is idle and the dispatcher waits.
LEMMA SessFrame ==
    ASSUME NEW s \in Sessions, SessNext(s), DispTypes
    PROVE  /\ UNCHANGED <<uartVars, dispVars>>
           /\ uartPc = "idle"
           /\ dispPc \in {"get", "lock"}
<1>1. UNCHANGED <<uartVars, dispVars>> /\ SessMayRun
  BY DEF SessNext, LockedStep, OpenSlot, OpenFail, TakeCheck, CloseSlot,
         OpenLock, TakeLock, CloseLock, LockStep, TakeGet, TakeCount, TakeTimeout
<1> QED BY <1>1 DEF SessMayRun, UartRunning, DispRunnable, DispTypes

-----------------------------------------------------------------------------
(* Type correctness, with the stages of put_drop_oldest. *)

TypeInv == TypeOK /\ PutStages

\* Queues start empty, and no put is under way.
LEMMA TypeInit == Init => TypeInv
<1>1. Init => UartTypes
  BY DEF Init, UartTypes
<1>2. Init => DispTypes
  BY DEF Init, DispTypes
<1>3. Init => SinkTypes
  BY DEF Init, SinkTypes, Slots
<1>4. Init => SessTypes
  BY DEF Init, SessTypes
<1>5. Init => PutStages
  BY DEF Init, PutStages
<1> QED BY <1>1, <1>2, <1>3, <1>4, <1>5 DEF TypeInv, TypeOK

\* The UART thread keeps the types: it puts again only after it has made room.
LEMMA TypeUart == TypeInv /\ UartNext => TypeInv'
<1> SUFFICES ASSUME TypeInv, UartNext PROVE TypeInv'
  OBVIOUS
<1>1. UNCHANGED <<dispVars, sinkVars, sessVars, sinks_lock>>
  BY UartFrame
<1>2. DispTypes' /\ SinkTypes' /\ SessTypes'
  BY <1>1 DEF TypeInv, TypeOK, DispTypes, SinkTypes, SessTypes, dispVars,
              sinkVars, sessVars
<1>3. UartTypes'
  <2> USE DEF TypeInv, TypeOK, UartTypes, HasRoom
  <2>1. CASE PublishReject
    BY <2>1 DEF PublishReject
  <2>2. CASE PublishFrame
    BY <2>2 DEF PublishFrame, PutNoWait
  <2>3. CASE PublishDrop
    BY <2>3 DEF PublishDrop, DropOldest, GetNoWait
  <2>4. CASE PublishReput
    BY <2>4 DEF PublishReput, PutNoWait
  <2> QED BY <2>1, <2>2, <2>3, <2>4 DEF UartNext
<1>4. (uartPc = "drop" => Len(ingest) = IngestDepth)'
      /\ (uartPc = "reput" => HasRoom(ingest, IngestDepth))'
  <2> USE DEF TypeInv, TypeOK, PutStages, UartTypes, HasRoom
  <2>1. CASE PublishReject
    BY <2>1 DEF PublishReject
  <2>2. CASE PublishFrame
    BY <2>2 DEF PublishFrame, PutNoWait
  <2>3. CASE PublishDrop
    BY <2>3 DEF PublishDrop, DropOldest, GetNoWait
  <2>4. CASE PublishReput
    BY <2>4 DEF PublishReput
  <2> QED BY <2>1, <2>2, <2>3, <2>4 DEF UartNext
<1>5. PutStages'
  BY <1>1, <1>4 DEF TypeInv, PutStages, dispVars, sinkVars, HasRoom
<1> QED BY <1>2, <1>3, <1>5 DEF TypeInv, TypeOK

\* So does the dispatcher, slot by slot.
LEMMA TypeDisp == TypeInv /\ DispNext => TypeInv'
<1> SUFFICES ASSUME TypeInv, DispNext PROVE TypeInv'
  OBVIOUS
<1>1. UNCHANGED <<uartPc, frames_in, ingest_dropped_oldest, publish_invalid,
                  publish_oversize, active, consumed, lastTaken, openedAfter,
                  retiredDrops, sessPc, sinkId>>
      /\ uartPc = "idle"
  BY DispFrame DEF sessVars
<1>2. UartTypes' /\ ((DispGet /\ ingest' = Tail(ingest)) \/ ingest' = ingest)
  <2>1. ingest \in Seq(Nat) /\ Len(ingest) <= IngestDepth
    BY DEF TypeInv, TypeOK, UartTypes
  <2>2. CASE DispGet
    <3>1. ingest' = Tail(ingest) /\ ingest # <<>>
      BY <2>2 DEF DispGet
    <3>2. ingest' \in Seq(Nat) /\ Len(ingest') <= IngestDepth
      BY <2>1, <3>1, TailType
    <3> QED BY <1>1, <2>2, <3>1, <3>2 DEF TypeInv, TypeOK, UartTypes
  <2>3. CASE ~DispGet
    <3>1. ingest' = ingest
      BY <2>3 DEF DispNext, DispLock, DispSkip, DispPut, DispDrop, DispReput, DispUnlock,
                  uartVars
    <3> QED BY <1>1, <3>1 DEF TypeInv, TypeOK, UartTypes
  <2> QED BY <2>2, <2>3
<1>3. SessTypes'
  BY <1>1 DEF TypeInv, TypeOK, SessTypes, DispNext, DispGet, DispLock, DispSkip,
              DispPut, DispDrop, DispReput, DispUnlock
<1>4. (uartPc = "drop" => Len(ingest) = IngestDepth)'
      /\ (uartPc = "reput" => HasRoom(ingest, IngestDepth))'
  BY <1>1
<1> DEFINE SlotStages == /\ dispPc \in {"drop", "reput"} =>
                              slot \in active /\ before <= dropped_oldest[slot]
                         /\ dispPc = "drop" => Len(msgq[slot]) = SinkDepth
                         /\ dispPc = "reput" => HasRoom(msgq[slot], SinkDepth)
<1>5. DispTypes' /\ SinkTypes' /\ SlotStages'
  <2> USE DEF TypeInv, TypeOK
  <2>1. CASE DispGet
    <3>1. DispTypes'
      BY <2>1 DEF DispGet, DispTypes, UartTypes
    <3> QED BY <2>1, <3>1 DEF DispGet, SinkTypes, sinkVars
  <2>2. CASE DispLock
    BY <2>2 DEF DispLock, DispTypes, SinkTypes, sinkVars
  <2>3. CASE DispSkip
    <3>1. DispTypes'
      BY <2>3 DEF DispSkip, DispTypes, Slots
    <3> QED BY <2>3, <3>1 DEF DispSkip, SinkTypes, sinkVars
  <2>4. CASE DispPut
    <3>0. slot \in Slots /\ frame \in Nat /\ msgq[slot] \in Seq(Nat)
          /\ Len(msgq[slot]) <= SinkDepth
      BY <2>4 DEF DispPut, SinkTypes, DispTypes
    <3> DEFINE q == PutNoWait(msgq[slot], frame, SinkDepth)
    <3>1. q \in Seq(Nat) /\ Len(q) <= SinkDepth
      BY <3>0, PutType
    <3>2. msgq' \in [Slots -> Seq(Nat)] /\ \A i \in Slots : Len(msgq'[i]) <= SinkDepth
      <4> HIDE DEF q
      <4>1. msgq' = [msgq EXCEPT ![slot] = q]
        BY <2>4 DEF DispPut, q
      <4> QED BY <4>1, <3>0, <3>1 DEF SinkTypes
    <3>3. queued' = queued \/ queued' = [queued EXCEPT ![slot] = @ + 1]
      BY <2>4 DEF DispPut, CountQueued
    <3>4. queued' \in [Slots -> Nat]
      <4>1. queued \in [Slots -> Nat]
        BY DEF SinkTypes
      <4>2. [queued EXCEPT ![slot] = @ + 1] \in [Slots -> Nat]
        BY <3>0, <4>1
      <4> QED BY <3>3, <4>1, <4>2
    <3>5. SinkTypes'
      BY <1>1, <2>4, <3>2, <3>4 DEF DispPut, SinkTypes
    <3>6. CASE HasRoom(msgq[slot], SinkDepth)
      <4>1. before' = dropped_oldest[slot] /\ dropped_oldest[slot] \in Nat
            /\ CountQueued(dropped_oldest[slot])
        BY <2>4, <3>0, <3>6 DEF DispPut, SinkTypes
      <4>2. sink_dropped_oldest' = sink_dropped_oldest /\ slot' = slot + 1
            /\ dispPc' = "slot" /\ any' = 1
        BY <4>1 DEF CountQueued, DispTypes
      <4>3. DispTypes'
        BY <2>4, <3>0, <4>1, <4>2 DEF DispPut, DispTypes, Slots
      <4> QED BY <4>2, <4>3, <3>5
    <3>7. CASE ~HasRoom(msgq[slot], SinkDepth)
      <4>1. DispTypes' /\ dispPc' = "drop" /\ slot' = slot
            /\ before' = dropped_oldest[slot]
        BY <2>4, <3>0, <3>7 DEF DispPut, DispTypes, SinkTypes, Slots
      <4>2. msgq'[slot] = msgq[slot] /\ Len(msgq[slot]) = SinkDepth
        BY <2>4, <3>0, <3>7 DEF DispPut, PutNoWait, HasRoom, SinkTypes
      <4>3. SlotStages'
        BY <1>1, <2>4, <3>0, <4>1, <4>2 DEF DispPut, SinkTypes
      <4> QED BY <4>1, <4>3, <3>5
    <3> QED BY <3>6, <3>7
  <2>5. CASE DispDrop
    <3>0. slot \in Slots /\ slot \in active /\ msgq[slot] \in Seq(Nat)
          /\ Len(msgq[slot]) = SinkDepth /\ before <= dropped_oldest[slot]
      BY <2>5 DEF DispDrop, PutStages, SinkTypes
    <3> DEFINE q == DropOldest(msgq[slot])
    <3>1. q \in Seq(Nat) /\ Len(q) < SinkDepth
      <4>1. Len(msgq[slot]) > 0
        BY <3>0
      <4>2. q \in Seq(Nat) /\ Len(q) = Len(msgq[slot]) - 1
        BY <3>0, <4>1, DropType
      <4> QED BY <3>0, <4>2
    <3>2. msgq' \in [Slots -> Seq(Nat)] /\ (\A i \in Slots : Len(msgq'[i]) <= SinkDepth)
          /\ Len(msgq'[slot]) < SinkDepth
      <4> HIDE DEF q
      <4>1. msgq' = [msgq EXCEPT ![slot] = q]
        BY <2>5 DEF DispDrop, q
      <4>2. msgq'[slot] = q /\ \A i \in Slots \ {slot} : msgq'[i] = msgq[i]
        BY <4>1, <3>0 DEF SinkTypes
      <4>3. msgq' \in [Slots -> Seq(Nat)]
        BY <4>1, <3>0, <3>1 DEF SinkTypes
      <4>4. \A i \in Slots : Len(msgq'[i]) <= SinkDepth
        <5>1. Len(q) <= SinkDepth
          BY <3>1, BridgeAssumption
        <5>2. \A i \in Slots : Len(msgq[i]) <= SinkDepth
          BY DEF SinkTypes
        <5> QED BY <4>2, <5>1, <5>2, Zenon
      <4> QED BY <4>2, <4>3, <4>4, <3>1
    <3>3. dropped_oldest' \in [Slots -> Nat]
          /\ dropped_oldest'[slot] = dropped_oldest[slot] + 1
      BY <2>5, <3>0 DEF DispDrop, SinkTypes
    <3>4. SinkTypes'
      BY <1>1, <2>5, <3>2, <3>3 DEF DispDrop, SinkTypes
    <3>5. DispTypes'
      BY <2>5 DEF DispDrop, DispTypes
    <3>6. SlotStages'
      BY <1>1, <2>5, <3>0, <3>2, <3>3 DEF DispDrop, HasRoom, SinkTypes, DispTypes
    <3> QED BY <3>4, <3>5, <3>6
  <2>6. CASE DispReput
    <3>0. slot \in Slots /\ frame \in Nat /\ msgq[slot] \in Seq(Nat)
          /\ Len(msgq[slot]) <= SinkDepth /\ before <= dropped_oldest[slot]
          /\ HasRoom(msgq[slot], SinkDepth)
      BY <2>6 DEF DispReput, PutStages, SinkTypes, DispTypes
    <3> DEFINE q == PutNoWait(msgq[slot], frame, SinkDepth)
    <3>1. q \in Seq(Nat) /\ Len(q) <= SinkDepth
      BY <3>0, PutType
    <3>2. msgq' \in [Slots -> Seq(Nat)] /\ \A i \in Slots : Len(msgq'[i]) <= SinkDepth
      <4> HIDE DEF q
      <4>1. msgq' = [msgq EXCEPT ![slot] = q]
        BY <2>6 DEF DispReput, q
      <4> QED BY <4>1, <3>0, <3>1 DEF SinkTypes
    <3>3. dropped_oldest' = dropped_oldest
      BY <2>6, <3>0 DEF DispReput, SinkTypes
    <3>4. queued' \in [Slots -> Nat]
      BY <2>6, <3>0 DEF DispReput, CountQueued, SinkTypes
    <3>5. SinkTypes'
      BY <1>1, <2>6, <3>2, <3>3, <3>4 DEF DispReput, SinkTypes
    <3>6. DispTypes' /\ dispPc' = "slot"
      <4>1. before' = before /\ dropped_oldest[slot] \in Nat
            /\ CountQueued(dropped_oldest[slot])
        BY <2>6, <3>0, <3>3 DEF DispReput, SinkTypes
      <4>2. sink_dropped_oldest' \in Nat /\ slot' = slot + 1
            /\ dispPc' = "slot" /\ any' = 1
        BY <3>0, <4>1 DEF CountQueued, DispTypes
      <4> QED BY <2>6, <3>0, <4>1, <4>2 DEF DispReput, DispTypes, Slots
    <3> QED BY <3>5, <3>6
  <2>7. CASE DispUnlock
    <3>1. DispTypes'
      BY <2>7 DEF DispUnlock, DispTypes
    <3> QED BY <2>7, <3>1 DEF DispUnlock, SinkTypes, sinkVars
  <2> QED BY <2>1, <2>2, <2>3, <2>4, <2>5, <2>6, <2>7 DEF DispNext
<1> QED BY <1>2, <1>3, <1>4, <1>5 DEF TypeInv, TypeOK, PutStages

\* What the steps of a session do to the sinks.
LEMMA SessSinkTypes ==
    ASSUME TypeInv, NEW s \in Sessions, SessNext(s)
    PROVE  SinkTypes'
<1> USE DEF TypeInv, TypeOK
<1>1. CASE OpenSlot(s)
  <2>1. PICK i \in FreeSlots :
          /\ active' = active \cup {i}
          /\ msgq' = [msgq EXCEPT ![i] = <<>>]
          /\ queued' = [queued EXCEPT ![i] = 0]
          /\ consumed' = [consumed EXCEPT ![i] = 0]
          /\ dropped_oldest' = [dropped_oldest EXCEPT ![i] = 0]
          /\ retiredDrops' = retiredDrops + dropped_oldest[i]
          /\ lastTaken' = [lastTaken EXCEPT ![i] = 0]
          /\ openedAfter' = [openedAfter EXCEPT ![i] =
                                IF dispPc = "get" THEN frame ELSE frame - 1]
    BY <1>1 DEF OpenSlot, Purge
  <2>2. i \in Slots
    BY DEF FreeSlots
  <2>3. (IF dispPc = "get" THEN frame ELSE frame - 1) \in Int
    BY DEF DispTypes
  <2>4. openedAfter' \in [Slots -> Int]
    BY <2>1, <2>2, <2>3 DEF SinkTypes
  <2>5. msgq' \in [Slots -> Seq(Nat)] /\ \A j \in Slots : Len(msgq'[j]) <= SinkDepth
    BY <2>1, <2>2 DEF SinkTypes
  <2>6. /\ active' \subseteq Slots
        /\ queued' \in [Slots -> Nat]
        /\ consumed' \in [Slots -> Nat]
        /\ dropped_oldest' \in [Slots -> Nat]
        /\ lastTaken' \in [Slots -> Nat]
        /\ retiredDrops' \in Nat
    BY <2>1, <2>2 DEF SinkTypes
  <2> QED BY <2>4, <2>5, <2>6 DEF SinkTypes
<1>2. CASE CloseSlot(s)
  <2>1. active' \subseteq Slots
    BY <1>2 DEF CloseSlot, SinkTypes
  <2>2. msgq' \in [Slots -> Seq(Nat)] /\ \A j \in Slots : Len(msgq'[j]) <= SinkDepth
    <3>1. msgq \in [Slots -> Seq(Nat)] /\ (\A j \in Slots : Len(msgq[j]) <= SinkDepth)
          /\ msgq' = [msgq EXCEPT ![sinkId[s]] = <<>>]
      BY <1>2 DEF CloseSlot, Purge, SinkTypes
    <3>2. CASE sinkId[s] \in Slots
      BY <3>1, <3>2
    <3>3. CASE sinkId[s] \notin Slots
      BY <3>1, <3>3
    <3> QED BY <3>2, <3>3
  <2> QED BY <1>2, <2>1, <2>2 DEF CloseSlot, SinkTypes
<1>3. CASE TakeGet(s)
  <2> DEFINE i == sinkId[s]
  <2>1. CASE i \in Slots
    <3>1. msgq[i] \in Seq(Nat) /\ msgq[i] # <<>> /\ Len(msgq[i]) <= SinkDepth
      BY <1>3, <2>1 DEF TakeGet, SinkTypes
    <3>2. Head(msgq[i]) \in Nat /\ Tail(msgq[i]) \in Seq(Nat)
          /\ Len(Tail(msgq[i])) <= SinkDepth
      BY <3>1
    <3>3. lastTaken' \in [Slots -> Nat]
      BY <1>3, <2>1, <3>2 DEF TakeGet, SinkTypes
    <3>4. msgq' \in [Slots -> Seq(Nat)] /\ \A j \in Slots : Len(msgq'[j]) <= SinkDepth
      BY <1>3, <2>1, <3>2 DEF TakeGet, SinkTypes
    <3> QED BY <1>3, <3>3, <3>4 DEF TakeGet, SinkTypes
  <2>2. CASE i \notin Slots
    <3>1. msgq' = msgq /\ lastTaken' = lastTaken
      BY <1>3, <2>2 DEF TakeGet, SinkTypes
    <3> QED BY <1>3, <3>1 DEF TakeGet, SinkTypes
  <2> QED BY <2>1, <2>2
<1>4. CASE TakeCount(s)
  <2>1. consumed' \in [Slots -> Nat]
    <3>1. consumed \in [Slots -> Nat]
          /\ consumed' = [consumed EXCEPT ![sinkId[s]] = consumed[sinkId[s]] + 1]
      BY <1>4 DEF TakeCount, SinkTypes
    <3>2. CASE sinkId[s] \in Slots
      BY <3>1, <3>2
    <3>3. CASE sinkId[s] \notin Slots
      BY <3>1, <3>3
    <3> QED BY <3>2, <3>3
  <2> QED BY <1>4, <2>1 DEF TakeCount, SinkTypes
<1>5. CASE UNCHANGED sinkVars
  BY <1>5 DEF sinkVars, SinkTypes
<1> QED
  BY <1>1, <1>2, <1>3, <1>4, <1>5
  DEF SessNext, LockedStep, OpenFail, TakeCheck, OpenLock, TakeLock, CloseLock,
      LockStep, TakeTimeout

\* A session keeps its own program counter and handle in range.
LEMMA SessSessTypes ==
    ASSUME TypeInv, NEW s \in Sessions, SessNext(s)
    PROVE  SessTypes'
<1> USE DEF TypeInv, TypeOK, SessTypes
<1>1. CASE OpenSlot(s)
  <2>1. PICK i \in FreeSlots : sinkId' = [sinkId EXCEPT ![s] = i]
    BY <1>1 DEF OpenSlot
  <2>2. i \in Slots
    BY DEF FreeSlots
  <2> QED BY <1>1, <2>1, <2>2 DEF OpenSlot
<1>2. CASE CloseSlot(s)
  BY <1>2 DEF CloseSlot
<1>3. CASE OpenFail(s) \/ TakeCheck(s)
  BY <1>3 DEF OpenFail, TakeCheck
<1>4. CASE OpenLock(s) \/ TakeLock(s) \/ CloseLock(s)
  BY <1>4 DEF OpenLock, TakeLock, CloseLock, LockStep
<1>5. CASE TakeGet(s) \/ TakeCount(s) \/ TakeTimeout(s)
  BY <1>5 DEF TakeGet, TakeCount, TakeTimeout, sinkVars
<1> QED BY <1>1, <1>2, <1>3, <1>4, <1>5 DEF SessNext, LockedStep

\* A session empties, resets or shortens one sink queue.
LEMMA TypeSess ==
    ASSUME TypeInv, NEW s \in Sessions, SessNext(s)
    PROVE  TypeInv'
<1>1. SinkTypes' /\ SessTypes'
  BY SessSinkTypes, SessSessTypes
<1>2. UNCHANGED <<uartVars, dispVars>> /\ uartPc = "idle" /\ dispPc \in {"get", "lock"}
  BY SessFrame DEF TypeInv, TypeOK
<1>3. UartTypes' /\ DispTypes' /\ PutStages'
  BY <1>2 DEF TypeInv, TypeOK, UartTypes, DispTypes, PutStages, uartVars, dispVars
<1> QED BY <1>1, <1>3 DEF TypeInv, TypeOK

\* TypeInv is inductive.
LEMMA TypeStep == TypeInv /\ [Next]_vars => TypeInv'
<1> SUFFICES ASSUME TypeInv, [Next]_vars PROVE TypeInv'
  OBVIOUS
<1>1. CASE UNCHANGED vars
  BY <1>1 DEF vars, uartVars, dispVars, sinkVars, sessVars, TypeInv, TypeOK,
              UartTypes, DispTypes, SinkTypes, SessTypes, PutStages, HasRoom
<1> QED BY <1>1, TypeUart, TypeDisp, TypeSess DEF Next

\* Every variable of the frame path keeps its type and no queue outgrows its
\* depth, for any number of sessions, sinks and frames.
THEOREM TypeCorrect == Spec => []TypeOK
<1>1. TypeInv => TypeOK
  BY DEF TypeInv
<1> QED BY <1>1, TypeInit, TypeStep, PTL DEF Spec

\* The second put of put_drop_oldest never fails: UART thread and dispatcher
\* have their queue to themselves from the failed put to the second one.
THEOREM SecondPutSucceeds == Spec => []PutStages
<1>1. TypeInv => PutStages
  BY DEF TypeInv
<1> QED BY <1>1, TypeInit, TypeStep, PTL DEF Spec

-----------------------------------------------------------------------------
(* Accounting between UART thread and dispatcher. *)

\* A frame moves from one term of the balance to the next.
LEMMA IngestStep == TypeInv /\ IngestAccounted /\ [Next]_vars => IngestAccounted'
<1> SUFFICES ASSUME TypeInv, IngestAccounted, [Next]_vars PROVE IngestAccounted'
  OBVIOUS
<1> USE DEF TypeInv, TypeOK, UartTypes, DispTypes, IngestAccounted
<1>1. CASE PublishReject
  BY <1>1 DEF PublishReject, dispVars
<1>2. CASE PublishFrame
  <2>1. CASE HasRoom(ingest, IngestDepth)
    <3>1. Len(ingest') = Len(ingest) + 1
      BY <1>2, <2>1 DEF PublishFrame, PutNoWait
    <3> QED BY <1>2, <2>1, <3>1 DEF PublishFrame, dispVars
  <2>2. CASE ~HasRoom(ingest, IngestDepth)
    <3>1. ingest' = ingest
      BY <1>2, <2>2 DEF PublishFrame, PutNoWait
    <3> QED BY <1>2, <2>2, <3>1 DEF PublishFrame, dispVars
  <2> QED BY <2>1, <2>2
<1>3. CASE PublishDrop
  <2>1. Len(ingest') = Len(ingest) - 1
    BY <1>3 DEF PublishDrop, DropOldest, GetNoWait, PutStages
  <2> QED BY <1>3, <2>1 DEF PublishDrop, dispVars
<1>4. CASE PublishReput
  BY <1>4 DEF PublishReput, PutNoWait, HasRoom, PutStages, dispVars
<1>5. CASE DispGet
  <2>1. Len(ingest') = Len(ingest) - 1
    BY <1>5 DEF DispGet
  <2> QED BY <1>5, <2>1 DEF DispGet
<1>6. CASE UNCHANGED <<uartVars, taken>>
  BY <1>6 DEF uartVars
<1>7. ASSUME NEW s \in Sessions, SessNext(s) PROVE UNCHANGED <<uartVars, taken>>
  BY <1>7, SessFrame DEF dispVars
<1>8. DispNext => DispGet \/ UNCHANGED <<uartVars, taken>>
  BY DEF DispNext, DispLock, DispSkip, DispPut, DispDrop, DispReput, DispUnlock
<1>9. UNCHANGED vars => UNCHANGED <<uartVars, taken>>
  BY DEF vars, dispVars
<1> QED BY <1>1, <1>2, <1>3, <1>4, <1>5, <1>6, <1>7, <1>8, <1>9 DEF Next, UartNext

\* No frame is lost uncounted on its way from the UART to the dispatcher.
THEOREM IngestAccounting == Spec => []IngestAccounted
<1>1. Init => IngestAccounted
  BY DEF Init, IngestAccounted
<1> QED BY <1>1, TypeInit, TypeStep, IngestStep, PTL DEF Spec

-----------------------------------------------------------------------------
(* Sink handles. *)

\* Handles stay valid: a sink is opened in a free slot, and closed by its owner.
LEMMA HandlesStep == TypeInv /\ HandlesValid /\ [Next]_vars => HandlesValid'
<1> SUFFICES ASSUME TypeInv, HandlesValid, [Next]_vars PROVE HandlesValid'
  OBVIOUS
<1>1. CASE UNCHANGED <<sessPc, sinkId, active>>
  BY <1>1 DEF HandlesValid, HoldsHandle
<1>2. ASSUME NEW s \in Sessions, SessNext(s) PROVE HandlesValid'
  <2> USE DEF TypeInv, TypeOK, SessTypes
  <2>1. CASE OpenSlot(s)
    <3>1. PICK i \in FreeSlots : /\ active' = active \cup {i}
                                 /\ sinkId' = [sinkId EXCEPT ![s] = i]
      BY <2>1 DEF OpenSlot
    <3>2. i \notin active /\ i \in Slots
      BY DEF FreeSlots
    <3>3. sessPc[s] = "opening" /\ sessPc' = [sessPc EXCEPT ![s] = "open"]
      BY <2>1 DEF OpenSlot
    <3> QED BY <3>1, <3>2, <3>3 DEF HandlesValid, HoldsHandle
  <2>2. CASE CloseSlot(s)
    BY <2>2 DEF CloseSlot, HandlesValid, HoldsHandle
  <2>3. CASE OpenFail(s)
    BY <2>3 DEF OpenFail, HandlesValid, HoldsHandle, sinkVars
  <2>4. CASE TakeCheck(s)
    BY <2>4 DEF TakeCheck, HandlesValid, HoldsHandle, sinkVars
  <2>5. CASE OpenLock(s)
    BY <2>5 DEF OpenLock, LockStep, HandlesValid, HoldsHandle, sinkVars
  <2>6. CASE TakeLock(s) \/ CloseLock(s)
    BY <2>6 DEF TakeLock, CloseLock, LockStep, HandlesValid, HoldsHandle, sinkVars
  <2>7. CASE TakeGet(s)
    BY <2>7 DEF TakeGet, HandlesValid, HoldsHandle
  <2>8. CASE TakeCount(s)
    BY <2>8 DEF TakeCount, HandlesValid, HoldsHandle
  <2>9. CASE TakeTimeout(s)
    BY <2>9 DEF TakeTimeout, HandlesValid, HoldsHandle, sinkVars
  <2> QED BY <1>2, <2>1, <2>2, <2>3, <2>4, <2>5, <2>6, <2>7, <2>8, <2>9
          DEF SessNext, LockedStep
<1>3. UartNext \/ DispNext \/ UNCHANGED vars => UNCHANGED <<sessPc, sinkId, active>>
  BY UartFrame, DispFrame DEF vars, sessVars, sinkVars
<1> QED BY <1>1, <1>2, <1>3 DEF Next

\* A handle stays valid until its owner closes it, and it is the owner's alone.
THEOREM HandlesStayValid == Spec => []HandlesValid
<1>1. Init => HandlesValid
  BY DEF Init, HandlesValid, HoldsHandle
<1> QED BY <1>1, TypeInit, TypeStep, HandlesStep, PTL DEF Spec

-----------------------------------------------------------------------------
(* The total of the drops.  Induction is by the least element of a set: the *)
(* provers cannot instantiate an induction rule with a predicate.           *)

\* The least-number principle, for sets.
LEMMA Least == ASSUME NEW T, T \subseteq Nat, T # {} PROVE \E x \in T : \A y \in T : x <= y
<1> DEFINE R == OpToRel(<, Nat)
<1>1. PICK x \in T : \A y \in T : ~(<<y, x>> \in R)
  BY NatLessThanWellFounded, WFMin, Zenon
<1>2. \A y \in T : y < x => <<y, x>> \in R
  BY DEF OpToRel
<1> HIDE DEF R
<1>3. \A y \in T : ~(y < x)
  BY <1>1, <1>2
<1> QED BY <1>3

\* Induction over the naturals, for a set in place of a predicate
LEMMA NatSetInduction ==
    ASSUME NEW G, 0 \in G, \A n \in Nat : n \in G => n + 1 \in G
    PROVE  Nat \subseteq G
<1> SUFFICES ASSUME NEW k \in Nat, k \notin G PROVE FALSE
  OBVIOUS
<1> DEFINE Bad == {n \in Nat : n \notin G}
<1>1. PICK n \in Bad : \A m \in Bad : n <= m
  <2>1. Bad \subseteq Nat /\ Bad # {}
    OBVIOUS
  <2> HIDE DEF Bad
  <2> QED BY <2>1, Least
<1>2. n \in Nat /\ n # 0 /\ n - 1 \in Nat
  OBVIOUS
<1>3. n - 1 \in G
  BY <1>1, <1>2
<1>4. (n - 1) + 1 = n
  BY <1>2
<1> QED BY <1>2, <1>3, <1>4

Pick(s) == CHOOSE x \in s : TRUE

\* Induction over the subsets of a finite set: a subset that lacks a property has
\* one that lacks it although it is empty or has it without its picked element.
LEMMA SubsetInduction ==
    ASSUME NEW S, IsFiniteSet(S), NEW G,
           \A s \in SUBSET S : (s = {} \/ s \ {Pick(s)} \in G) => s \in G
    PROVE  SUBSET S \subseteq G
<1> SUFFICES ASSUME NEW t \in SUBSET S, t \notin G PROVE FALSE
  OBVIOUS
<1> DEFINE Bad == {s \in SUBSET S : s \notin G}
           Sizes == {Cardinality(s) : s \in Bad}
<1>1. \A s \in SUBSET S : IsFiniteSet(s) /\ Cardinality(s) \in Nat
  BY FS_Subset, FS_CardinalityType
<1>2. Sizes \subseteq Nat /\ Sizes # {}
  BY <1>1
<1>3. PICK n \in Sizes : \A m \in Sizes : n <= m
  <2> HIDE DEF Sizes
  <2> QED BY <1>2, Least
<1>4. PICK s \in Bad : n = Cardinality(s)
  OBVIOUS
<1>5. s # {} /\ s \ {Pick(s)} \notin G
  OBVIOUS
<1>6. Pick(s) \in s
  BY <1>5 DEF Pick
<1>7. s \ {Pick(s)} \in Bad /\ Cardinality(s \ {Pick(s)}) = n - 1
  BY <1>1, <1>4, <1>5, <1>6, FS_RemoveElement
<1>8. n - 1 \in Sizes /\ n \in Nat
  BY <1>1, <1>4, <1>7
<1> QED BY <1>3, <1>8

\* h is the recursive function by which MapThenSumSet adds up the values of f.
SumEquation(h, f, S) ==
    h = [s \in SUBSET S |-> IF s = {} THEN 0 ELSE f[Pick(s)] + h[s \ {Pick(s)}]]
SumFcn(f, S) == CHOOSE h : SumEquation(h, f, S)

LEMMA SumIsSumFcn == ASSUME NEW f, NEW S
                     PROVE  MapThenSumSet(LAMBDA i : f[i], S) = SumFcn(f, S)[S]
  BY DEF MapThenSumSet, MapThenFoldSet, SumFcn, SumEquation, Pick

\* The recursion has a solution: larger and larger parts of it do.
LEMMA SumFcnExists == ASSUME NEW f, NEW S, IsFiniteSet(S)
                      PROVE  SumEquation(SumFcn(f, S), f, S)
<1> DEFINE UpTo(n) == {s \in SUBSET S : Cardinality(s) <= n}
           Part(h, n) == h = [s \in UpTo(n) |->
                                IF s = {} THEN 0 ELSE f[Pick(s)] + h[s \ {Pick(s)}]]
           Solved == {n \in Nat : \E h : Part(h, n)}
<1>1. \A s \in SUBSET S : /\ IsFiniteSet(s) /\ Cardinality(s) \in Nat
                          /\ Cardinality(s) <= Cardinality(S)
                          /\ Cardinality(s) = 0 <=> s = {}
  BY FS_Subset, FS_CardinalityType, FS_EmptySet
<1>2. \A s \in SUBSET S : s # {} => /\ s \ {Pick(s)} \in SUBSET S
                                    /\ Cardinality(s \ {Pick(s)}) = Cardinality(s) - 1
  <2> SUFFICES ASSUME NEW s \in SUBSET S, s # {}
               PROVE  Cardinality(s \ {Pick(s)}) = Cardinality(s) - 1
    OBVIOUS
  <2>1. Pick(s) \in s
    BY DEF Pick
  <2> QED BY <1>1, <2>1, FS_RemoveElement
<1>3. 0 \in Solved
  <2> DEFINE h == [s \in UpTo(0) |-> 0]
  <2>1. \A s \in UpTo(0) : s = {}
    BY <1>1
  <2>2. Part(h, 0)
    BY <2>1
  <2> QED BY <2>2
<1>4. ASSUME NEW n \in Nat, n \in Solved PROVE n + 1 \in Solved
  <2>1. PICK h : Part(h, n)
    BY <1>4
  <2> DEFINE g == [s \in UpTo(n + 1) |->
                     IF s = {} THEN 0 ELSE f[Pick(s)] + h[s \ {Pick(s)}]]
  <2>2. \A s \in UpTo(n) : s \in UpTo(n + 1)
    BY <1>1
  <2>3. \A s \in UpTo(n) : g[s] = h[s]
    <3>1. \A s \in UpTo(n) : h[s] = IF s = {} THEN 0 ELSE f[Pick(s)] + h[s \ {Pick(s)}]
      BY <2>1
    <3> QED BY <2>2, <3>1
  <2>4. \A s \in UpTo(n + 1) : s # {} => s \ {Pick(s)} \in UpTo(n)
    BY <1>1, <1>2
  <2>5. Part(g, n + 1)
    <3>1. \A s \in UpTo(n + 1) : s # {} => g[s \ {Pick(s)}] = h[s \ {Pick(s)}]
      <4> HIDE DEF g, UpTo
      <4> QED BY <2>3, <2>4
    <3> QED BY <3>1
  <2>6. \E x : Part(x, n + 1)
    <3> HIDE DEF g, Part
    <3> QED BY <2>5
  <2> HIDE DEF g, Part
  <2> QED BY <2>6
<1>5. Nat \subseteq Solved
  <2> HIDE DEF Solved
  <2> QED BY <1>3, <1>4, NatSetInduction
<1>6. PICK h : Part(h, Cardinality(S))
  BY <1>1, <1>5
<1>7. UpTo(Cardinality(S)) = SUBSET S
  BY <1>1
<1>8. SumEquation(h, f, S)
  BY <1>6, <1>7 DEF SumEquation
<1> QED BY <1>8 DEF SumFcn

\* The same, value by value
SumRules(h, f, S) ==
    /\ h[{}] = 0
    /\ \A s \in SUBSET S : h[s] \in Int
    /\ \A s \in SUBSET S : s # {} => h[s] = f[Pick(s)] + h[s \ {Pick(s)}]

LEMMA SumValues ==
    ASSUME NEW f, NEW S, IsFiniteSet(S), \A i \in S : f[i] \in Int
    PROVE  SumRules(SumFcn(f, S), f, S)
<1> DEFINE h == SumFcn(f, S)
<1>1. SumEquation(h, f, S)
  BY SumFcnExists
<1> HIDE DEF h
<1>2. h[{}] = 0
  BY <1>1 DEF SumEquation
<1>3. \A s \in SUBSET S : s # {} => h[s] = f[Pick(s)] + h[s \ {Pick(s)}]
  BY <1>1 DEF SumEquation
<1> DEFINE G == {s \in SUBSET S : h[s] \in Int}
<1>4. ASSUME NEW s \in SUBSET S, s = {} \/ s \ {Pick(s)} \in G PROVE s \in G
  <2>1. CASE s = {}
    BY <2>1, <1>2
  <2>2. CASE s # {}
    <3>1. Pick(s) \in S
      BY <2>2 DEF Pick
    <3>2. h[s \ {Pick(s)}] \in Int
      BY <1>4, <2>2
    <3>3. f[Pick(s)] \in Int
      BY <3>1
    <3>4. h[s] = f[Pick(s)] + h[s \ {Pick(s)}]
      BY <1>3, <2>2
    <3>5. h[s] \in Int
      BY <3>2, <3>3, <3>4
    <3> QED BY <3>5
  <2> QED BY <2>1, <2>2
<1>5. SUBSET S \subseteq G
  <2> HIDE DEF G
  <2> QED BY <1>4, SubsetInduction
<1> QED BY <1>2, <1>3, <1>5 DEF h, SumRules

\* Two functions that differ at j only have sums that differ by as much.
LEMMA SumChange ==
    ASSUME NEW f, NEW g, NEW S, IsFiniteSet(S), NEW j \in S,
           \A i \in S : f[i] \in Int /\ g[i] \in Int,
           \A i \in S \ {j} : f[i] = g[i]
    PROVE  /\ MapThenSumSet(LAMBDA i : f[i], S) \in Int
           /\ MapThenSumSet(LAMBDA i : g[i], S)
                = MapThenSumSet(LAMBDA i : f[i], S) + (g[j] - f[j])
<1> DEFINE F == SumFcn(f, S)
           H == SumFcn(g, S)
           G == {s \in SUBSET S : H[s] = F[s] + (IF j \in s THEN g[j] - f[j] ELSE 0)}
<1>1. SumRules(F, f, S) /\ SumRules(H, g, S)
  BY SumValues
<1>2. MapThenSumSet(LAMBDA i : f[i], S) = F[S] /\ MapThenSumSet(LAMBDA i : g[i], S) = H[S]
  BY SumIsSumFcn
<1> HIDE DEF F, H
<1>3. ASSUME NEW s \in SUBSET S, s = {} \/ s \ {Pick(s)} \in G PROVE s \in G
  <2>1. CASE s = {}
    BY <2>1, <1>1 DEF SumRules
  <2>2. CASE s # {}
    <3> DEFINE p == Pick(s)
               t == s \ {p}
    <3>1. p \in s /\ p \in S /\ t \in SUBSET S
      BY <2>2 DEF Pick
    <3>2. H[s] = g[p] + H[t] /\ F[s] = f[p] + F[t] /\ F[t] \in Int /\ H[t] \in Int
      BY <1>1, <2>2, <3>1 DEF SumRules
    <3>3. H[t] = F[t] + (IF j \in t THEN g[j] - f[j] ELSE 0)
      BY <1>3, <2>2
    <3> HIDE DEF p
    <3>4. CASE p = j
      <4>1. j \notin t /\ j \in s
        BY <3>1, <3>4
      <4>2. H[t] = F[t] /\ f[j] \in Int /\ g[j] \in Int
        BY <3>2, <3>3, <4>1
      <4>3. H[s] = F[s] + (g[j] - f[j])
        BY <3>2, <3>4, <4>2
      <4> QED BY <4>1, <4>3
    <3>5. CASE p # j
      <4>1. f[p] = g[p] /\ (j \in t <=> j \in s)
        BY <3>1, <3>5
      <4> QED BY <3>1, <3>2, <3>3, <4>1
    <3> QED BY <3>4, <3>5
  <2> QED BY <2>1, <2>2
<1>4. SUBSET S \subseteq G
  <2> HIDE DEF G
  <2> QED BY <1>3, SubsetInduction
<1>5. H[S] = F[S] + (g[j] - f[j]) /\ F[S] \in Int
  BY <1>1, <1>4 DEF SumRules
<1> QED BY <1>2, <1>5

\* There are MaxSinks slots.
LEMMA SlotsCount == IsFiniteSet(Slots) /\ Cardinality(Slots) = MaxSinks
<1>1. IsFiniteSet(0 .. MaxSinks - 1) /\ Cardinality(0 .. MaxSinks - 1) = MaxSinks
  BY FS_Interval
<1> QED BY <1>1 DEF Slots

\* Nothing dropped adds up to nothing.
LEMMA TotalZero == Total([i \in Slots |-> 0]) = 0
<1> DEFINE f == [i \in Slots |-> 0]
           F == SumFcn(f, Slots)
           G == {s \in SUBSET Slots : F[s] = 0}
<1>1. \A i \in Slots : f[i] = 0
  OBVIOUS
<1> HIDE DEF f
<1>2. SumRules(F, f, Slots)
  BY <1>1, SlotsCount, SumValues
<1> HIDE DEF F
<1>3. ASSUME NEW s \in SUBSET Slots, s = {} \/ s \ {Pick(s)} \in G PROVE s \in G
  <2>1. CASE s = {}
    BY <1>2, <2>1 DEF SumRules
  <2>2. CASE s # {}
    <3>1. Pick(s) \in Slots
      BY <2>2 DEF Pick
    <3>2. F[s] = f[Pick(s)] + F[s \ {Pick(s)}]
      BY <1>2, <2>2 DEF SumRules
    <3>3. F[s] = 0
      BY <1>1, <1>3, <2>2, <3>1, <3>2
    <3> QED BY <3>3
  <2> QED BY <2>1, <2>2
<1>4. SUBSET Slots \subseteq G
  <2> HIDE DEF G
  <2> QED BY <1>3, SlotsCount, SubsetInduction
<1>5. F[Slots] = 0
  BY <1>4
<1> QED BY <1>5, SumIsSumFcn DEF Total, f, F

\* Adding to the drops of slot j, or zeroing them, changes the total by as much.
LEMMA TotalChange ==
    ASSUME NEW d \in [Slots -> Nat], NEW j \in Slots, NEW v \in Nat
    PROVE  Total(d) \in Int /\ Total([d EXCEPT ![j] = v]) = Total(d) + (v - d[j])
<1> DEFINE e == [d EXCEPT ![j] = v]
<1>1. /\ \A i \in Slots : d[i] \in Int /\ e[i] \in Int
      /\ \A i \in Slots \ {j} : d[i] = e[i]
      /\ e[j] = v
  OBVIOUS
<1> HIDE DEF e
<1>2. Total(d) \in Int /\ Total(e) = Total(d) + (e[j] - d[j])
  <2>1. IsFiniteSet(Slots)
    BY SlotsCount
  <2> DEFINE SumD == MapThenSumSet(LAMBDA i : d[i], Slots)
             SumE == MapThenSumSet(LAMBDA i : e[i], Slots)
  <2>2. \A i \in Slots : d[i] \in Int /\ e[i] \in Int
    BY <1>1
  <2>3. \A i \in Slots \ {j} : d[i] = e[i]
    BY <1>1
  <2>4. SumD \in Int /\ SumE = SumD + (e[j] - d[j])
    BY <2>1, <2>2, <2>3, SumChange, ZenonT(40)
  <2> QED BY <2>4 DEF Total
<1> QED BY <1>1, <1>2 DEF e

\* A put that found its queue full has noted the count before the drop.
DropNoted == dispPc = "drop" => before = dropped_oldest[slot]

DropInv == DropNoted /\ DropTotalExact

\* Every step of the dispatcher keeps the total, a drop until it is counted.
LEMMA DispKeepsTotal ==
    ASSUME TypeInv, DropInv, DispNext PROVE DropInv'
<1> USE DEF TypeInv, TypeOK, DropInv
<1>0. /\ dropped_oldest \in [Slots -> Nat] /\ Total(dropped_oldest) \in Int
      /\ retiredDrops \in Nat /\ sink_dropped_oldest \in Nat
  <2>1. 0 \in Slots
    BY DEF Slots
  <2> QED BY <2>1, TotalChange DEF SinkTypes, DispTypes
<1>1. retiredDrops' = retiredDrops
  BY DispFrame
<1>2. CASE DispGet \/ DispLock \/ DispSkip \/ DispUnlock
  <2>1. dispPc \notin {"drop", "reput"} /\ dispPc' \notin {"drop", "reput"}
        /\ UNCHANGED <<sink_dropped_oldest, dropped_oldest>>
    BY <1>2 DEF DispGet, DispLock, DispSkip, DispUnlock, sinkVars
  <2> QED BY <1>1, <2>1 DEF DropNoted, DropTotalExact
<1>3. CASE DispPut
  <2>1. slot \in Slots /\ dropped_oldest' = dropped_oldest /\ dispPc = "slot"
        /\ before' = dropped_oldest[slot]
    BY <1>3 DEF DispPut, SinkTypes
  <2>2. CASE HasRoom(msgq[slot], SinkDepth)
    <3>1. dispPc' = "slot" /\ sink_dropped_oldest' = sink_dropped_oldest
      BY <1>0, <1>3, <2>1, <2>2 DEF DispPut, CountQueued
    <3> QED BY <1>1, <2>1, <3>1 DEF DropNoted, DropTotalExact
  <2>3. CASE ~HasRoom(msgq[slot], SinkDepth)
    <3>1. dispPc' = "drop" /\ slot' = slot /\ sink_dropped_oldest' = sink_dropped_oldest
      BY <1>3, <2>3 DEF DispPut
    <3> QED BY <1>1, <2>1, <3>1 DEF DropNoted, DropTotalExact
  <2> QED BY <2>2, <2>3
<1>4. CASE DispDrop
  <2>1. /\ slot \in Slots /\ slot' = slot /\ dispPc = "drop" /\ dispPc' = "reput"
        /\ dropped_oldest' = [dropped_oldest EXCEPT ![slot] = dropped_oldest[slot] + 1]
        /\ before' = before /\ sink_dropped_oldest' = sink_dropped_oldest
    BY <1>4 DEF DispDrop, PutStages, SinkTypes
  <2>2. Total(dropped_oldest') = Total(dropped_oldest) + 1
    <3>1. dropped_oldest[slot] \in Nat /\ dropped_oldest[slot] + 1 \in Nat
      BY <1>0, <2>1
    <3>2. Total(dropped_oldest')
            = Total(dropped_oldest) + ((dropped_oldest[slot] + 1) - dropped_oldest[slot])
      BY <1>0, <2>1, <3>1, TotalChange, Zenon
    <3> QED BY <1>0, <3>1, <3>2
  <2>3. dropped_oldest'[slot'] - before' = 1
    BY <1>0, <2>1 DEF DropNoted
  <2>4. Total(dropped_oldest) + retiredDrops = sink_dropped_oldest
    BY <1>0, <2>1 DEF DropTotalExact
  <2>5. DropTotalExact'
    BY <1>0, <1>1, <2>1, <2>2, <2>3, <2>4 DEF DropTotalExact
  <2> QED BY <2>1, <2>5 DEF DropNoted
<1>5. CASE DispReput
  <2>1. /\ slot \in Slots /\ dispPc = "reput" /\ dispPc' = "slot"
        /\ HasRoom(msgq[slot], SinkDepth)
        /\ before' = before /\ before \in Nat
        /\ sink_dropped_oldest' = sink_dropped_oldest + (dropped_oldest'[slot] - before')
    BY <1>5 DEF DispReput, CountQueued, PutStages, SinkTypes, DispTypes
  <2>2. dropped_oldest' = dropped_oldest
    BY <1>0, <1>5, <2>1 DEF DispReput
  <2>3. DropTotalExact'
    BY <1>0, <1>1, <2>1, <2>2 DEF DropTotalExact
  <2> QED BY <2>1, <2>3 DEF DropNoted
<1> QED BY <1>2, <1>3, <1>4, <1>5 DEF DispNext

\* A session changes the statistics of a slot only when it opens it, and what they
\* held is then retired.
LEMMA SessKeepsTotal ==
    ASSUME TypeInv, DropInv, NEW s \in Sessions, SessNext(s) PROVE DropInv'
<1> USE DEF TypeInv, TypeOK, DropInv
<1>1. dispPc' = dispPc /\ dispPc \in {"get", "lock"}
      /\ sink_dropped_oldest' = sink_dropped_oldest
  BY SessFrame DEF dispVars
<1>2. CASE OpenSlot(s)
  <2>1. PICK i \in Slots : /\ dropped_oldest' = [dropped_oldest EXCEPT ![i] = 0]
                            /\ retiredDrops' = retiredDrops + dropped_oldest[i]
    BY <1>2 DEF OpenSlot, FreeSlots
  <2>2. /\ Total(dropped_oldest') = Total(dropped_oldest) - dropped_oldest[i]
        /\ Total(dropped_oldest) \in Int
        /\ dropped_oldest[i] \in Nat /\ retiredDrops \in Nat
    <3>1. dropped_oldest \in [Slots -> Nat] /\ retiredDrops \in Nat /\ 0 \in Nat
      BY DEF SinkTypes
    <3>2. dropped_oldest[i] \in Nat
      BY <3>1
    <3>3. /\ Total(dropped_oldest) \in Int
          /\ Total(dropped_oldest') = Total(dropped_oldest) + (0 - dropped_oldest[i])
      BY <2>1, <3>1, TotalChange, Zenon
    <3> QED BY <3>1, <3>2, <3>3
  <2> QED BY <1>1, <2>1, <2>2 DEF DropNoted, DropTotalExact
<1>3. CASE ~OpenSlot(s)
  <2>1. UNCHANGED <<dropped_oldest, retiredDrops>>
    BY <1>3 DEF SessNext, LockedStep, OpenFail, TakeCheck, CloseSlot, OpenLock, TakeLock,
                CloseLock, LockStep, TakeGet, TakeCount, TakeTimeout, sinkVars
  <2> QED BY <1>1, <2>1 DEF DropNoted, DropTotalExact
<1> QED BY <1>2, <1>3

\* The total in bridge_stats is exact: whatever the threads do, it differs from what
\* the sinks report, together with what closed sinks reported, by at most the drop
\* that the dispatcher is about to count.
THEOREM DropTotalIsExact == Spec => []DropTotalExact
<1>1. Init => DropInv
  BY TotalZero DEF Init, DropInv, DropNoted, DropTotalExact
<1>2. TypeInv /\ DropInv /\ [Next]_vars => DropInv'
  <2> SUFFICES ASSUME TypeInv, DropInv, [Next]_vars PROVE DropInv'
    OBVIOUS
  <2>1. CASE UartNext \/ UNCHANGED vars
    <3>1. UNCHANGED <<dispPc, slot, before, sink_dropped_oldest, dropped_oldest, retiredDrops>>
      BY <2>1, UartFrame DEF vars, dispVars, sinkVars
    <3> QED BY <3>1 DEF DropInv, DropNoted, DropTotalExact
  <2>2. CASE DispNext
    BY <2>2, DispKeepsTotal
  <2>3. CASE \E s \in Sessions : SessNext(s)
    BY <2>3, SessKeepsTotal
  <2> QED BY <2>1, <2>2, <2>3 DEF Next
<1>3. DropInv => DropTotalExact
  BY DEF DropInv
<1> QED BY <1>1, <1>2, <1>3, TypeInit, TypeStep, PTL DEF Spec

-----------------------------------------------------------------------------
(* Accounting of the sinks. *)

\* The number of frames waiting for the owner of slot i.
Waiting(i) == Len(msgq[i])

\* A step of the dispatcher keeps queued - dropped_oldest - waiting of each slot.
LEMMA DispKeepsBalance ==
    ASSUME TypeInv, DispNext, NEW i \in active
    PROVE  queued'[i] - dropped_oldest'[i] - Waiting(i)'
             = queued[i] - dropped_oldest[i] - Waiting(i)
<1> USE DEF TypeInv, TypeOK
<1>0. i \in Slots /\ queued[i] \in Nat /\ dropped_oldest[i] \in Nat
      /\ msgq[i] \in Seq(Nat) /\ Waiting(i) \in Nat /\ Waiting(i) <= SinkDepth
  BY DEF SinkTypes, Waiting
<1>1. CASE UNCHANGED <<msgq, queued, dropped_oldest>>
  BY <1>1 DEF Waiting
<1>2. CASE DispPut
  <2>1. slot \in Slots /\ frame \in Nat /\ dropped_oldest' = dropped_oldest
        /\ msgq' = [msgq EXCEPT ![slot] = PutNoWait(msgq[slot], frame, SinkDepth)]
    BY <1>2 DEF DispPut, SinkTypes, DispTypes
  <2>2. CASE HasRoom(msgq[slot], SinkDepth)
    <3>1. queued' = [queued EXCEPT ![slot] = @ + 1]
      BY <1>2, <2>2 DEF DispPut, CountQueued
    <3>2. CASE i = slot
      <4>1. Waiting(i)' = Waiting(i) + 1
        <5>1. msgq'[i] = PutNoWait(msgq[i], frame, SinkDepth)
          BY <2>1, <3>2 DEF SinkTypes
        <5>2. Len(msgq'[i]) = Len(msgq[i]) + 1
          BY <1>0, <2>1, <2>2, <3>2, <5>1, PutType DEF Waiting
        <5> QED BY <5>2 DEF Waiting
      <4>2. queued'[i] = queued[i] + 1
        BY <1>0, <3>1, <3>2 DEF SinkTypes
      <4>3. dropped_oldest'[i] = dropped_oldest[i]
        BY <2>1
      <4>4. \A q, d, w \in Nat : (q + 1) - d - (w + 1) = q - d - w
        OBVIOUS
      <4>5. (queued[i] + 1) - dropped_oldest[i] - (Waiting(i) + 1)
              = queued[i] - dropped_oldest[i] - Waiting(i)
        BY <1>0, <4>4
      <4> HIDE DEF TypeInv, TypeOK
      <4> QED BY <4>1, <4>2, <4>3, <4>5, Zenon
    <3>3. CASE i # slot
      BY <1>0, <2>1, <3>1, <3>3 DEF SinkTypes, Waiting
    <3> QED BY <3>2, <3>3
  <2>3. CASE ~HasRoom(msgq[slot], SinkDepth)
    <3>1. queued' = queued /\ msgq' = msgq
      BY <1>2, <2>1, <2>3 DEF DispPut, PutNoWait, SinkTypes
    <3> QED BY <2>1, <3>1 DEF Waiting
  <2> QED BY <2>2, <2>3
<1>3. CASE DispDrop
  <2>1. /\ msgq' = [msgq EXCEPT ![slot] = DropOldest(msgq[slot])]
        /\ dropped_oldest' = [dropped_oldest EXCEPT ![slot] = @ + 1]
        /\ queued' = queued
        /\ slot \in Slots /\ Len(msgq[slot]) = SinkDepth
    BY <1>3 DEF DispDrop, SinkTypes, PutStages
  <2>2. CASE i = slot
    <3>1. Waiting(i)' = Waiting(i) - 1
      <4>1. Len(msgq[slot]) > 0
        BY <2>1
      <4> QED BY <1>0, <2>1, <2>2, <4>1, DropType DEF SinkTypes, Waiting
    <3>2. dropped_oldest'[i] = dropped_oldest[i] + 1
      BY <1>0, <2>1, <2>2 DEF SinkTypes
    <3>3. queued'[i] = queued[i]
      BY <2>1
    <3> QED BY <1>0, <3>1, <3>2, <3>3
  <2>3. CASE i # slot
    BY <1>0, <2>1, <2>3 DEF SinkTypes, Waiting
  <2> QED BY <2>2, <2>3
<1>4. CASE DispReput
  <2>1. /\ msgq' = [msgq EXCEPT ![slot] = PutNoWait(msgq[slot], frame, SinkDepth)]
        /\ queued' = [queued EXCEPT ![slot] = @ + 1]
        /\ slot \in Slots /\ HasRoom(msgq[slot], SinkDepth) /\ frame \in Nat
    BY <1>4 DEF DispReput, CountQueued, SinkTypes, PutStages, DispTypes
  <2>2. dropped_oldest' = dropped_oldest
    BY <1>4, <2>1 DEF DispReput, SinkTypes
  <2>3. CASE i = slot
    <3>1. Waiting(i)' = Waiting(i) + 1
      BY <1>0, <2>1, <2>3, PutType DEF SinkTypes, Waiting
    <3>2. queued'[i] = queued[i] + 1
      BY <1>0, <2>1, <2>3 DEF SinkTypes
    <3>3. dropped_oldest'[i] = dropped_oldest[i]
      BY <2>2
    <3>4. \A q, d, w \in Nat : (q + 1) - d - (w + 1) = q - d - w
      OBVIOUS
    <3>5. (queued[i] + 1) - dropped_oldest[i] - (Waiting(i) + 1)
            = queued[i] - dropped_oldest[i] - Waiting(i)
      BY <1>0, <3>4
    <3> HIDE DEF TypeInv, TypeOK
    <3> QED BY <3>1, <3>2, <3>3, <3>5, Zenon
  <2>4. CASE i # slot
    BY <1>0, <2>1, <2>2, <2>4 DEF SinkTypes, Waiting
  <2> QED BY <2>3, <2>4
<1> QED BY <1>1, <1>2, <1>3, <1>4
        DEF DispNext, DispGet, DispLock, DispSkip, DispUnlock, sinkVars

\* The balance of every open sink holds in every step.
LEMMA SinkStep ==
    TypeInv /\ HandlesValid /\ SinkAccounted /\ [Next]_vars => SinkAccounted'
<1> SUFFICES ASSUME TypeInv, HandlesValid, SinkAccounted, [Next]_vars,
                    NEW i \in active'
             PROVE  (queued[i] = consumed[i] + dropped_oldest[i] + Len(msgq[i])
                        + (IF BetweenGetAndCount(i) THEN 1 ELSE 0))'
  BY DEF SinkAccounted
<1> USE DEF TypeInv, TypeOK
<1> DEFINE Hand == IF BetweenGetAndCount(i) THEN 1 ELSE 0
<1>0. i \in active =>
        /\ queued[i] \in Nat /\ consumed[i] \in Nat /\ dropped_oldest[i] \in Nat
        /\ msgq[i] \in Seq(Nat) /\ Waiting(i) \in Nat /\ i \in Slots
        /\ queued[i] = consumed[i] + dropped_oldest[i] + Waiting(i) + Hand
  BY DEF SinkTypes, SinkAccounted, Waiting
<1>1. CASE UartNext \/ UNCHANGED vars
  <2>1. UNCHANGED <<active, queued, consumed, dropped_oldest, msgq, sessPc, sinkId>>
    BY <1>1, UartFrame DEF vars, sinkVars, sessVars
  <2> QED BY <2>1, <1>0 DEF BetweenGetAndCount, Waiting
<1>2. CASE DispNext
  <2>1. UNCHANGED <<active, consumed, sessPc, sinkId>>
    BY <1>2, DispFrame DEF sessVars
  <2>2. Hand' = Hand
    BY <2>1 DEF BetweenGetAndCount
  <2>3. queued'[i] - dropped_oldest'[i] - Waiting(i)'
          = queued[i] - dropped_oldest[i] - Waiting(i)
    BY <1>2, <2>1, DispKeepsBalance
  <2>4. SinkTypes'
    BY <1>2, TypeDisp
  <2>5. queued'[i] \in Nat /\ dropped_oldest'[i] \in Nat /\ Waiting(i)' \in Nat
    BY <2>1, <2>4, <1>0 DEF SinkTypes, Waiting
  <2>6. Hand \in {0, 1}
    OBVIOUS
  <2> HIDE DEF Hand
  <2>7. queued'[i] = consumed'[i] + dropped_oldest'[i] + Waiting(i)' + Hand
    <3>1. /\ queued[i] \in Nat /\ consumed[i] \in Nat
          /\ dropped_oldest[i] \in Nat /\ Waiting(i) \in Nat
          /\ queued[i] = consumed[i] + dropped_oldest[i] + Waiting(i) + Hand
          /\ consumed'[i] = consumed[i]
      BY <1>0, <2>1
    <3> QED BY <2>3, <2>5, <2>6, <3>1
  <2> QED BY <2>2, <2>7 DEF Hand, Waiting
<1>3. ASSUME NEW s \in Sessions, SessNext(s)
      PROVE  queued'[i] = consumed'[i] + dropped_oldest'[i] + Waiting(i)' + Hand'
  <2> USE DEF SessTypes
  <2>1. CASE OpenSlot(s)
    <3>1. PICK k \in FreeSlots : /\ active' = active \cup {k}
                                 /\ msgq' = [msgq EXCEPT ![k] = <<>>]
                                 /\ queued' = [queued EXCEPT ![k] = 0]
                                 /\ consumed' = [consumed EXCEPT ![k] = 0]
                                 /\ dropped_oldest' = [dropped_oldest EXCEPT ![k] = 0]
                                 /\ sinkId' = [sinkId EXCEPT ![s] = k]
      BY <2>1 DEF OpenSlot, Purge
    <3>2. sessPc[s] = "opening" /\ sessPc' = [sessPc EXCEPT ![s] = "open"]
      BY <2>1 DEF OpenSlot
    <3>3. k \in Slots /\ k \notin active
      BY DEF FreeSlots
    <3>4. CASE i = k
      <4>1. ~BetweenGetAndCount(i)'
        BY <3>1, <3>2, <3>3, <3>4 DEF BetweenGetAndCount, HandlesValid, HoldsHandle
      <4>2. queued'[i] = 0 /\ consumed'[i] = 0 /\ dropped_oldest'[i] = 0
            /\ msgq'[i] = <<>>
        BY <3>1, <3>3, <3>4 DEF SinkTypes
      <4> QED BY <4>1, <4>2 DEF Waiting
    <3>5. CASE i # k
      <4>1. i \in active
        BY <3>1, <3>5
      <4>2. BetweenGetAndCount(i)' <=> BetweenGetAndCount(i)
        BY <3>1, <3>2, <3>5 DEF BetweenGetAndCount
      <4>3. queued'[i] = queued[i] /\ consumed'[i] = consumed[i]
            /\ dropped_oldest'[i] = dropped_oldest[i] /\ msgq'[i] = msgq[i]
        BY <1>0, <3>1, <3>5, <4>1 DEF SinkTypes
      <4> QED BY <1>0, <4>1, <4>2, <4>3 DEF Waiting
    <3> QED BY <3>4, <3>5
  <2>2. CASE CloseSlot(s)
    <3>1. i \in active /\ i # sinkId[s]
      BY <2>2 DEF CloseSlot
    <3>2. BetweenGetAndCount(i)' <=> BetweenGetAndCount(i)
      BY <2>2, <3>1 DEF CloseSlot, BetweenGetAndCount, HandlesValid, HoldsHandle
    <3>3. queued'[i] = queued[i] /\ consumed'[i] = consumed[i]
          /\ dropped_oldest'[i] = dropped_oldest[i] /\ msgq'[i] = msgq[i]
      BY <1>0, <2>2, <3>1 DEF CloseSlot, SinkTypes
    <3> QED BY <1>0, <3>1, <3>2, <3>3 DEF Waiting
  <2>3. CASE TakeGet(s)
    <3>1. i \in active /\ queued'[i] = queued[i] /\ consumed'[i] = consumed[i]
          /\ dropped_oldest'[i] = dropped_oldest[i]
      BY <2>3 DEF TakeGet
    <3>2. CASE i = sinkId[s]
      <4>1. Waiting(i)' = Waiting(i) - 1
        BY <1>0, <2>3, <3>1, <3>2 DEF TakeGet, SinkTypes, Waiting
      <4>2. BetweenGetAndCount(i)'
        BY <2>3, <3>2 DEF TakeGet, BetweenGetAndCount
      <4>3. ~BetweenGetAndCount(i)
        BY <2>3, <3>2 DEF TakeGet, BetweenGetAndCount, HandlesValid, HoldsHandle
      <4> QED BY <1>0, <3>1, <4>1, <4>2, <4>3
    <3>3. CASE i # sinkId[s]
      <4>1. msgq'[i] = msgq[i]
        BY <1>0, <2>3, <3>1, <3>3 DEF TakeGet, SinkTypes
      <4>2. BetweenGetAndCount(i)' <=> BetweenGetAndCount(i)
        BY <2>3, <3>3 DEF TakeGet, BetweenGetAndCount
      <4> QED BY <1>0, <3>1, <4>1, <4>2 DEF Waiting
    <3> QED BY <3>2, <3>3
  <2>4. CASE TakeCount(s)
    <3>1. i \in active /\ queued'[i] = queued[i] /\ Waiting(i)' = Waiting(i)
          /\ dropped_oldest'[i] = dropped_oldest[i]
      BY <2>4 DEF TakeCount, Waiting
    <3>2. CASE i = sinkId[s]
      <4>1. consumed'[i] = consumed[i] + 1
        BY <1>0, <2>4, <3>1, <3>2 DEF TakeCount, SinkTypes
      <4>2. BetweenGetAndCount(i)
        BY <2>4, <3>2 DEF TakeCount, BetweenGetAndCount
      <4>3. ~BetweenGetAndCount(i)'
        BY <2>4, <3>2 DEF TakeCount, BetweenGetAndCount, HandlesValid, HoldsHandle
      <4>4. Hand = 1 /\ Hand' = 0
        BY <4>2, <4>3
      <4> HIDE DEF Hand
      <4>5. /\ queued[i] \in Nat /\ consumed[i] \in Nat
            /\ dropped_oldest[i] \in Nat /\ Waiting(i) \in Nat
            /\ queued[i] = consumed[i] + dropped_oldest[i] + Waiting(i) + Hand
        BY <1>0, <3>1
      <4>6. (consumed[i] + 1) + dropped_oldest[i] + Waiting(i) = queued[i]
        BY <4>4, <4>5
      <4> QED BY <3>1, <4>1, <4>4, <4>5, <4>6
    <3>3. CASE i # sinkId[s]
      <4>1. consumed'[i] = consumed[i]
        BY <1>0, <2>4, <3>1, <3>3 DEF TakeCount, SinkTypes
      <4>2. BetweenGetAndCount(i)' <=> BetweenGetAndCount(i)
        BY <2>4, <3>3 DEF TakeCount, BetweenGetAndCount
      <4> QED BY <1>0, <3>1, <4>1, <4>2
    <3> QED BY <3>2, <3>3
  <2>5. CASE OpenFail(s) \/ TakeCheck(s) \/ OpenLock(s) \/ TakeLock(s)
             \/ CloseLock(s) \/ TakeTimeout(s)
    <3>1. UNCHANGED <<sinkVars, sinkId>> /\ sessPc[s] # "got" /\ sessPc'[s] # "got"
          /\ \A t \in Sessions \ {s} : sessPc'[t] = sessPc[t]
      BY <2>5 DEF OpenFail, TakeCheck, OpenLock, TakeLock, CloseLock, LockStep,
                  TakeTimeout
    <3>2. BetweenGetAndCount(i)' <=> BetweenGetAndCount(i)
      BY <3>1 DEF BetweenGetAndCount
    <3> QED BY <1>0, <3>1, <3>2 DEF sinkVars, Waiting
  <2> QED BY <1>3, <2>1, <2>2, <2>3, <2>4, <2>5 DEF SessNext, LockedStep
<1> QED BY <1>1, <1>2, <1>3 DEF Next, Waiting

\* The statistics of every open sink account for every frame the dispatcher
\* queued to it: read, dropped, waiting, or in the hands of the session.
THEOREM SinkAccounting == Spec => []SinkAccounted
<1>1. Init => SinkAccounted
  BY DEF Init, SinkAccounted
<1>2. Init => HandlesValid
  BY DEF Init, HandlesValid, HoldsHandle
<1> QED BY <1>1, <1>2, TypeInit, TypeStep, HandlesStep, SinkStep, PTL DEF Spec


-----------------------------------------------------------------------------
(* Queues of frames in order. *)

Within(q, lo, hi) == \A n \in 1 .. Len(q) : lo < q[n] /\ q[n] <= hi

\* A frame newer than all others may be appended.
LEMMA AppendInOrder ==
    ASSUME NEW q \in Seq(Nat), NEW f \in Nat, NEW lo \in Int,
           Increasing(q), Within(q, lo, f - 1), lo < f
    PROVE  Increasing(Append(q, f)) /\ Within(Append(q, f), lo, f)
<1>1. Len(Append(q, f)) = Len(q) + 1
  OBVIOUS
<1>2. \A n \in 1 .. Len(q) : Append(q, f)[n] = q[n] /\ q[n] \in Nat
  OBVIOUS
<1>3. Append(q, f)[Len(q) + 1] = f
  OBVIOUS
<1>4. \A n \in 1 .. Len(Append(q, f)) : n \in 1 .. Len(q) \/ n = Len(q) + 1
  BY <1>1
<1>5. \A n \in 1 .. Len(q) : lo < q[n] /\ q[n] < f
  BY <1>2 DEF Within
<1>6. \A n \in 1 .. Len(Append(q, f)) : lo < Append(q, f)[n] /\ Append(q, f)[n] <= f
  BY <1>2, <1>3, <1>4, <1>5
<1>7. \A m, n \in 1 .. Len(Append(q, f)) : m < n => Append(q, f)[m] < Append(q, f)[n]
  BY <1>2, <1>3, <1>4, <1>5 DEF Increasing
<1> QED BY <1>6, <1>7 DEF Within, Increasing

\* Taking the head of a queue leaves the newer frames, in order.
LEMMA TailInOrder ==
    ASSUME NEW q \in Seq(Nat), q # <<>>, NEW lo \in Int, NEW hi \in Int,
           Increasing(q), Within(q, lo, hi)
    PROVE  /\ Increasing(Tail(q)) /\ Within(Tail(q), lo, hi)
           /\ Within(Tail(q), Head(q), hi)
           /\ lo < Head(q) /\ Head(q) <= hi
<1>1. Len(q) \in Nat /\ Len(q) > 0 /\ Len(Tail(q)) = Len(q) - 1 /\ Head(q) = q[1]
  OBVIOUS
<1>2. \A n \in 1 .. Len(Tail(q)) : Tail(q)[n] = q[n + 1]
  OBVIOUS
<1>3. Within(Tail(q), lo, hi)
  BY <1>1, <1>2 DEF Within
<1>4. Increasing(Tail(q))
  BY <1>1, <1>2 DEF Increasing
<1>5. Within(Tail(q), Head(q), hi)
  BY <1>1, <1>2 DEF Increasing, Within
<1>6. lo < Head(q) /\ Head(q) <= hi
  BY <1>1 DEF Within
<1> QED BY <1>3, <1>4, <1>5, <1>6

\* The newest frame of a queue stays when an older one is taken.
LEMMA TailKeepsLast ==
    ASSUME NEW q \in Seq(Nat), q # <<>>, Len(q) # 1
    PROVE  Tail(q) # <<>> /\ Tail(q)[Len(Tail(q))] = q[Len(q)]
<1>0. Len(q) \in Nat /\ Len(q) > 0 /\ Len(Tail(q)) = Len(q) - 1
  OBVIOUS
<1>1. Len(q) > 1
  BY <1>0
<1>2. Len(q) - 1 \in 1 .. Len(Tail(q)) /\ (Len(q) - 1) + 1 = Len(q)
  BY <1>0, <1>1
<1>3. \A n \in 1 .. Len(Tail(q)) : Tail(q)[n] = q[n + 1]
  OBVIOUS
<1>4. Tail(q)[Len(q) - 1] = q[(Len(q) - 1) + 1]
  BY <1>2, <1>3
<1>5. Tail(q) # <<>>
  <2>1. Len(Tail(q)) # 0
    BY <1>0, <1>1
  <2>2. Len(<<>>) = 0
    OBVIOUS
  <2> QED BY <2>1, <2>2, Zenon
<1> QED BY <1>0, <1>2, <1>4, <1>5

\* A wider interval holds the same queue.
LEMMA WithinWider ==
    ASSUME NEW q \in Seq(Nat), NEW lo \in Int, NEW h1 \in Int, NEW h2 \in Int,
           Within(q, lo, h1), h1 <= h2
    PROVE  Within(q, lo, h2)
  BY DEF Within

-----------------------------------------------------------------------------
(* The ingest queue. *)

\* The newest frame that put_drop_oldest has put into the ingest queue
Put == IF uartPc = "idle" THEN frames_in ELSE frames_in - 1

\* The ingest queue holds frames in the order of their arrival, all newer than
\* the one the dispatcher took last.
IngestOrdered ==
    /\ Increasing(ingest)
    /\ Within(ingest, frame, Put)
    /\ frame <= Put
    /\ dispPc # "get" => frame > 0

\* The ingest queue stays in order: a put appends the newest frame, a drop and a get
\* take the oldest.
LEMMA IngestOrderStep ==
    TypeInv /\ IngestOrdered /\ [Next]_vars => IngestOrdered'
<1> SUFFICES ASSUME TypeInv, IngestOrdered, [Next]_vars PROVE IngestOrdered'
  OBVIOUS
<1> USE DEF TypeInv, TypeOK, UartTypes, DispTypes
<1>0. frame \in Nat /\ Put \in Int /\ ingest \in Seq(Nat)
  BY DEF Put
<1>1. CASE UNCHANGED <<uartPc, frames_in, ingest, frame>> /\ (dispPc' # "get" => dispPc # "get")
  BY <1>1 DEF IngestOrdered, Put
<1>2. CASE PublishFrame
  <2>1. uartPc = "idle" /\ frames_in' = frames_in + 1 /\ UNCHANGED <<frame, dispPc>>
    BY <1>2 DEF PublishFrame, dispVars
  <2>2. CASE HasRoom(ingest, IngestDepth)
    <3>1. uartPc' = "idle" /\ ingest' = Append(ingest, frames_in + 1)
      BY <1>2, <2>2 DEF PublishFrame, PutNoWait
    <3>2. Increasing(ingest') /\ Within(ingest', frame, frames_in + 1)
      BY <1>0, <2>1, <3>1, AppendInOrder DEF IngestOrdered, Put
    <3> QED BY <1>0, <2>1, <3>1, <3>2 DEF IngestOrdered, Put
  <2>3. CASE ~HasRoom(ingest, IngestDepth)
    BY <1>2, <2>1, <2>3 DEF PublishFrame, PutNoWait, IngestOrdered, Put
  <2> QED BY <2>2, <2>3
<1>3. CASE PublishDrop
  <2>1. ingest # <<>> /\ ingest' = Tail(ingest) /\ uartPc = "drop" /\ uartPc' = "reput"
        /\ UNCHANGED <<frame, dispPc, frames_in>>
    BY <1>3 DEF PublishDrop, DropOldest, GetNoWait, PutStages, dispVars
  <2>2. Increasing(ingest') /\ Within(ingest', frame, Put)
    BY <1>0, <2>1, TailInOrder DEF IngestOrdered
  <2> QED BY <2>1, <2>2 DEF IngestOrdered, Put
<1>4. CASE PublishReput
  <2>1. ingest' = Append(ingest, frames_in) /\ uartPc = "reput" /\ uartPc' = "idle"
        /\ UNCHANGED <<frame, dispPc, frames_in>>
    BY <1>4 DEF PublishReput, PutNoWait, PutStages, dispVars
  <2>2. Increasing(ingest') /\ Within(ingest', frame, frames_in)
    BY <1>0, <2>1, AppendInOrder DEF IngestOrdered, Put
  <2> QED BY <1>0, <2>1, <2>2 DEF IngestOrdered, Put
<1>5. CASE DispGet
  <2>1. ingest # <<>> /\ frame' = Head(ingest) /\ ingest' = Tail(ingest)
        /\ UNCHANGED <<uartPc, frames_in>>
    BY <1>5 DEF DispGet
  <2>2. /\ Increasing(ingest') /\ Within(ingest', frame', Put)
        /\ frame < frame' /\ frame' <= Put
    BY <1>0, <2>1, TailInOrder DEF IngestOrdered
  <2>3. frame' \in Nat /\ Put' = Put
    BY <1>0, <2>1 DEF Put
  <2> QED BY <1>0, <2>2, <2>3 DEF IngestOrdered
<1>6. ASSUME NEW s \in Sessions, SessNext(s) PROVE UNCHANGED <<uartVars, dispVars>>
  BY <1>6, SessFrame
<1>7. PublishReject \/ UNCHANGED <<uartVars, dispVars>> \/ UNCHANGED vars
        => UNCHANGED <<uartPc, frames_in, ingest, frame, dispPc>>
  BY DEF PublishReject, uartVars, dispVars, vars
<1>8. DispLock \/ DispSkip \/ DispPut \/ DispDrop \/ DispReput \/ DispUnlock
        => UNCHANGED <<uartPc, frames_in, ingest, frame>> /\ (dispPc' # "get" => dispPc # "get")
  BY DEF DispLock, DispSkip, DispPut, DispDrop, DispReput, DispUnlock, uartVars
<1> QED BY <1>1, <1>2, <1>3, <1>4, <1>5, <1>6, <1>7, <1>8 DEF Next, UartNext, DispNext

-----------------------------------------------------------------------------
(* The sinks. *)

\* The newest frame that slot i can have been given
Top(i) == IF Served(i) THEN frame ELSE frame - 1

OrderedSink(i) ==
    /\ Increasing(msgq[i])
    /\ Within(msgq[i], lastTaken[i], Top(i))
    /\ Within(msgq[i], openedAfter[i], Top(i))
    /\ lastTaken[i] <= Top(i)
    /\ openedAfter[i] <= Top(i)

NewestIn(i) ==
    Served(i) /\ openedAfter[i] < frame =>
        \/ msgq[i] # <<>> /\ msgq[i][Len(msgq[i])] = frame
        \/ msgq[i] = <<>> /\ lastTaken[i] = frame

\* What the types say of an open sink.
LEMMA SinkFacts ==
    ASSUME TypeInv, NEW i \in active
    PROVE  /\ i \in Slots /\ i \in 0 .. MaxSinks - 1
           /\ msgq[i] \in Seq(Nat) /\ lastTaken[i] \in Nat /\ openedAfter[i] \in Int
           /\ frame \in Nat /\ Top(i) \in Int
  BY DEF TypeInv, TypeOK, SinkTypes, DispTypes, Top, Slots

\* SinkOrdered, sink by sink.
LEMMA OrderedSinks == TypeInv => (SinkOrdered <=> \A i \in active : OrderedSink(i))
<1> SUFFICES ASSUME TypeInv, NEW i \in active
             PROVE  OrderedSink(i) <=>
        /\ Increasing(msgq[i])
        /\ \A n \in 1 .. Len(msgq[i]) :
              /\ lastTaken[i] < msgq[i][n]
              /\ openedAfter[i] < msgq[i][n]
              /\ IF Served(i) THEN msgq[i][n] <= frame ELSE msgq[i][n] < frame
        /\ IF Served(i) THEN lastTaken[i] <= frame /\ openedAfter[i] <= frame
                        ELSE lastTaken[i] < frame /\ openedAfter[i] < frame
  BY DEF SinkOrdered
<1>1. CASE Served(i)
  BY <1>1, SinkFacts DEF OrderedSink, Top, Within
<1>2. CASE ~Served(i)
  <2>1. /\ frame \in Nat /\ lastTaken[i] \in Nat /\ openedAfter[i] \in Int
        /\ \A n \in 1 .. Len(msgq[i]) : msgq[i][n] \in Nat
    BY SinkFacts
  <2>2. \A x \in Int : x <= frame - 1 <=> x < frame
    BY <2>1
  <2>3. \A n \in 1 .. Len(msgq[i]) : msgq[i][n] <= frame - 1 <=> msgq[i][n] < frame
    BY <2>1, <2>2
  <2> QED BY <1>2, <2>1, <2>2, <2>3 DEF OrderedSink, Top, Within
<1> QED BY <1>1, <1>2

\* A sink whose queue and history stay, while the frame it may have does not shrink.
LEMMA SinkKept ==
    ASSUME TypeInv, TypeInv', NEW i \in active, i \in active',
           OrderedSink(i), NewestIn(i),
           UNCHANGED <<msgq[i], lastTaken[i], openedAfter[i]>>,
           \/ frame' = frame /\ (Served(i)' <=> Served(i))
           \/ frame < frame' /\ ~Served(i)'
    PROVE  OrderedSink(i)' /\ NewestIn(i)'
<1>1. /\ msgq[i] \in Seq(Nat) /\ lastTaken[i] \in Nat /\ openedAfter[i] \in Int
      /\ Top(i) \in Int /\ frame \in Nat /\ frame' \in Nat
  BY SinkFacts DEF TypeInv, TypeOK, DispTypes
<1>2. Top(i)' \in Int /\ Top(i) <= Top(i)'
  BY <1>1 DEF Top
<1>3. Within(msgq[i], lastTaken[i], Top(i)') /\ Within(msgq[i], openedAfter[i], Top(i)')
  BY <1>1, <1>2, WithinWider DEF OrderedSink
<1>4. lastTaken[i] <= Top(i)' /\ openedAfter[i] <= Top(i)'
  BY <1>1, <1>2 DEF OrderedSink
<1>5. OrderedSink(i)'
  BY <1>3, <1>4 DEF OrderedSink
<1>6. NewestIn(i)'
  BY DEF NewestIn
<1> QED BY <1>5, <1>6

\* The dispatcher appends its frame to the sink that is next.
LEMMA SinkAppended ==
    ASSUME TypeInv, NEW i \in active, OrderedSink(i),
           ~Served(i), Served(i)', frame' = frame,
           msgq'[i] = Append(msgq[i], frame),
           UNCHANGED <<lastTaken[i], openedAfter[i]>>
    PROVE  OrderedSink(i)' /\ NewestIn(i)'
<1>1. /\ msgq[i] \in Seq(Nat) /\ lastTaken[i] \in Nat /\ openedAfter[i] \in Int
      /\ frame \in Nat
  BY SinkFacts
<1>2. Top(i) = frame - 1 /\ Top(i)' = frame
  BY DEF Top
<1>3. lastTaken[i] < frame /\ openedAfter[i] < frame
  BY <1>1, <1>2 DEF OrderedSink
<1>4. Increasing(msgq'[i]) /\ Within(msgq'[i], lastTaken[i], frame)
  BY <1>1, <1>2, <1>3, AppendInOrder DEF OrderedSink
<1>5. Within(msgq'[i], openedAfter[i], frame)
  BY <1>1, <1>2, <1>3, AppendInOrder DEF OrderedSink
<1>6. OrderedSink(i)'
  BY <1>1, <1>2, <1>3, <1>4, <1>5 DEF OrderedSink
<1>7. msgq'[i] # <<>> /\ msgq'[i][Len(msgq'[i])] = frame
  BY <1>1
<1>8. NewestIn(i)'
  BY <1>7 DEF NewestIn
<1> QED BY <1>6, <1>8

\* Going on to the next slot serves the one slot that was at turn.
LEMMA NextSlot ==
    ASSUME NEW i \in Int, slot \in Int, i # slot, slot' = slot + 1, dispPc' = "slot",
           dispPc \in {"slot", "reput"}
    PROVE  Served(i)' <=> Served(i)
<1>1. i < slot + 1 <=> i < slot
  OBVIOUS
<1> QED BY <1>1 DEF Served

OrderInv == SinkOrdered /\ NewestKept

\* The dispatcher keeps every sink in order and gives each the frame in hand before
\* it moves on.
LEMMA DispOrder ==
    ASSUME TypeInv, IngestOrdered, TypeInv', OrderInv, DispNext
    PROVE  OrderInv'
<1> USE DEF TypeInv, TypeOK, DispTypes, SinkTypes
<1>1. UNCHANGED <<active, lastTaken, openedAfter>>
  BY DispFrame
<1>0. (SinkOrdered <=> \A i \in active : OrderedSink(i))'
  BY OrderedSinks, PTL
<1> SUFFICES ASSUME NEW i \in active PROVE OrderedSink(i)' /\ NewestIn(i)'
  BY <1>0, <1>1 DEF OrderInv, NewestKept, NewestIn
<1>2. OrderedSink(i) /\ NewestIn(i)
  BY OrderedSinks DEF OrderInv, NewestKept, NewestIn
<1>3. i \in Slots /\ i \in 0 .. MaxSinks - 1 /\ i \in active' /\ slot \in 0 .. MaxSinks
  BY <1>1, SinkFacts
<1>4. CASE DispGet
  <2>1. ingest \in Seq(Nat) /\ ingest # <<>> /\ frame' = Head(ingest) /\ dispPc' = "lock"
        /\ msgq' = msgq
    BY <1>4 DEF DispGet, UartTypes, sinkVars
  <2>2. frame < frame'
    <3>1. Put \in Int /\ frame \in Int /\ Increasing(ingest) /\ Within(ingest, frame, Put)
      BY DEF Put, UartTypes, IngestOrdered
    <3> QED BY <2>1, <3>1, TailInOrder
  <2>3. ~Served(i)'
    BY <2>1 DEF Served
  <2> QED BY <1>1, <1>2, <1>3, <2>1, <2>2, <2>3, SinkKept
<1>5. CASE DispLock
  <2>1. frame' = frame /\ msgq' = msgq /\ dispPc = "lock" /\ dispPc' = "slot" /\ slot' = 0
    BY <1>5 DEF DispLock, sinkVars
  <2>2. (Served(i)' <=> Served(i))
    BY <1>3, <2>1 DEF Served
  <2> QED BY <1>1, <1>2, <1>3, <2>1, <2>2, SinkKept
<1>6. CASE DispSkip
  <2>1. frame' = frame /\ msgq' = msgq /\ dispPc = "slot" /\ dispPc' = "slot"
        /\ slot' = slot + 1 /\ i # slot
    BY <1>6 DEF DispSkip, sinkVars
  <2>2. (Served(i)' <=> Served(i))
    BY <1>3, <2>1, NextSlot
  <2> QED BY <1>1, <1>2, <1>3, <2>1, <2>2, SinkKept
<1>7. CASE DispPut
  <2>1. frame' = frame /\ dispPc = "slot" /\ slot \in active
        /\ msgq' = [msgq EXCEPT ![slot] = PutNoWait(msgq[slot], frame, SinkDepth)]
    BY <1>7 DEF DispPut
  <2>2. CASE HasRoom(msgq[slot], SinkDepth)
    <3>1. dispPc' = "slot" /\ slot' = slot + 1
      BY <1>7, <2>2 DEF DispPut, CountQueued
    <3>2. CASE i = slot
      <4>1. msgq'[i] = Append(msgq[i], frame)
        BY <1>3, <2>1, <2>2, <3>2 DEF PutNoWait
      <4>2. ~Served(i) /\ Served(i)'
        BY <1>3, <2>1, <3>1, <3>2 DEF Served
      <4> QED BY <1>1, <1>2, <2>1, <4>1, <4>2, SinkAppended
    <3>3. CASE i # slot
      <4>1. msgq'[i] = msgq[i]
        BY <1>3, <2>1, <3>3
      <4>2. Served(i)' <=> Served(i)
        BY <1>3, <2>1, <3>1, <3>3, NextSlot
      <4> QED BY <1>1, <1>2, <1>3, <2>1, <4>1, <4>2, SinkKept
    <3> QED BY <3>2, <3>3
  <2>3. CASE ~HasRoom(msgq[slot], SinkDepth)
    <3>1. dispPc' = "drop" /\ slot' = slot /\ msgq' = msgq
      BY <1>7, <2>1, <2>3 DEF DispPut, PutNoWait
    <3>2. (Served(i)' <=> Served(i))
      BY <2>1, <3>1 DEF Served
    <3> QED BY <1>1, <1>2, <1>3, <2>1, <3>1, <3>2, SinkKept
  <2> QED BY <2>2, <2>3
<1>8. CASE DispDrop
  <2>1. frame' = frame /\ dispPc = "drop" /\ dispPc' = "reput" /\ slot' = slot
        /\ msgq' = [msgq EXCEPT ![slot] = DropOldest(msgq[slot])]
    BY <1>8 DEF DispDrop
  <2>2. (Served(i)' <=> Served(i)) /\ (i = slot => ~Served(i))
    BY <1>3, <2>1 DEF Served
  <2>3. CASE i # slot
    <3>1. msgq'[i] = msgq[i]
      BY <1>3, <2>1, <2>3
    <3> QED BY <1>1, <1>2, <1>3, <2>1, <2>2, <3>1, SinkKept
  <2>4. CASE i = slot
    <3>1. msgq[i] \in Seq(Nat) /\ msgq[i] # <<>> /\ msgq'[i] = Tail(msgq[i])
      BY <1>3, <2>1, <2>4 DEF DropOldest, GetNoWait, PutStages
    <3>2. Top(i)' = Top(i) /\ Top(i) \in Int /\ lastTaken[i] \in Int /\ openedAfter[i] \in Int
      BY <2>1, <2>2, SinkFacts DEF Top
    <3>3. /\ Increasing(msgq[i]) /\ Within(msgq[i], lastTaken[i], Top(i))
          /\ Within(msgq[i], openedAfter[i], Top(i))
      BY <1>2 DEF OrderedSink
    <3> HIDE DEF TypeInv, TypeOK, DispTypes, SinkTypes
    <3>a. Increasing(msgq'[i]) /\ Within(msgq'[i], lastTaken[i], Top(i))
      BY <3>1, <3>2, <3>3, TailInOrder
    <3>b. Within(msgq'[i], openedAfter[i], Top(i))
      BY <3>1, <3>2, <3>3, TailInOrder
    <3>4. OrderedSink(i)'
      BY <1>1, <1>2, <3>2, <3>a, <3>b DEF OrderedSink
    <3>5. NewestIn(i)'
      BY <2>2, <2>4 DEF NewestIn
    <3> QED BY <3>4, <3>5
  <2> QED BY <2>3, <2>4
<1>9. CASE DispReput
  <2>1. frame' = frame /\ dispPc = "reput" /\ dispPc' = "slot" /\ slot' = slot + 1
        /\ msgq' = [msgq EXCEPT ![slot] = PutNoWait(msgq[slot], frame, SinkDepth)]
        /\ HasRoom(msgq[slot], SinkDepth)
    BY <1>9 DEF DispReput, CountQueued, PutStages
  <2>2. CASE i = slot
    <3>1. msgq'[i] = Append(msgq[i], frame)
      BY <1>3, <2>1, <2>2 DEF PutNoWait
    <3>2. ~Served(i) /\ Served(i)'
      BY <1>3, <2>1, <2>2 DEF Served
    <3> QED BY <1>1, <1>2, <2>1, <3>1, <3>2, SinkAppended
  <2>3. CASE i # slot
    <3>1. msgq'[i] = msgq[i]
      BY <1>3, <2>1, <2>3
    <3>2. Served(i)' <=> Served(i)
      BY <1>3, <2>1, <2>3, NextSlot
    <3> QED BY <1>1, <1>2, <1>3, <2>1, <3>1, <3>2, SinkKept
  <2> QED BY <2>2, <2>3
<1>10. CASE DispUnlock
  <2>1. frame' = frame /\ msgq' = msgq /\ dispPc = "slot" /\ dispPc' = "get" /\ slot = MaxSinks
    BY <1>10 DEF DispUnlock, sinkVars
  <2>2. (Served(i)' <=> Served(i))
    BY <1>3, <2>1 DEF Served
  <2> QED BY <1>1, <1>2, <1>3, <2>1, <2>2, SinkKept
<1> QED BY <1>4, <1>5, <1>6, <1>7, <1>8, <1>9, <1>10 DEF DispNext

\* A session opens a sink empty, reads its oldest frame, or leaves it alone.
LEMMA SessOrder ==
    ASSUME TypeInv, TypeInv', IngestOrdered, HandlesValid, OrderInv,
           NEW s \in Sessions, SessNext(s)
    PROVE  OrderInv'
<1>0. (SinkOrdered <=> \A i \in active : OrderedSink(i))'
  BY OrderedSinks, PTL
<1>1. UNCHANGED <<frame, dispPc, slot>> /\ dispPc \in {"get", "lock"} /\ frame \in Nat
  BY SessFrame DEF TypeInv, TypeOK, DispTypes, dispVars
<1>2. \A i : Served(i)' <=> Served(i)
  BY <1>1 DEF Served
<1> SUFFICES ASSUME NEW i \in active' PROVE OrderedSink(i)' /\ NewestIn(i)'
  BY <1>0 DEF OrderInv, NewestKept, NewestIn
<1>3. i \in active => OrderedSink(i) /\ NewestIn(i)
  BY OrderedSinks DEF OrderInv, NewestKept, NewestIn
<1>4. ASSUME i \in active, UNCHANGED <<msgq[i], lastTaken[i], openedAfter[i]>>
      PROVE  OrderedSink(i)' /\ NewestIn(i)'
  BY <1>1, <1>2, <1>3, <1>4, SinkKept
<1>5. msgq \in [Slots -> Seq(Nat)] /\ lastTaken \in [Slots -> Nat]
      /\ openedAfter \in [Slots -> Int] /\ active \subseteq Slots
  BY DEF TypeInv, TypeOK, SinkTypes
<1>6. CASE OpenSlot(s)
  <2>1. PICK k \in FreeSlots :
          /\ active' = active \cup {k}
          /\ msgq' = [msgq EXCEPT ![k] = <<>>]
          /\ lastTaken' = [lastTaken EXCEPT ![k] = 0]
          /\ openedAfter' = [openedAfter EXCEPT ![k] =
                                IF dispPc = "get" THEN frame ELSE frame - 1]
    BY <1>6 DEF OpenSlot, Purge
  <2>2. k \in Slots
    BY DEF FreeSlots
  <2>3. CASE i = k
    <3>1. msgq'[i] = <<>> /\ lastTaken'[i] = 0
          /\ openedAfter'[i] = IF dispPc = "get" THEN frame ELSE frame - 1
      BY <1>5, <2>1, <2>2, <2>3
    <3>2. Top(i)' = IF dispPc = "get" THEN frame ELSE frame - 1
      BY <1>1 DEF Top, Served
    <3>3. lastTaken'[i] <= Top(i)'
      BY <1>1, <3>1, <3>2 DEF IngestOrdered
    <3>4. openedAfter'[i] <= Top(i)'
      BY <1>1, <3>1, <3>2
    <3>5. OrderedSink(i)'
      BY <3>1, <3>3, <3>4 DEF OrderedSink, Increasing, Within
    <3>6. NewestIn(i)'
      BY <1>1, <3>1 DEF NewestIn, Served
    <3> QED BY <3>5, <3>6
  <2>4. CASE i # k
    <3>1. i \in active /\ UNCHANGED <<msgq[i], lastTaken[i], openedAfter[i]>>
      BY <1>5, <2>1, <2>4
    <3> QED BY <1>4, <3>1
  <2> QED BY <2>3, <2>4
<1>7. CASE CloseSlot(s)
  <2>1. i \in active /\ i # sinkId[s] /\ UNCHANGED <<lastTaken, openedAfter>>
        /\ msgq' = [msgq EXCEPT ![sinkId[s]] = <<>>]
    BY <1>7 DEF CloseSlot, Purge
  <2>2. UNCHANGED <<msgq[i], lastTaken[i], openedAfter[i]>>
    BY <1>5, <2>1
  <2> QED BY <1>4, <2>1, <2>2
<1>8. CASE TakeGet(s)
  <2> DEFINE k == sinkId[s]
  <2>1. /\ k \in active /\ i \in active /\ UNCHANGED openedAfter
        /\ msgq[k] # <<>>
        /\ lastTaken' = [lastTaken EXCEPT ![k] = Head(msgq[k])]
        /\ msgq' = [msgq EXCEPT ![k] = Tail(msgq[k])]
    BY <1>8 DEF TakeGet, HandlesValid, HoldsHandle
  <2>2. CASE i = k
    <3>1. msgq[i] \in Seq(Nat) /\ msgq[i] # <<>> /\ msgq'[i] = Tail(msgq[i])
          /\ lastTaken'[i] = Head(msgq[i]) /\ openedAfter'[i] = openedAfter[i]
      BY <1>5, <2>1, <2>2
    <3>2. Top(i)' = Top(i) /\ Top(i) \in Int /\ lastTaken[i] \in Int /\ openedAfter[i] \in Int
      BY <1>1, <1>2, <2>1, SinkFacts DEF Top
    <3>3. /\ Increasing(msgq[i]) /\ Within(msgq[i], lastTaken[i], Top(i))
          /\ Within(msgq[i], openedAfter[i], Top(i)) /\ openedAfter[i] <= Top(i)
      BY <1>3, <2>1 DEF OrderedSink
    <3>4. /\ Increasing(msgq'[i]) /\ Within(msgq'[i], lastTaken'[i], Top(i))
          /\ lastTaken'[i] <= Top(i)
      BY <3>1, <3>2, <3>3, TailInOrder
    <3>5. Within(msgq'[i], openedAfter[i], Top(i))
      BY <3>1, <3>2, <3>3, TailInOrder
    <3>6. OrderedSink(i)'
      BY <3>1, <3>2, <3>3, <3>4, <3>5 DEF OrderedSink
    <3>7. NewestIn(i)'
      <4> SUFFICES ASSUME Served(i), openedAfter[i] < frame
                   PROVE  \/ msgq'[i] # <<>> /\ msgq'[i][Len(msgq'[i])] = frame
                          \/ msgq'[i] = <<>> /\ lastTaken'[i] = frame
        BY <1>1, <1>2, <3>1 DEF NewestIn
      <4>1. msgq[i][Len(msgq[i])] = frame
        BY <1>3, <2>1, <3>1 DEF NewestIn
      <4>2. CASE Len(msgq[i]) = 1
        BY <3>1, <4>1, <4>2
      <4>3. CASE Len(msgq[i]) # 1
        BY <3>1, <4>1, <4>3, TailKeepsLast
      <4> QED BY <4>2, <4>3
    <3> QED BY <3>6, <3>7
  <2>3. CASE i # k
    <3>1. UNCHANGED <<msgq[i], lastTaken[i], openedAfter[i]>>
      BY <1>5, <2>1, <2>3
    <3> QED BY <1>4, <2>1, <3>1
  <2> QED BY <2>2, <2>3
<1>9. CASE UNCHANGED <<active, msgq, lastTaken, openedAfter>>
  BY <1>4, <1>9
<1> QED
  BY <1>6, <1>7, <1>8, <1>9
  DEF SessNext, LockedStep, OpenFail, TakeCheck, OpenLock, TakeLock, CloseLock,
      LockStep, TakeTimeout, TakeCount, sinkVars

DeliveryInv == TypeInv /\ IngestOrdered /\ HandlesValid /\ OrderInv

\* The invariant is inductive: the order of a sink needs the order of the ingest
\* queue, from which the frame in hand comes, and valid handles, through which a
\* session empties its own queue only.
LEMMA DeliveryStep == DeliveryInv /\ [Next]_vars => DeliveryInv'
<1> SUFFICES ASSUME DeliveryInv, [Next]_vars PROVE DeliveryInv'
  OBVIOUS
<1>1. TypeInv' /\ IngestOrdered' /\ HandlesValid'
  BY TypeStep, IngestOrderStep, HandlesStep DEF DeliveryInv
<1>2. CASE UartNext \/ UNCHANGED vars
  <2>1. UNCHANGED <<active, msgq, lastTaken, openedAfter, frame, dispPc, slot>>
    BY <1>2, UartFrame DEF vars, dispVars, sinkVars
  <2>2. \A i : Served(i)' <=> Served(i)
    BY <2>1 DEF Served
  <2>3. SinkOrdered'
    BY <2>1, <2>2 DEF DeliveryInv, OrderInv, SinkOrdered
  <2>4. NewestKept'
    BY <2>1, <2>2 DEF DeliveryInv, OrderInv, NewestKept
  <2> QED BY <1>1, <2>3, <2>4 DEF DeliveryInv, OrderInv
<1>3. CASE DispNext
  BY <1>1, <1>3, DispOrder DEF DeliveryInv
<1>4. ASSUME NEW s \in Sessions, SessNext(s) PROVE OrderInv'
  BY <1>1, <1>4, SessOrder DEF DeliveryInv
<1> QED BY <1>1, <1>2, <1>3, <1>4 DEF Next, DeliveryInv

\* Types, order of the ingest queue, valid handles and order of the sinks hold in
\* every reachable state.
THEOREM DeliveryInvariant == Spec => []DeliveryInv
<1>1. Init => IngestOrdered
  BY DEF Init, IngestOrdered, Increasing, Within, Put
<1>2. Init => HandlesValid
  BY DEF Init, HandlesValid, HoldsHandle
<1>3. Init => OrderInv
  BY DEF Init, OrderInv, SinkOrdered, NewestKept
<1>4. Init => DeliveryInv
  BY <1>1, <1>2, <1>3, TypeInit DEF DeliveryInv
<1> QED BY <1>4, DeliveryStep, PTL DEF Spec

\* Every sink holds frames in the order of their arrival and newer than what its
\* session has taken and than the frame in hand when it was opened, however
\* put_drop_oldest, the dispatcher and the sessions are interleaved.
THEOREM FramesStayInOrder == Spec => []SinkOrdered
<1>1. DeliveryInv => SinkOrdered
  BY DEF DeliveryInv, OrderInv
<1> QED BY <1>1, DeliveryInvariant, PTL

\* A full sink loses its oldest frames only: once the dispatcher has served a sink,
\* the newest frame is in its queue, or was the last its session took.
THEOREM NewestFrameKept == Spec => []NewestKept
<1>1. DeliveryInv => NewestKept
  BY DEF DeliveryInv, OrderInv
<1> QED BY <1>1, DeliveryInvariant, PTL

-----------------------------------------------------------------------------
(* The frame path implements FrameBroadcast. *)

QueueOf(t) == IF t \in Subscribed THEN Delivered(sinkId[t]) ELSE <<>>

\* The backlog, at each stage of put_drop_oldest.
LEMMA BacklogStages ==
    /\ uartPc = "idle" => Backlog = ingest
    /\ uartPc = "drop" => Backlog = Append(Tail(ingest), frames_in)
    /\ uartPc = "reput" => Backlog = Append(ingest, frames_in)
  BY DEF Backlog

\* A step that leaves the mapped variables alone is a stutter of the broadcast.
LEMMA StutterStep ==
    ASSUME UNCHANGED <<frames_in, Backlog, InHand, Subscribed>>,
           \A t \in Sessions : QueueOf(t)' = QueueOf(t)
    PROVE  UNCHANGED Broadcast!bvars
<1>1. Queue' = Queue
  BY DEF Queue, QueueOf
<1> QED BY <1>1 DEF Broadcast!bvars

\* While a slot is free, fewer than MaxSinks sessions hold a handle: their handles
\* are different open slots.
LEMMA HandleFitsSlot ==
    ASSUME DeliveryInv, NEW k \in Slots \ active
    PROVE  Cardinality(Subscribed) < MaxSinks
<1> DEFINE f == [s \in Subscribed |-> sinkId[s]]
<1>1. f \in Injection(Subscribed, active)
  BY DEF DeliveryInv, HandlesValid, Subscribed, Injection, IsInjective
<1>2. active \subseteq Slots /\ active # Slots
  BY DEF DeliveryInv, TypeInv, TypeOK, SinkTypes
<1>3. IsFiniteSet(active) /\ Cardinality(active) <= MaxSinks /\ Cardinality(active) # MaxSinks
  BY <1>2, SlotsCount, FS_Subset
<1> HIDE DEF f
<1>4. IsFiniteSet(Subscribed) /\ Cardinality(Subscribed) <= Cardinality(active)
  BY <1>1, <1>3, FS_Injection
<1>5. Cardinality(active) \in Nat /\ Cardinality(Subscribed) \in Nat
  BY <1>3, <1>4, FS_CardinalityType
<1> QED BY <1>3, <1>4, <1>5

\* Opening a sink passes the broadcast's own bound on its subscribers.
LEMMA SubscribeTest ==
    ASSUME DeliveryInv, NEW k \in Slots \ active, NEW s \in Sessions, s \notin Subscribed,
           Subscribed' = Subscribed \cup {s}, UNCHANGED <<frames_in, Backlog, InHand, Queue>>
    PROVE  Broadcast!Subscribe(s)
<1>1. Cardinality(Subscribed) < MaxSinks
  BY HandleFitsSlot
<1>2. Broadcast!Cardinality(Subscribed) = Cardinality(Subscribed)
  BY DEF Broadcast!Cardinality, Cardinality
<1> QED BY <1>1, <1>2 DEF Broadcast!Subscribe

\* The UART thread: the first put of put_drop_oldest is Accept, the rest stutters.
LEMMA UartImplements ==
    ASSUME DeliveryInv, UartNext
    PROVE  [Broadcast!BNext]_(Broadcast!bvars)
<1> USE DEF DeliveryInv, TypeInv, TypeOK, UartTypes
<1>1. UNCHANGED <<dispPc, frame, slot, msgq, sessPc, sinkId>>
  BY UartFrame DEF dispVars, sinkVars, sessVars
<1>2. UNCHANGED <<InHand, Subscribed, Queue>> /\ \A t \in Sessions : QueueOf(t)' = QueueOf(t)
  BY <1>1 DEF InHand, Subscribed, HoldsHandle, Queue, QueueOf, Delivered, Displaced
<1>3. CASE PublishReject
  BY <1>2, <1>3, StutterStep DEF PublishReject, Backlog
<1>4. CASE PublishFrame
  <2>1. uartPc = "idle" /\ frames_in' = frames_in + 1 /\ Backlog = ingest
    BY <1>4 DEF PublishFrame, Backlog
  <2>2. Backlog' = Broadcast!KeepNewest(Backlog, frames_in', IngestDepth)
    <3>1. CASE Len(ingest) < IngestDepth
      <4>1. uartPc' = "idle" /\ ingest' = Append(ingest, frames_in')
        BY <1>4, <3>1 DEF PublishFrame, PutNoWait, HasRoom
      <4>2. Backlog' = ingest'
        BY <4>1 DEF Backlog
      <4> QED BY <2>1, <3>1, <4>1, <4>2 DEF Broadcast!KeepNewest
    <3>2. CASE ~(Len(ingest) < IngestDepth)
      <4>1. uartPc' = "drop" /\ ingest' = ingest
        BY <1>4, <3>2 DEF PublishFrame, PutNoWait, HasRoom
      <4>2. Backlog' = Append(Tail(ingest'), frames_in')
        BY <4>1 DEF Backlog
      <4> QED BY <2>1, <3>2, <4>1, <4>2 DEF Broadcast!KeepNewest
    <3> QED BY <3>1, <3>2
  <2>3. Broadcast!Accept
    BY <1>2, <2>1, <2>2 DEF Broadcast!Accept
  <2> QED BY <2>3 DEF Broadcast!BNext
<1>5. CASE PublishDrop
  <2>1. uartPc = "drop" /\ uartPc' = "reput" /\ frames_in' = frames_in /\ ingest' = Tail(ingest)
    BY <1>5 DEF PublishDrop, DropOldest, GetNoWait, PutStages
  <2>2. Backlog = Append(Tail(ingest), frames_in) /\ Backlog' = Append(ingest', frames_in')
    BY <2>1 DEF Backlog
  <2> QED BY <1>2, <2>1, <2>2, StutterStep
<1>6. CASE PublishReput
  <2>1. uartPc = "reput" /\ uartPc' = "idle" /\ frames_in' = frames_in
        /\ ingest' = Append(ingest, frames_in)
    BY <1>6 DEF PublishReput, PutNoWait, PutStages
  <2>2. Backlog = Append(ingest, frames_in) /\ Backlog' = ingest'
    BY <2>1 DEF Backlog
  <2> QED BY <1>2, <2>1, <2>2, StutterStep
<1> QED BY <1>3, <1>4, <1>5, <1>6 DEF UartNext

\* A slot the dispatcher leaves alone keeps what it holds at the end of the round.
LEMMA DeliveredKept ==
    ASSUME NEW i \in Slots, msgq'[i] = msgq[i], frame' = frame, slot \in Int,
           dispPc \in {"slot", "drop", "reput"}, dispPc' \in {"slot", "drop", "reput"},
           slot' = slot \/ (slot' = slot + 1 /\ i # slot)
    PROVE  Delivered(i)' = Delivered(i)
<1>1. i \in Int
  BY DEF Slots
<1>2. slot' <= i <=> slot <= i
  BY <1>1
<1> QED BY <1>2 DEF Delivered, Displaced

\* The dispatcher: getting a frame is Take, locking the sinks is Deliver.  Serving
\* the slots one by one stutters, since nobody can look before the lock is free.
LEMMA DispImplements ==
    ASSUME DeliveryInv, DispNext
    PROVE  [Broadcast!BNext]_(Broadcast!bvars)
<1>1. /\ UNCHANGED <<uartPc, frames_in, active, sessPc, sinkId>> /\ uartPc = "idle"
      /\ slot \in 0 .. MaxSinks /\ frame \in Nat
  BY DispFrame DEF sessVars, DeliveryInv, TypeInv, TypeOK, DispTypes
<1>2. Subscribed' = Subscribed /\ Backlog = ingest /\ Backlog' = ingest'
  BY <1>1 DEF Subscribed, HoldsHandle, Backlog
<1>3. \A t \in Subscribed : t \in Sessions /\ sinkId[t] \in active /\ sinkId[t] \in Slots
  BY DEF Subscribed, DeliveryInv, HandlesValid, TypeInv, TypeOK, SinkTypes
<1>4. ASSUME UNCHANGED ingest, InHand' = InHand, \A i \in active : Delivered(i)' = Delivered(i)
      PROVE  UNCHANGED Broadcast!bvars
  <2>1. \A t \in Sessions : QueueOf(t)' = QueueOf(t)
    BY <1>1, <1>2, <1>3, <1>4 DEF QueueOf
  <2> QED BY <1>1, <1>2, <1>4, <2>1, StutterStep
<1>5. active \subseteq Slots /\ msgq \in [Slots -> Seq(Nat)]
      /\ \A i \in Slots : i \in Int /\ 0 <= i /\ i < MaxSinks
  BY DEF DeliveryInv, TypeInv, TypeOK, SinkTypes, Slots
<1>6. CASE DispGet
  <2>1. /\ dispPc = "get" /\ dispPc' = "lock" /\ ingest # <<>> /\ msgq' = msgq
        /\ frame' = Head(ingest) /\ ingest' = Tail(ingest)
    BY <1>6 DEF DispGet, sinkVars
  <2>2. InHand = 0 /\ InHand' = Head(ingest)
    BY <2>1 DEF InHand
  <2>3. \A t \in Sessions : QueueOf(t)' = QueueOf(t)
    BY <1>1, <1>2, <2>1 DEF QueueOf, Delivered
  <2>4. Queue' = Queue
    BY <2>3 DEF Queue, QueueOf
  <2>5. Broadcast!Take
    BY <1>1, <1>2, <2>1, <2>2, <2>4 DEF Broadcast!Take
  <2> QED BY <2>5 DEF Broadcast!BNext
<1>7. CASE DispLock
  <2>1. /\ dispPc = "lock" /\ dispPc' = "slot" /\ slot' = 0 /\ msgq' = msgq /\ frame' = frame
        /\ ingest' = ingest
    BY <1>7 DEF DispLock, sinkVars, uartVars
  <2>2. InHand = frame /\ InHand # 0 /\ InHand' = 0
    BY <1>1, <2>1 DEF InHand, DeliveryInv, IngestOrdered
  <2>3. \A i \in active : /\ Delivered(i) = msgq[i]
                          /\ Delivered(i)' = Displaced(msgq[i], frame, SinkDepth)
    BY <1>5, <2>1 DEF Delivered
  <2>4. \A q, f : Displaced(q, f, SinkDepth) = Broadcast!KeepNewest(q, f, SinkDepth)
    BY DEF Displaced, Broadcast!KeepNewest
  <2>5. ASSUME NEW t \in Sessions
        PROVE  QueueOf(t)' = IF t \in Subscribed
                             THEN Broadcast!KeepNewest(QueueOf(t), InHand, SinkDepth)
                             ELSE QueueOf(t)
    <3>1. CASE t \in Subscribed
      <4>1. QueueOf(t) = msgq[sinkId[t]]
        BY <1>3, <2>3, <3>1 DEF QueueOf
      <4>2. QueueOf(t)' = Displaced(msgq[sinkId[t]], frame, SinkDepth)
        BY <1>1, <1>2, <1>3, <2>3, <3>1 DEF QueueOf
      <4> QED BY <2>2, <2>4, <3>1, <4>1, <4>2
    <3>2. CASE t \notin Subscribed
      BY <1>2, <3>2 DEF QueueOf
    <3> QED BY <3>1, <3>2
  <2>6. Queue' = [t \in Sessions |->
                    IF t \in Subscribed
                    THEN Broadcast!KeepNewest(Queue[t], InHand, SinkDepth) ELSE Queue[t]]
    <3>1. Queue = [t \in Sessions |-> QueueOf(t)] /\ Queue' = [t \in Sessions |-> QueueOf(t)']
      BY DEF Queue, QueueOf
    <3> QED BY <2>5, <3>1
  <2>7. Broadcast!Deliver
    BY <1>1, <1>2, <2>1, <2>2, <2>6 DEF Broadcast!Deliver
  <2> QED BY <2>7 DEF Broadcast!BNext
<1>8. CASE DispSkip
  <2>1. /\ dispPc = "slot" /\ dispPc' = "slot" /\ slot' = slot + 1 /\ slot \notin active
        /\ UNCHANGED <<msgq, frame, ingest>>
    BY <1>8 DEF DispSkip, sinkVars, uartVars
  <2>2. ASSUME NEW i \in active PROVE Delivered(i)' = Delivered(i)
    BY <1>1, <1>5, <2>1, DeliveredKept
  <2> QED BY <1>4, <2>1, <2>2 DEF InHand
<1>9. CASE DispPut
  <2>1. /\ dispPc = "slot" /\ slot \in active /\ UNCHANGED <<frame, ingest>>
        /\ msgq' = [msgq EXCEPT ![slot] = PutNoWait(msgq[slot], frame, SinkDepth)]
    BY <1>9 DEF DispPut, uartVars
  <2>2. \/ /\ Len(msgq[slot]) < SinkDepth /\ slot' = slot + 1 /\ dispPc' = "slot"
           /\ msgq'[slot] = Append(msgq[slot], frame)
        \/ slot' = slot /\ dispPc' = "drop" /\ msgq'[slot] = msgq[slot]
    BY <1>5, <1>9, <2>1 DEF DispPut, CountQueued, PutNoWait, HasRoom
  <2>3. ASSUME NEW i \in active PROVE Delivered(i)' = Delivered(i)
    <3>1. CASE i # slot
      <4>1. msgq'[i] = msgq[i]
        BY <1>5, <2>1, <3>1
      <4> QED BY <1>1, <1>5, <2>1, <2>2, <3>1, <4>1, DeliveredKept
    <3>2. CASE i = slot /\ slot' = slot
      BY <1>1, <1>5, <2>1, <2>2, <3>2, DeliveredKept
    <3>3. CASE i = slot /\ slot' = slot + 1
      <4>1. Delivered(i)' = msgq'[i]
        BY <1>1, <2>2, <3>3 DEF Delivered
      <4>2. Delivered(i) = Append(msgq[i], frame)
        BY <1>1, <2>1, <2>2, <3>3 DEF Delivered, Displaced
      <4> QED BY <1>1, <2>2, <3>3, <4>1, <4>2
    <3> QED BY <2>2, <3>1, <3>2, <3>3
  <2> QED BY <1>4, <2>1, <2>2, <2>3 DEF InHand
<1>10. CASE DispDrop
  <2>1. /\ dispPc = "drop" /\ dispPc' = "reput" /\ slot' = slot /\ UNCHANGED <<frame, ingest>>
        /\ slot \in active /\ Len(msgq[slot]) = SinkDepth
        /\ msgq' = [msgq EXCEPT ![slot] = DropOldest(msgq[slot])]
    BY <1>10 DEF DispDrop, uartVars, DeliveryInv, TypeInv, PutStages
  <2>2. ASSUME NEW i \in active PROVE Delivered(i)' = Delivered(i)
    <3>1. CASE i # slot
      <4>1. msgq'[i] = msgq[i]
        BY <1>5, <2>1, <3>1
      <4> QED BY <1>1, <1>5, <2>1, <3>1, <4>1, DeliveredKept
    <3>2. CASE i = slot
      <4>0. msgq[i] \in Seq(Nat) /\ Len(msgq[i]) # 0 /\ msgq'[i] = DropOldest(msgq[i])
        BY <1>5, <2>1, <3>2
      <4>1. msgq[i] \in Seq(Nat) /\ msgq[i] # <<>> /\ msgq'[i] = Tail(msgq[i])
        BY <4>0 DEF DropOldest, GetNoWait
      <4>2. Len(msgq'[i]) < SinkDepth
        <5>1. Len(Tail(msgq[i])) = Len(msgq[i]) - 1 /\ Len(msgq[i]) = SinkDepth
          BY <2>1, <3>2, <4>1
        <5>2. Len(msgq'[i]) = SinkDepth - 1
          BY <4>1, <5>1
        <5> QED BY <5>2
      <4>3. Delivered(i) = Append(Tail(msgq[i]), frame)
        BY <1>1, <2>1, <3>2 DEF Delivered, Displaced
      <4>4. Delivered(i)' = Append(msgq'[i], frame)
        BY <1>1, <2>1, <3>2, <4>2 DEF Delivered, Displaced
      <4> QED BY <4>1, <4>3, <4>4
    <3> QED BY <3>1, <3>2
  <2> QED BY <1>4, <2>1, <2>2 DEF InHand
<1>11. CASE DispReput
  <2>1. /\ dispPc = "reput" /\ dispPc' = "slot" /\ slot' = slot + 1 /\ UNCHANGED <<frame, ingest>>
        /\ slot \in active /\ Len(msgq[slot]) < SinkDepth
        /\ msgq' = [msgq EXCEPT ![slot] = Append(msgq[slot], frame)]
    BY <1>11 DEF DispReput, CountQueued, uartVars, DeliveryInv, TypeInv, PutStages, HasRoom,
                 PutNoWait
  <2>2. ASSUME NEW i \in active PROVE Delivered(i)' = Delivered(i)
    <3>1. CASE i # slot
      <4>1. msgq'[i] = msgq[i]
        BY <1>5, <2>1, <3>1
      <4> QED BY <1>1, <1>5, <2>1, <3>1, <4>1, DeliveredKept
    <3>2. CASE i = slot
      <4>1. Delivered(i) = Append(msgq[i], frame)
        BY <1>1, <2>1, <3>2 DEF Delivered, Displaced
      <4>2. Delivered(i)' = msgq'[i]
        BY <1>1, <2>1, <3>2 DEF Delivered
      <4>3. msgq'[i] = Append(msgq[i], frame)
        BY <1>5, <2>1, <3>2
      <4> QED BY <4>1, <4>2, <4>3
    <3> QED BY <3>1, <3>2
  <2> QED BY <1>4, <2>1, <2>2 DEF InHand
<1>12. CASE DispUnlock
  <2>1. /\ dispPc = "slot" /\ dispPc' = "get" /\ slot = MaxSinks
        /\ UNCHANGED <<msgq, frame, ingest>>
    BY <1>12 DEF DispUnlock, sinkVars, uartVars
  <2>2. ASSUME NEW i \in active PROVE Delivered(i)' = Delivered(i)
    BY <1>5, <2>1 DEF Delivered
  <2> QED BY <1>4, <2>1, <2>2 DEF InHand
<1> QED BY <1>6, <1>7, <1>8, <1>9, <1>10, <1>11, <1>12 DEF DispNext

\* A session opens, reads and closes its sink in one locked step each.
LEMMA SessImplements ==
    ASSUME DeliveryInv, NEW s \in Sessions, SessNext(s)
    PROVE  [Broadcast!BNext]_(Broadcast!bvars)
<1>1. UNCHANGED <<uartVars, dispVars>> /\ dispPc \in {"get", "lock"}
  BY SessFrame DEF DeliveryInv, TypeInv, TypeOK
<1>2. UNCHANGED <<frames_in, Backlog, InHand>>
  BY <1>1 DEF uartVars, dispVars, Backlog, InHand
<1>3. \A i : Delivered(i) = msgq[i] /\ Delivered(i)' = msgq'[i]
  BY <1>1 DEF Delivered, dispVars
<1>4. /\ Queue = [t \in Sessions |-> QueueOf(t)] /\ Queue' = [t \in Sessions |-> QueueOf(t)']
      /\ \A t \in Sessions :
            /\ QueueOf(t) = IF t \in Subscribed THEN msgq[sinkId[t]] ELSE <<>>
            /\ QueueOf(t)' = IF t \in Subscribed' THEN msgq'[sinkId'[t]] ELSE <<>>
  BY <1>3 DEF Queue, QueueOf
<1>5. /\ sessPc \in [Sessions -> {"closed", "opening", "open", "checking",
                                  "getting", "got", "closing"}]
      /\ sinkId \in [Sessions -> Slots \cup {NoSink}]
      /\ msgq \in [Slots -> Seq(Nat)] /\ active \subseteq Slots
      /\ \A t \in Subscribed : sinkId[t] \in active
      /\ \A t, u \in Subscribed : sinkId[t] = sinkId[u] => t = u
  BY DEF DeliveryInv, TypeInv, TypeOK, SessTypes, SinkTypes, HandlesValid, Subscribed
<1>6. CASE OpenSlot(s)
  <2>1. PICK k \in FreeSlots : /\ msgq' = [msgq EXCEPT ![k] = <<>>]
                               /\ sinkId' = [sinkId EXCEPT ![s] = k]
    BY <1>6 DEF OpenSlot, Purge
  <2>2. k \in Slots \ active
    BY DEF FreeSlots
  <2>3. sessPc[s] = "opening" /\ sessPc' = [sessPc EXCEPT ![s] = "open"]
    BY <1>6 DEF OpenSlot
  <2>4. s \notin Subscribed /\ Subscribed' = Subscribed \cup {s}
    BY <1>5, <2>3 DEF Subscribed, HoldsHandle
  <2>5. ASSUME NEW t \in Sessions PROVE QueueOf(t)' = QueueOf(t)
    <3>1. CASE t = s
      BY <1>4, <1>5, <2>1, <2>2, <2>4, <3>1
    <3>2. CASE t \in Subscribed
      <4>1. sinkId'[t] = sinkId[t] /\ sinkId[t] # k /\ sinkId[t] \in Slots
        BY <1>5, <2>1, <2>2, <2>4, <3>2
      <4>2. msgq'[sinkId[t]] = msgq[sinkId[t]]
        BY <1>5, <2>1, <4>1
      <4> QED BY <1>4, <2>4, <3>2, <4>1, <4>2
    <3>3. CASE t # s /\ t \notin Subscribed
      BY <1>4, <2>4, <3>3
    <3> QED BY <3>1, <3>2, <3>3
  <2>6. Queue' = Queue
    BY <1>4, <2>5
  <2>7. Broadcast!Subscribe(s)
    BY <1>2, <2>2, <2>4, <2>6, SubscribeTest
  <2> QED BY <2>7 DEF Broadcast!BNext
<1>7. CASE CloseSlot(s)
  <2> DEFINE k == sinkId[s]
  <2>1. /\ msgq' = [msgq EXCEPT ![k] = <<>>] /\ sinkId' = [sinkId EXCEPT ![s] = NoSink]
        /\ sessPc[s] = "closing" /\ sessPc' = [sessPc EXCEPT ![s] = "closed"]
    BY <1>7 DEF CloseSlot, Purge
  <2>2. s \in Subscribed /\ Subscribed' = Subscribed \ {s}
    BY <1>5, <2>1 DEF Subscribed, HoldsHandle
  <2>3. ASSUME NEW t \in Sessions PROVE QueueOf(t)' = IF t = s THEN <<>> ELSE QueueOf(t)
    <3>1. CASE t = s
      BY <1>4, <2>2, <3>1
    <3>2. CASE t # s /\ t \in Subscribed
      <4>1. sinkId'[t] = sinkId[t] /\ sinkId[t] # k /\ sinkId[t] \in Slots
        BY <1>5, <2>1, <2>2, <3>2
      <4>2. msgq'[sinkId[t]] = msgq[sinkId[t]]
        BY <1>5, <2>1, <4>1
      <4> QED BY <1>4, <2>2, <3>2, <4>1, <4>2
    <3>3. CASE t # s /\ t \notin Subscribed
      BY <1>4, <2>2, <3>3
    <3> QED BY <3>1, <3>2, <3>3
  <2>4. Queue' = [Queue EXCEPT ![s] = <<>>]
    BY <1>4, <2>3
  <2>5. Broadcast!Unsubscribe(s)
    BY <1>2, <2>2, <2>4 DEF Broadcast!Unsubscribe
  <2> QED BY <2>5 DEF Broadcast!BNext
<1>8. CASE TakeGet(s)
  <2> DEFINE k == sinkId[s]
  <2>1. /\ msgq' = [msgq EXCEPT ![k] = Tail(msgq[k])] /\ sinkId' = sinkId /\ msgq[k] # <<>>
        /\ sessPc[s] = "getting" /\ sessPc' = [sessPc EXCEPT ![s] = "got"]
    BY <1>8 DEF TakeGet
  <2>2. s \in Subscribed /\ Subscribed' = Subscribed
    BY <1>5, <2>1 DEF Subscribed, HoldsHandle
  <2>3. QueueOf(s) = msgq[k] /\ QueueOf(s)' = Tail(msgq[k])
    BY <1>4, <1>5, <2>1, <2>2
  <2>4. ASSUME NEW t \in Sessions, t # s PROVE QueueOf(t)' = QueueOf(t)
    <3>1. CASE t \in Subscribed
      <4>1. sinkId[t] # k /\ sinkId[t] \in Slots
        BY <1>5, <2>2, <2>4, <3>1
      <4>2. msgq'[sinkId[t]] = msgq[sinkId[t]]
        BY <1>5, <2>1, <4>1
      <4> QED BY <1>4, <2>1, <2>2, <3>1, <4>2
    <3>2. CASE t \notin Subscribed
      BY <1>4, <2>2, <3>2
    <3> QED BY <3>1, <3>2
  <2>5. Queue[s] # <<>> /\ Queue' = [Queue EXCEPT ![s] = Tail(Queue[s])]
    BY <1>4, <2>1, <2>3, <2>4
  <2>6. Broadcast!Read(s)
    BY <1>2, <2>2, <2>5 DEF Broadcast!Read
  <2> QED BY <2>6 DEF Broadcast!BNext
<1>9. CASE OpenFail(s) \/ TakeCheck(s) \/ OpenLock(s) \/ TakeLock(s) \/ CloseLock(s)
           \/ TakeCount(s) \/ TakeTimeout(s)
  <2>1. UNCHANGED <<msgq, sinkId>>
    BY <1>9 DEF OpenFail, TakeCheck, OpenLock, TakeLock, CloseLock, LockStep, TakeCount,
                TakeTimeout, sinkVars
  <2>2. Subscribed' = Subscribed
    BY <1>5, <1>9 DEF OpenFail, TakeCheck, OpenLock, TakeLock, CloseLock, LockStep, TakeCount,
                      TakeTimeout, Subscribed, HoldsHandle
  <2>3. \A t \in Sessions : QueueOf(t)' = QueueOf(t)
    BY <1>4, <2>1, <2>2
  <2> QED BY <1>2, <2>2, <2>3, StutterStep
<1> QED BY <1>6, <1>7, <1>8, <1>9 DEF SessNext, LockedStep

\* Every step of the frame path is a step of the broadcast or changes nothing that
\* anyone outside can see.
LEMMA StepImplements ==
    DeliveryInv /\ [Next]_vars => [Broadcast!BNext]_(Broadcast!bvars)
<1> SUFFICES ASSUME DeliveryInv, [Next]_vars PROVE [Broadcast!BNext]_(Broadcast!bvars)
  OBVIOUS
<1>1. CASE UNCHANGED vars
  <2>1. UNCHANGED <<uartPc, ingest, frames_in, dispPc, frame, slot, msgq, sessPc, sinkId>>
    BY <1>1 DEF vars, uartVars, dispVars, sinkVars, sessVars
  <2>2. UNCHANGED <<frames_in, Backlog, InHand, Subscribed>>
    BY <2>1 DEF Backlog, InHand, Subscribed, HoldsHandle
  <2>3. \A t \in Sessions : QueueOf(t)' = QueueOf(t)
    BY <2>1, <2>2 DEF QueueOf, Delivered, Displaced
  <2> QED BY <2>2, <2>3, StutterStep
<1> QED BY <1>1, UartImplements, DispImplements, SessImplements DEF Next

\* The safety part of ImplementsBroadcast.
BroadcastSafety == Broadcast!BSafety

\* However UART thread, dispatcher and sessions are interleaved, the frame path of
\* nmea_bridge.c behaves like one atomic broadcast: a frame is delivered to all open
\* sinks at once, only full queues lose frames, and only their oldest, and a sink
\* that is opened in a recycled slot starts empty.
THEOREM BridgeImplementsBroadcast == Spec => BroadcastSafety
<1>1. Init => Broadcast!BInit
  <2> SUFFICES ASSUME Init PROVE Broadcast!BInit
    OBVIOUS
  <2>1. Backlog = <<>> /\ InHand = 0
    BY DEF Init, Backlog, InHand
  <2>2. Subscribed = {}
    BY DEF Init, Subscribed, HoldsHandle
  <2>3. Queue = [s \in Sessions |-> <<>>]
    BY <2>2 DEF Queue
  <2> QED BY <2>1, <2>2, <2>3 DEF Init, Broadcast!BInit
<1> QED BY <1>1, DeliveryInvariant, StepImplements, PTL DEF Spec, BroadcastSafety, Broadcast!BSafety
=============================================================================
