------------------------- MODULE TcpNmeaServerProofs -------------------------
(***************************************************************************)
(* Proofs about the TCP server and its sessions, for any number of peers   *)
(* and sinks that meets the build assertion, and any set of descriptors.   *)
(***************************************************************************)
EXTENDS TcpNmeaServer, FiniteSetTheorems, TLAPS

USE ServerAssumption

SrvTypes ==
    /\ srvPc \in {"boot", "accept", "alloc", "create", "dead", "undefined"}
    /\ srvFd \in Fds \cup {NoFd}
    /\ srvPeer \in Peers \cup {0}

SlotTypes ==
    /\ active \subseteq Peers
    /\ peerFd \in [Peers -> Fds \cup {NoFd}]
    /\ openFds \subseteq Fds

SessTypes ==
    /\ pc \in [Threads -> {"idle", "start", "opened", "session", "take", "sending",
                           "blocked", "ending", "closing", "over", "unslot", "leaving"}]
    /\ sinkHolders \subseteq Threads

Types == SrvTypes /\ SlotTypes /\ SessTypes

-----------------------------------------------------------------------------
(* The steps by who takes them. *)

ThreadStep(t) == SessionStep(t) \/ RemoteCloses(t) \/ WindowOpens(t) \/ SessionFails(t)
CloseStep(p) == ClosePeerFd(p) \/ FreePeerSlot(p) \/ ThreadEnds(p)

\* A step is one of the accept loop, of a session, of the clean-up of a slot, or the
\* start of the client's session.
LEMMA StepCases ==
    ASSUME [Next]_vars
    PROVE  \/ ServerNext
           \/ ClientSession
           \/ \E t \in Threads : ThreadStep(t)
           \/ \E p \in Peers : CloseStep(p)
           \/ UNCHANGED vars
  BY DEF Next, Undefined, PeerStep, ThreadStep, CloseStep, Threads

\* A session changes nothing of the server and of the slots, and moves from one
\* of its places to the next.
LEMMA ThreadFrame ==
    ASSUME NEW t \in Threads, ThreadStep(t)
    PROVE  /\ UNCHANGED <<srvVars, slotVars>>
           /\ \/ pc' = pc /\ UNCHANGED <<sinkHolders, active_sessions, ledSessions>>
              \/ /\ pc[t] = "start" /\ pc' = [pc EXCEPT ![t] = "opened"]
                 /\ sinkHolders' = sinkHolders \cup {t}
                 /\ UNCHANGED <<active_sessions, ledSessions>>
              \/ /\ pc[t] = "start" /\ pc' = [pc EXCEPT ![t] = "over"]
                 /\ UNCHANGED <<sinkHolders, active_sessions, ledSessions>>
              \/ /\ pc[t] = "opened" /\ pc' = [pc EXCEPT ![t] = "session"]
                 /\ active_sessions' = active_sessions + 1
                 /\ ledSessions' = ledSessions + 1
                 /\ UNCHANGED sinkHolders
              \/ /\ pc[t] \in Running
                 /\ \E to \in Running \cup {"ending"} : pc' = [pc EXCEPT ![t] = to]
                 /\ UNCHANGED <<sinkHolders, active_sessions, ledSessions>>
              \/ /\ pc[t] = "ending" /\ pc' = [pc EXCEPT ![t] = "closing"]
                 /\ active_sessions' = active_sessions - 1
                 /\ ledSessions' = IF ledSessions > 0 THEN ledSessions - 1 ELSE 0
                 /\ UNCHANGED sinkHolders
              \/ /\ pc[t] = "closing" /\ pc' = [pc EXCEPT ![t] = "over"]
                 /\ sinkHolders' = sinkHolders \ {t}
                 /\ UNCHANGED <<active_sessions, ledSessions>>
<1> USE DEF Goto
<1>1. CASE SinkOpen(t)
  BY <1>1 DEF SinkOpen
<1>2. CASE CountSession(t)
  BY <1>2 DEF CountSession
<1>3. CASE DrainSocketRx(t) \/ SinkTake(t) \/ SendAll(t) \/ WindowOpens(t) \/ SessionFails(t)
  BY <1>3 DEF DrainSocketRx, SinkTake, SendAll, WindowOpens, SessionFails, Running, Sending
<1>4. CASE UncountSession(t)
  BY <1>4 DEF UncountSession
<1>5. CASE SinkClose(t)
  BY <1>5 DEF SinkClose
<1>6. CASE RemoteCloses(t)
  BY <1>6 DEF RemoteCloses
<1> QED BY <1>1, <1>2, <1>3, <1>4, <1>5, <1>6 DEF ThreadStep, SessionStep

-----------------------------------------------------------------------------
(* Slots. *)

SlotInv == Types /\ SlotsExclusive

\* All slots start free.
LEMMA SlotInit == Init => SlotInv
  BY DEF Init, SlotInv, Types, SrvTypes, SlotTypes, SessTypes, SlotsExclusive, Threads,
         Running, Sending

\* Types and ownership of the slots are inductive together.
LEMMA SlotStep == SlotInv /\ [Next]_vars => SlotInv'
<1> SUFFICES ASSUME SlotInv, [Next]_vars PROVE SlotInv'
  OBVIOUS
<1> USE DEF SlotInv, Types, SrvTypes, SlotTypes, SessTypes, SlotsExclusive
<1>0. Peers \subseteq Threads /\ Client \in Threads /\ Client \notin Peers
  BY DEF Threads
<1>1. CASE Listen \/ Accept \/ RejectPeer
  BY <1>1 DEF Listen, Accept, RejectPeer, slotVars, sessVars
<1>2. CASE AllocPeer
  BY <1>2 DEF AllocPeer, FreePeers, sessVars
<1>3. CASE CreatePeer
  BY <1>0, <1>3 DEF CreatePeer, Running, Sending
<1>4. CASE ClientSession
  BY <1>0, <1>4 DEF ClientSession, srvVars, slotVars, Running, Sending
<1>5. ASSUME NEW t \in Threads, ThreadStep(t) PROVE SlotInv'
  BY <1>0, <1>5, ThreadFrame DEF srvVars, slotVars, Running, Sending
<1>6. ASSUME NEW p \in Peers, CloseStep(p) PROVE SlotInv'
  BY <1>0, <1>6 DEF CloseStep, ClosePeerFd, FreePeerSlot, ThreadEnds, Goto, srvVars, slotVars,
                    Running, Sending
<1>7. CASE UNCHANGED vars
  BY <1>7 DEF vars, srvVars, slotVars, sessVars
<1> QED BY <1>1, <1>2, <1>3, <1>4, <1>5, <1>6, <1>7, StepCases DEF ServerNext

\* No slot is handed out before its former thread has returned sink, descriptor and
\* counters, and exactly the running sessions hold a sink.
THEOREM SlotsStayExclusive == Spec => []SlotsExclusive
<1>1. SlotInv => SlotsExclusive
  BY DEF SlotInv
<1> QED BY <1>1, SlotInit, SlotStep, PTL DEF Spec

-----------------------------------------------------------------------------
(* Sinks. *)

\* There is one thread more than there are peers.
LEMMA ThreadCount == IsFiniteSet(Threads) /\ Cardinality(Threads) = MaxPeers + 1
<1>1. IsFiniteSet(Peers) /\ Cardinality(Peers) = MaxPeers
  BY FS_Interval DEF Peers
<1> QED BY <1>1, FS_AddElement DEF Threads

\* A thread that has no sink leaves at least one to spare.
LEMMA SinkToSpare == SlotInv => SinkAvailable
<1> SUFFICES ASSUME SlotInv, NEW t \in Threads, pc[t] = "start"
             PROVE  Cardinality(sinkHolders) < MaxSinks
  BY DEF SinkAvailable
<1>1. sinkHolders \subseteq Threads \ {t}
  BY DEF SlotInv, Types, SessTypes, SlotsExclusive, Running, Sending
<1>2. IsFiniteSet(Threads \ {t}) /\ Cardinality(Threads \ {t}) = MaxPeers
  <2>1. IsFiniteSet(Threads) /\ Cardinality(Threads) = MaxPeers + 1
    BY ThreadCount
  <2>2. IsFiniteSet(Threads \ {t}) /\ Cardinality(Threads \ {t}) = Cardinality(Threads) - 1
    BY <2>1, FS_RemoveElement
  <2> QED BY <2>1, <2>2
<1>3. Cardinality(sinkHolders) <= MaxPeers
  BY <1>1, <1>2, FS_Subset
<1>4. Cardinality(sinkHolders) \in Nat
  BY <1>1, <1>2, FS_Subset, FS_CardinalityType
<1> QED BY <1>3, <1>4

\* The build assertion is enough: no session is ever refused a sink.
THEOREM SinksSuffice == Spec => []SinkAvailable
  BY SlotInit, SlotStep, SinkToSpare, PTL DEF Spec

-----------------------------------------------------------------------------
(* Descriptors. *)

\* The server has a descriptor in hand from accept to the hand-over, and a slot
\* has one as long as its thread has not closed it.
InHand ==
    /\ srvFd # NoFd <=> srvPc \in {"alloc", "create"}
    /\ \A p \in Peers : pc[p] \in {"idle", "unslot", "leaving"} => peerFd[p] = NoFd

FdInv == InHand /\ DescriptorsOwned

\* No descriptor is open at the start.
LEMMA FdInit == Init => FdInv
  BY DEF Init, FdInv, InHand, DescriptorsOwned, Threads

\* A descriptor is handed from the accept loop to a slot and closed by whoever has it.
LEMMA FdStep == SlotInv /\ FdInv /\ [Next]_vars => FdInv'
<1> SUFFICES ASSUME SlotInv, FdInv, [Next]_vars PROVE FdInv'
  OBVIOUS
<1> USE DEF SlotInv, Types, SrvTypes, SlotTypes, SessTypes
<1>0. Peers \subseteq Threads /\ Client \in Threads /\ Client \notin Peers
  BY DEF Threads
<1>1. CASE Listen
  BY <1>1 DEF Listen, FdInv, InHand, DescriptorsOwned, slotVars, sessVars
<1>2. CASE Accept
  BY <1>2 DEF Accept, FdInv, InHand, DescriptorsOwned, sessVars
<1>3. CASE RejectPeer
  BY <1>3 DEF RejectPeer, FdInv, InHand, DescriptorsOwned, sessVars
<1>4. CASE AllocPeer
  <2>1. PICK p \in Peers \ active : peerFd' = [peerFd EXCEPT ![p] = NoFd]
    BY <1>4 DEF AllocPeer, FreePeers
  <2>2. peerFd[p] = NoFd
    BY <2>1, <1>0 DEF FdInv, InHand, SlotsExclusive
  <2>3. peerFd' = peerFd
    BY <2>1, <2>2
  <2> QED BY <1>4, <2>3 DEF AllocPeer, FdInv, InHand, DescriptorsOwned, sessVars
<1>5. CASE CreatePeer
  <2>1. srvPeer \in Peers /\ pc[srvPeer] \in {"idle", "leaving"} /\ srvFd # NoFd
    BY <1>5 DEF CreatePeer, SlotsExclusive, FdInv, InHand
  <2>2. peerFd[srvPeer] = NoFd
    BY <2>1 DEF FdInv, InHand
  <2>3. InHand'
    BY <1>0, <1>5, <2>1 DEF CreatePeer, FdInv, InHand
  <2>4. DescriptorsOwned'
    BY <1>5, <2>1, <2>2 DEF CreatePeer, FdInv, DescriptorsOwned
  <2> QED BY <2>3, <2>4 DEF FdInv
<1>6. CASE ClientSession
  BY <1>0, <1>6 DEF ClientSession, FdInv, InHand, DescriptorsOwned, srvVars, slotVars
<1>7. ASSUME NEW t \in Threads, ThreadStep(t) PROVE FdInv'
  BY <1>0, <1>7, ThreadFrame DEF FdInv, InHand, DescriptorsOwned, srvVars, slotVars,
                                  Running, Sending
<1>8. ASSUME NEW p \in Peers, ClosePeerFd(p) PROVE FdInv'
  <2>1. InHand'
    BY <1>0, <1>8 DEF ClosePeerFd, Goto, FdInv, InHand, srvVars
  <2>2. DescriptorsOwned'
    BY <1>8 DEF ClosePeerFd, FdInv, DescriptorsOwned, srvVars
  <2> QED BY <2>1, <2>2 DEF FdInv
<1>9. ASSUME NEW p \in Peers, FreePeerSlot(p) \/ ThreadEnds(p) PROVE FdInv'
  BY <1>0, <1>9 DEF FreePeerSlot, ThreadEnds, Goto, FdInv, InHand, DescriptorsOwned,
                    srvVars, slotVars
<1>10. CASE UNCHANGED vars
  BY <1>10 DEF vars, srvVars, slotVars, sessVars, FdInv, InHand, DescriptorsOwned
<1> QED BY <1>1, <1>2, <1>3, <1>4, <1>5, <1>6, <1>7, <1>8, <1>9, <1>10, StepCases
        DEF ServerNext, CloseStep

\* Every open descriptor belongs to exactly one connection in hand: none leaks,
\* none is closed twice, none is shared.
THEOREM DescriptorsStayOwned == Spec => []DescriptorsOwned
<1>1. FdInv => DescriptorsOwned
  BY DEF FdInv
<1> QED BY <1>1, SlotInit, SlotStep, FdInit, FdStep, PTL DEF Spec

-----------------------------------------------------------------------------
(* Counters. *)

\* The sessions that run are finitely many.
LEMMA CountedFinite ==
    SlotInv => IsFiniteSet(Counted) /\ Cardinality(Counted) \in Nat
  BY ThreadCount, FS_Subset, FS_CardinalityType DEF Counted

\* A session enters and leaves the count with both counters.
LEMMA CountStep == SlotInv /\ SessionsCounted /\ [Next]_vars => SessionsCounted'
<1> SUFFICES ASSUME SlotInv, SessionsCounted, [Next]_vars PROVE SessionsCounted'
  OBVIOUS
<1> USE DEF SlotInv, Types, SessTypes
<1>0. Peers \subseteq Threads /\ Client \in Threads
  BY DEF Threads
<1>1. CASE Counted' = Counted /\ UNCHANGED <<active_sessions, ledSessions>>
  BY <1>1 DEF SessionsCounted
<1>2. CASE Listen \/ Accept \/ AllocPeer \/ RejectPeer
  BY <1>1, <1>2 DEF Listen, Accept, AllocPeer, RejectPeer, sessVars, Counted
<1>3. CASE CreatePeer
  <2>1. srvPeer \in Threads /\ pc[srvPeer] \in {"idle", "leaving"}
    BY <1>0, <1>3 DEF CreatePeer, SlotsExclusive, SlotTypes
  <2> QED BY <1>1, <1>3, <2>1 DEF CreatePeer, Counted, Running, Sending
<1>4. CASE ClientSession
  BY <1>0, <1>1, <1>4 DEF ClientSession, Counted, Running, Sending
<1>5. ASSUME NEW p \in Peers, CloseStep(p) PROVE SessionsCounted'
  BY <1>0, <1>1, <1>5 DEF CloseStep, ClosePeerFd, FreePeerSlot, ThreadEnds, Goto,
                         Counted, Running, Sending
<1>6. ASSUME NEW t \in Threads, ThreadStep(t) PROVE SessionsCounted'
  <2>1. CASE pc[t] = "opened" /\ pc' = [pc EXCEPT ![t] = "session"]
             /\ active_sessions' = active_sessions + 1 /\ ledSessions' = ledSessions + 1
    <3>1. Counted' = Counted \cup {t} /\ t \notin Counted
      BY <2>1 DEF Counted, Running, Sending
    <3> QED BY <2>1, <3>1, CountedFinite, FS_AddElement DEF SessionsCounted
  <2>2. CASE pc[t] = "ending" /\ pc' = [pc EXCEPT ![t] = "closing"]
             /\ active_sessions' = active_sessions - 1
             /\ ledSessions' = IF ledSessions > 0 THEN ledSessions - 1 ELSE 0
    <3>1. Counted' = Counted \ {t} /\ t \in Counted
      BY <2>2 DEF Counted, Running, Sending
    <3>2. Cardinality(Counted') = Cardinality(Counted) - 1
      BY <3>1, CountedFinite, FS_RemoveElement
    <3>3. Cardinality(Counted') \in Nat
      BY <3>1, CountedFinite, FS_RemoveElement, FS_CardinalityType
    <3> QED BY <2>2, <3>2, <3>3, CountedFinite DEF SessionsCounted
  <2>3. CASE UNCHANGED <<active_sessions, ledSessions>>
             /\ \/ pc' = pc
                \/ \E from \in {"start", "closing"}, to \in {"opened", "over"} :
                      pc[t] = from /\ pc' = [pc EXCEPT ![t] = to]
                \/ pc[t] \in Running
                   /\ \E to \in Running \cup {"ending"} : pc' = [pc EXCEPT ![t] = to]
    BY <1>1, <2>3 DEF Counted, Running, Sending
  <2> QED BY <1>6, <2>1, <2>2, <2>3, ThreadFrame
<1>7. CASE UNCHANGED vars
  BY <1>1, <1>7 DEF vars, sessVars, Counted
<1> QED BY <1>2, <1>3, <1>4, <1>5, <1>6, <1>7, StepCases DEF ServerNext

\* The telemetry's counter and the one of the LED always equal the number of
\* running sessions; the LED's guard against going below zero is never needed.
THEOREM SessionCountExact == Spec => []SessionsCounted
<1>1. Init => SessionsCounted
  <2>1. Init => Counted = {}
    BY DEF Init, Counted, Running, Sending
  <2> QED BY <2>1, FS_EmptySet DEF Init, SessionsCounted
<1> QED BY <1>1, SlotInit, SlotStep, CountStep, PTL DEF Spec
=============================================================================
