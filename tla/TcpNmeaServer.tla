---------------------------- MODULE TcpNmeaServer ----------------------------
(***************************************************************************)
(* The TCP NMEA server (tcp_nmea_server.c), its peer threads and the TCP   *)
(* client thread, all running tcp_nmea_session_run (tcp_nmea_session.c).   *)
(* The module is about the resources that connections consume and return:  *)
(* descriptors, peer slots, sinks, and the counters of running sessions.   *)
(* Sinks are the abstraction of NmeaBridge: a session holds one or not.    *)
(***************************************************************************)
EXTENDS Integers, FiniteSets

CONSTANTS
    MaxPeers,      \* CONFIG_ESP_NMEA_BRIDGE_TCP_NMEA_SERVER_MAX_PEERS
    MaxSinks,      \* CONFIG_ESP_NMEA_BRIDGE_NMEA_SINKS_MAX
    Fds,           \* descriptors that connections may get
    NoFd,          \* -1
    Client         \* the TCP client thread

Peers == 1 .. MaxPeers                \* indices of peers[], counted from 1
Threads == Peers \cup {Client}

\* BUILD_ASSERT in nmea_bridge.c
ASSUME ServerAssumption ==
    /\ MaxPeers \in Nat \ {0}
    /\ MaxSinks \in Nat
    /\ MaxSinks >= MaxPeers + 1
    /\ Client \notin Peers
    /\ NoFd \notin Fds

VARIABLES
    srvPc,             \* server_thread: "boot", "accept", "alloc", "create", "dead";
                       \* "undefined" once a live thread has been created over
    srvFd, srvPeer,    \* its locals fd and peer
    active, peerFd,    \* peers[]: the active slots, and their descriptors
    openFds,           \* descriptors that are open
    pc,                \* threads inside tcp_nmea_session_run and after it
    sinkHolders,       \* threads that hold a sink
    active_sessions,   \* counter in tcp_nmea_session.c
    ledSessions,       \* sessions as counted by the status LED policy
    remoteGone         \* threads whose remote end has closed

srvVars  == <<srvPc, srvFd, srvPeer>>
slotVars == <<active, peerFd, openFds>>
sessVars == <<pc, sinkHolders, active_sessions, ledSessions, remoteGone>>
vars == <<srvVars, slotVars, sessVars>>

Init ==
    /\ srvPc = "boot"
    /\ srvFd = NoFd
    /\ srvPeer = 0
    /\ active = {}
    /\ peerFd = [p \in Peers |-> NoFd]
    /\ openFds = {}
    /\ pc = [t \in Threads |-> "idle"]
    /\ sinkHolders = {}
    /\ active_sessions = 0
    /\ ledSessions = 0
    /\ remoteGone = {}

-----------------------------------------------------------------------------
(* server_thread *)

Listen ==
    /\ srvPc = "boot"
    /\ srvPc' \in {"accept", "dead"}      \* socket, bind or listen may fail
    /\ UNCHANGED <<srvFd, srvPeer, slotVars, sessVars>>

Accept ==
    /\ srvPc = "accept"
    /\ \E f \in Fds \ openFds :
          /\ openFds' = openFds \cup {f}
          /\ srvFd' = f
    /\ srvPc' = "alloc"
    /\ UNCHANGED <<srvPeer, active, peerFd, sessVars>>

FreePeers == Peers \ active

\* alloc_peer
AllocPeer ==
    /\ srvPc = "alloc"
    /\ \E p \in FreePeers :
          /\ \A q \in FreePeers : p <= q
          /\ srvPeer' = p
          /\ active' = active \cup {p}
          /\ peerFd' = [peerFd EXCEPT ![p] = NoFd]
    /\ srvPc' = "create"
    /\ UNCHANGED <<srvFd, openFds, sessVars>>

\* Mutant: the descriptor of a rejected connection stays open.
RejectKeepsFd ==
    /\ srvPc = "alloc"
    /\ FreePeers = {}
    /\ srvFd' = NoFd
    /\ srvPc' = "accept"
    /\ UNCHANGED <<srvPeer, slotVars, sessVars>>

RejectPeer ==
    /\ srvPc = "alloc"
    /\ FreePeers = {}
    /\ openFds' = openFds \ {srvFd}
    /\ srvFd' = NoFd
    /\ srvPc' = "accept"
    /\ UNCHANGED <<srvPeer, active, peerFd, sessVars>>

\* peer->fd = fd; k_thread_create. When the slot's former thread has not returned
\* yet, its thread object and its stack are initialised under it: what the program
\* does from then on is undefined, and the model stops.
CreatePeer ==
    /\ srvPc = "create"
    /\ peerFd' = [peerFd EXCEPT ![srvPeer] = srvFd]
    /\ pc' = [pc EXCEPT ![srvPeer] = "start"]
    /\ remoteGone' = remoteGone \ {srvPeer}
    /\ srvFd' = NoFd
    /\ srvPc' = IF pc[srvPeer] = "idle" THEN "accept" ELSE "undefined"
    /\ UNCHANGED <<srvPeer, active, openFds, sinkHolders, active_sessions, ledSessions>>

Undefined == srvPc = "undefined" /\ UNCHANGED vars

\* client_thread calls tcp_nmea_session_run (see TcpNmeaClient) and returns.
ClientSession ==
    /\ srvPc # "undefined"
    /\ pc[Client] \in {"idle", "over"}
    /\ pc' = [pc EXCEPT ![Client] = IF @ = "idle" THEN "start" ELSE "idle"]
    /\ remoteGone' = remoteGone \ {Client}
    /\ UNCHANGED <<srvVars, slotVars, sinkHolders, active_sessions, ledSessions>>

ServerNext == Listen \/ Accept \/ AllocPeer \/ RejectPeer \/ CreatePeer

-----------------------------------------------------------------------------
(* tcp_nmea_session_run *)

Goto(t, from, to) ==
    /\ srvPc # "undefined"
    /\ pc[t] = from
    /\ pc' = [pc EXCEPT ![t] = to]

Sending == {"sending", "blocked"}                        \* inside send_all
Running == {"session", "take"} \cup Sending               \* inside the loop

SinkOpen(t) ==
    /\ IF Cardinality(sinkHolders) < MaxSinks
          THEN Goto(t, "start", "opened") /\ sinkHolders' = sinkHolders \cup {t}
          ELSE Goto(t, "start", "over") /\ UNCHANGED sinkHolders
    /\ UNCHANGED <<srvVars, slotVars, active_sessions, ledSessions, remoteGone>>

\* atomic_inc, status_led_tcp_nmea_session_started
CountSession(t) ==
    /\ Goto(t, "opened", "session")
    /\ active_sessions' = active_sessions + 1
    /\ ledSessions' = ledSessions + 1
    /\ UNCHANGED <<srvVars, slotVars, sinkHolders, remoteGone>>

RemoteCloses(t) ==
    /\ srvPc # "undefined"
    /\ pc[t] \in {"start", "opened"} \cup Running
    /\ t \notin remoteGone
    /\ remoteGone' = remoteGone \cup {t}
    /\ UNCHANGED <<srvVars, slotVars, pc, sinkHolders, active_sessions, ledSessions>>

\* drain_socket_rx, before a frame is taken and after it is sent: a remote close
\* ends the loop.
DrainSocketRx(t) ==
    /\ IF t \in remoteGone THEN Goto(t, "session", "ending") ELSE Goto(t, "session", "take")
    /\ UNCHANGED <<srvVars, slotVars, sinkHolders, active_sessions, ledSessions, remoteGone>>

\* nmea_bridge_sink_take times out, or hands over a frame for which the send window
\* has room or has none.
SinkTake(t) ==
    /\ \E to \in {"session"} \cup Sending : Goto(t, "take", to)
    /\ UNCHANGED <<srvVars, slotVars, sinkHolders, active_sessions, ledSessions, remoteGone>>

\* send_all has sent the whole frame.
SendAll(t) ==
    /\ Goto(t, "sending", "session")
    /\ UNCHANGED <<srvVars, slotVars, sinkHolders, active_sessions, ledSessions, remoteGone>>

\* As long as zsock_send returns EAGAIN, send_all sleeps and tries again, without
\* limit and without a look at the receiving side; the remote end reads, or never does.
WindowOpens(t) ==
    /\ Goto(t, "blocked", "sending")
    /\ UNCHANGED <<srvVars, slotVars, sinkHolders, active_sessions, ledSessions, remoteGone>>

\* Receiving or sending fails.
SessionFails(t) ==
    /\ \E from \in {"session"} \cup Sending : Goto(t, from, "ending")
    /\ UNCHANGED <<srvVars, slotVars, sinkHolders, active_sessions, ledSessions, remoteGone>>

\* Mutant: the session is not discounted.
UncountNothing(t) ==
    /\ Goto(t, "ending", "closing")
    /\ UNCHANGED <<srvVars, slotVars, sinkHolders, active_sessions, ledSessions, remoteGone>>

\* status_led_tcp_nmea_session_ended (which stops at zero), atomic_dec
UncountSession(t) ==
    /\ Goto(t, "ending", "closing")
    /\ ledSessions' = IF ledSessions > 0 THEN ledSessions - 1 ELSE 0
    /\ active_sessions' = active_sessions - 1
    /\ UNCHANGED <<srvVars, slotVars, sinkHolders, remoteGone>>

\* Mutant: a way out of the loop forgets the sink.
SinkLeaks(t) ==
    /\ Goto(t, "closing", "over")
    /\ UNCHANGED <<srvVars, slotVars, sinkHolders, active_sessions, ledSessions, remoteGone>>

\* Mutant: the peer slot is given back instead of the sink.
SlotBeforeSink(t) ==
    /\ Goto(t, "closing", "over")
    /\ active' = active \ {t}
    /\ UNCHANGED <<srvVars, peerFd, openFds, sinkHolders, active_sessions,
                   ledSessions, remoteGone>>

SinkClose(t) ==
    /\ Goto(t, "closing", "over")
    /\ sinkHolders' = sinkHolders \ {t}
    /\ UNCHANGED <<srvVars, slotVars, active_sessions, ledSessions, remoteGone>>

\* close_peer: first the descriptor ...
ClosePeerFd(p) ==
    /\ Goto(p, "over", "unslot")
    /\ openFds' = openFds \ {peerFd[p]}
    /\ peerFd' = [peerFd EXCEPT ![p] = NoFd]
    /\ UNCHANGED <<srvVars, active, sinkHolders, active_sessions, ledSessions, remoteGone>>

\* Mutant: the slot stays taken.
KeepSlot(p) ==
    /\ Goto(p, "unslot", "leaving")
    /\ UNCHANGED <<srvVars, slotVars, sinkHolders, active_sessions, ledSessions, remoteGone>>

\* ... then the slot, under peers_lock: from here on the server may hand it out.
FreePeerSlot(p) ==
    /\ Goto(p, "unslot", "leaving")
    /\ active' = active \ {p}
    /\ UNCHANGED <<srvVars, peerFd, openFds, sinkHolders, active_sessions,
                   ledSessions, remoteGone>>

\* peer_thread logs and returns.
ThreadEnds(p) ==
    /\ Goto(p, "leaving", "idle")
    /\ UNCHANGED <<srvVars, slotVars, sinkHolders, active_sessions, ledSessions, remoteGone>>

SessionStep(t) == \/ SinkOpen(t) \/ CountSession(t)
                  \/ DrainSocketRx(t) \/ SinkTake(t) \/ SendAll(t)
                  \/ UncountSession(t) \/ SinkClose(t)
PeerStep(p) == SessionStep(p) \/ ClosePeerFd(p) \/ FreePeerSlot(p) \/ ThreadEnds(p)

Next ==
    \/ ServerNext
    \/ \E p \in Peers : PeerStep(p)
    \/ SessionStep(Client)
    \/ ClientSession
    \/ \E t \in Threads : RemoteCloses(t) \/ WindowOpens(t) \/ SessionFails(t)
    \/ Undefined

Spec == Init /\ [][Next]_vars

\* Every thread that can run does; remote ends need not do anything.
Fairness == /\ \A p \in Peers : WF_vars(PeerStep(p))
            /\ WF_vars(CreatePeer) /\ WF_vars(AllocPeer \/ RejectPeer)

FairSpec == Spec /\ Fairness

-----------------------------------------------------------------------------
(* Properties. *)

\* "NMEA bridge sinks must cover TCP server peers plus TCP NMEA client": a
\* session that starts finds a free sink, however connections come and go.
SinkAvailable ==
    \A t \in Threads : pc[t] = "start" => Cardinality(sinkHolders) < MaxSinks

\* A slot is handed out only when its former thread has returned the sink, the
\* descriptor and its place in the counters (it may still have to log and return),
\* every thread that uses a slot owns it, and exactly the running sessions hold a
\* sink.
SlotsExclusive ==
    /\ srvPc = "create" => srvPeer \in active /\ pc[srvPeer] \in {"idle", "leaving"}
    /\ \A p \in Peers : pc[p] \notin {"idle", "leaving"} => p \in active
    /\ \A t \in Threads : t \in sinkHolders <=>
          pc[t] \in {"opened", "ending", "closing"} \cup Running

\* The open descriptors are those of the connections in hand, one each.
DescriptorsOwned ==
    /\ openFds = {peerFd[p] : p \in {q \in Peers : peerFd[q] # NoFd}}
                 \cup (IF srvFd = NoFd THEN {} ELSE {srvFd})
    /\ \A p, q \in Peers : peerFd[p] # NoFd /\ peerFd[p] = peerFd[q] => p = q
    /\ \A p \in Peers : peerFd[p] # NoFd => peerFd[p] # srvFd

Counted == {t \in Threads : pc[t] \in Running \cup {"ending"}}

\* The session counter of the telemetry and the one of the status LED agree with
\* the sessions that run.
SessionsCounted ==
    active_sessions = Cardinality(Counted) /\ ledSessions = active_sessions

\* A peer that has gone gives its slot back, provided that send_all is not stuck with
\* it for good: a peer that closes its sending side only and stops reading keeps its
\* slot. Nothing is claimed once a thread has been created over a live one.
SlotRecovered ==
    \A p \in Peers :
       []<>(pc[p] # "blocked") =>
          (p \in remoteGone /\ pc[p] \notin {"idle", "leaving"}
              ~> p \notin active \/ srvPc = "undefined")
=============================================================================
