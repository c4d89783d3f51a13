---------------------------- MODULE TcpNmeaClient ----------------------------
(***************************************************************************)
(* The TCP NMEA client (tcp_nmea_client.c) and the way a live change of    *)
(* the bridge configuration reaches it.                                    *)
(*                                                                         *)
(* Two threads take part: the web server thread saves a configuration and  *)
(* runs the listener (bridge_config.c, main.c), the client thread loops    *)
(* over snapshot, resolve, connect, session and backoff.  They share       *)
(* config_gen, config_change_sem and session_fd.  A critical section under *)
(* session_fd_lock is one step.  Waits with a timeout may end at any time, *)
(* so the length of the backoff is left out.  Other threads open and close *)
(* descriptors of the same table.                                          *)
(***************************************************************************)
EXTENDS Naturals

CONSTANTS
    Servers,       \* enabled configurations: a host and a port each
    Disabled,      \* the configuration with enabled = false
    Fds,           \* the descriptor table
    NoFd,          \* -1
    MaxChanges     \* bound on the changes of the TCP client configuration

ASSUME ClientAssumption ==
    /\ Disabled \notin Servers
    /\ NoFd \notin Fds
    /\ MaxChanges \in Nat

Configs == Servers \cup {Disabled}

VARIABLES
    cfg,           \* tcp_client in bridge_config.c (RAM)
    writerPc,      \* web thread: "idle", or "notify" while the listener is due
    seen_cfg, config_gen, config_change_sem, session_fd,
    owner,         \* descriptor table: "free", "client" or "other" per fd
    sock,          \* the client's socket: "none", "unconnected", "connected",
                   \* "eof" (peer closed or shut down for reading)
    window,        \* whether the peer takes data
    staReady,      \* resolve_host finds a usable station address
    pc, gen, ccfg, fd,     \* client_thread and its locals
    connecting     \* what status_led_tcp_nmea_client_connecting was last told

writerVars == <<cfg, writerPc, seen_cfg, config_gen>>
envVars    == <<window, staReady>>
localVars  == <<gen, ccfg, fd>>
vars == <<writerVars, config_change_sem, session_fd, owner, sock, envVars, pc,
          localVars, connecting>>

\* main() has run the listener once before the client thread starts.
Init ==
    /\ cfg \in Configs
    /\ writerPc = "idle"
    /\ seen_cfg = cfg
    /\ config_gen = 1
    /\ config_change_sem = 1
    /\ session_fd = NoFd
    /\ owner = [f \in Fds |-> "free"]
    /\ sock = "none"
    /\ window = "open"
    /\ staReady = FALSE
    /\ pc = "top"
    /\ gen = 0
    /\ ccfg = cfg
    /\ fd = NoFd
    /\ connecting = FALSE

-----------------------------------------------------------------------------
(* The web thread. *)

\* bridge_config_set_tcp_client stores a new value and calls the listener.
SetTcpClient(c) ==
    /\ writerPc = "idle"
    /\ config_gen <= MaxChanges
    /\ c # cfg
    /\ cfg' = c
    /\ writerPc' = "notify"
    /\ UNCHANGED <<seen_cfg, config_gen, config_change_sem, session_fd, owner,
                   sock, envVars, pc, localVars, connecting>>

\* bridge_config_set_ais calls the same listener.
SetAis ==
    /\ writerPc = "idle"
    /\ writerPc' = "notify"
    /\ UNCHANGED <<cfg, seen_cfg, config_gen, config_change_sem, session_fd,
                   owner, sock, envVars, pc, localVars, connecting>>

\* zsock_shutdown(f, SHUT_RD) marks a connected socket EOF, nothing else.
Shutdown(f) == sock' = IF f = fd /\ sock = "connected" THEN "eof" ELSE sock

\* The body of tcp_nmea_client_config_changed: whether it sees a change, and
\* whether it ends the session.
React(changed, drop) ==
    /\ writerPc = "notify"
    /\ writerPc' = "idle"
    /\ seen_cfg' = cfg
    /\ IF changed
          THEN /\ config_gen' = config_gen + 1
               /\ config_change_sem' = 1
               /\ IF drop /\ session_fd # NoFd THEN Shutdown(session_fd)
                                              ELSE UNCHANGED sock
          ELSE UNCHANGED <<config_gen, config_change_sem, sock>>
    /\ UNCHANGED <<cfg, session_fd, owner, envVars, pc, localVars, connecting>>

\* Mutant: the session is forgotten.
NotifyNoDrop == React(seen_cfg # cfg, FALSE)
Notify == React(seen_cfg # cfg, TRUE)

WriterNext == (\E c \in Configs : SetTcpClient(c)) \/ SetAis \/ Notify

-----------------------------------------------------------------------------
(* Network, Wi-Fi and the other users of the descriptor table. *)

OtherOpen(f) ==
    /\ owner[f] = "free"
    /\ owner' = [owner EXCEPT ![f] = "other"]
    /\ UNCHANGED <<writerVars, config_change_sem, session_fd, sock, envVars, pc,
                   localVars, connecting>>

OtherClose(f) ==
    /\ owner[f] = "other"
    /\ owner' = [owner EXCEPT ![f] = "free"]
    /\ UNCHANGED <<writerVars, config_change_sem, session_fd, sock, envVars, pc,
                   localVars, connecting>>

PeerCloses ==
    /\ sock = "connected"
    /\ sock' = "eof"
    /\ UNCHANGED <<writerVars, config_change_sem, session_fd, owner, envVars, pc,
                   localVars, connecting>>

PeerWindow ==
    /\ window' \in {"open", "closed"} \ {window}
    /\ UNCHANGED <<writerVars, config_change_sem, session_fd, owner, sock,
                   staReady, pc, localVars, connecting>>

StaChanges ==
    /\ staReady' = ~staReady
    /\ UNCHANGED <<writerVars, config_change_sem, session_fd, owner, sock,
                   window, pc, localVars, connecting>>

EnvNext == (\E f \in Fds : OtherOpen(f) \/ OtherClose(f))
           \/ PeerCloses \/ PeerWindow \/ StaChanges

-----------------------------------------------------------------------------
(* client_thread *)

\* A step of the client that touches neither the semaphore nor a descriptor.
Local == UNCHANGED <<writerVars, config_change_sem, session_fd, owner, sock, envVars>>

ReadGen ==
    /\ pc = "top"
    /\ gen' = config_gen
    /\ pc' = "cfg"
    /\ Local /\ UNCHANGED <<ccfg, fd, connecting>>

ReadCfg ==
    /\ pc = "cfg"
    /\ ccfg' = cfg
    /\ pc' = IF cfg = Disabled THEN "disabled" ELSE "resolve"
    /\ connecting' = (connecting /\ cfg # Disabled)
    /\ Local /\ UNCHANGED <<gen, fd>>

\* k_sem_take(.., K_FOREVER) while disabled
WakeDisabled ==
    /\ pc = "disabled"
    /\ config_change_sem = 1
    /\ config_change_sem' = 0
    /\ pc' = "top"
    /\ UNCHANGED <<writerVars, session_fd, owner, sock, envVars, localVars, connecting>>

ResolveHost ==
    /\ pc = "resolve"
    /\ pc' = IF staReady THEN "socket" ELSE "resolve_wait"
    /\ connecting' = staReady
    /\ Local /\ UNCHANGED localVars

\* wait_or_config_change(2 s) and the comparison of the generations
ResolveWait ==
    /\ pc = "resolve_wait"
    /\ config_change_sem' = 0
    /\ pc' = IF config_gen # gen THEN "top" ELSE "resolve"
    /\ UNCHANGED <<writerVars, session_fd, owner, sock, envVars, localVars, connecting>>

OpenSocket ==
    /\ pc = "socket"
    /\ \E f \in Fds :
          /\ owner[f] = "free"
          /\ owner' = [owner EXCEPT ![f] = "client"]
          /\ fd' = f
    /\ sock' = "unconnected"
    /\ pc' = "register"
    /\ UNCHANGED <<writerVars, config_change_sem, session_fd, envVars, gen, ccfg,
                   connecting>>

OpenSocketFails ==
    /\ pc = "socket"
    /\ \A f \in Fds : owner[f] # "free"
    /\ pc' = "backoff"
    /\ Local /\ UNCHANGED <<localVars, connecting>>

RegisterFd ==
    /\ pc = "register"
    /\ session_fd' = fd
    /\ pc' = "check"
    /\ UNCHANGED <<writerVars, config_change_sem, owner, sock, envVars, localVars,
                   connecting>>

\* Mutant: an attempt that a change overtook goes on.
NeverStale == FALSE
Stale == config_gen # gen

CheckBeforeConnect ==
    /\ pc = "check"
    /\ pc' = IF Stale THEN "abandon" ELSE "connect"
    /\ Local /\ UNCHANGED <<localVars, connecting>>

\* Mutant: closes the descriptor and leaves it registered.
CloseRegistered ==
    /\ owner' = [owner EXCEPT ![fd] = "free"]
    /\ sock' = "none"
    /\ fd' = NoFd
    /\ UNCHANGED session_fd

\* Mutant: unregisters the descriptor and does not close it.
ForgetFd ==
    /\ session_fd' = NoFd
    /\ sock' = "none"
    /\ fd' = NoFd
    /\ UNCHANGED owner

\* session_fd = -1; zsock_close(fd), under session_fd_lock
UnregisterAndClose ==
    /\ session_fd' = NoFd
    /\ owner' = [owner EXCEPT ![fd] = "free"]
    /\ sock' = "none"
    /\ fd' = NoFd

AbandonAttempt ==
    /\ pc = "abandon"
    /\ UnregisterAndClose
    /\ pc' = "top"
    /\ UNCHANGED <<writerVars, config_change_sem, envVars, gen, ccfg, connecting>>

\* zsock_connect blocks; SHUT_RD has no effect until it has succeeded.
Connected ==
    /\ pc = "connect"
    /\ sock' = "connected"
    /\ pc' = "recheck"
    /\ UNCHANGED <<writerVars, config_change_sem, session_fd, owner, envVars,
                   localVars, connecting>>

ConnectFails ==
    /\ pc = "connect"
    /\ UnregisterAndClose
    /\ pc' = "backoff"
    /\ UNCHANGED <<writerVars, config_change_sem, envVars, gen, ccfg, connecting>>

\* The change may have fired while the socket was not connected yet.
RecheckConnected ==
    /\ pc = "recheck"
    /\ IF Stale THEN Shutdown(fd) ELSE UNCHANGED sock
    /\ connecting' = FALSE
    /\ pc' = "drain"
    /\ UNCHANGED <<writerVars, config_change_sem, session_fd, owner, envVars,
                   localVars>>

(* tcp_nmea_session_run, as far as the socket is concerned. *)

\* drain_socket_rx: the session goes on unless the socket is at EOF.
SessionDrain ==
    /\ pc = "drain"
    /\ pc' = IF sock = "eof" THEN "ended" ELSE "take"
    /\ Local /\ UNCHANGED <<localVars, connecting>>

\* nmea_bridge_sink_take returns a frame, or nothing within 250 ms.
SessionTake ==
    /\ pc = "take"
    /\ pc' \in {"sending", "drain"}
    /\ Local /\ UNCHANGED <<localVars, connecting>>

\* send_all retries every 10 ms for as long as the socket takes no data.
SendDone ==
    /\ pc = "sending"
    /\ window = "open"
    /\ pc' = "drain"
    /\ Local /\ UNCHANGED <<localVars, connecting>>

SendFails ==
    /\ pc = "sending"
    /\ pc' = "ended"
    /\ Local /\ UNCHANGED <<localVars, connecting>>

EndSession ==
    /\ pc = "ended"
    /\ UnregisterAndClose
    /\ connecting' = TRUE
    /\ pc' = "backoff"
    /\ UNCHANGED <<writerVars, config_change_sem, envVars, gen, ccfg>>

\* wait_or_config_change(backoff_s)
Backoff ==
    /\ pc = "backoff"
    /\ config_change_sem' = 0
    /\ pc' = "top"
    /\ UNCHANGED <<writerVars, session_fd, owner, sock, envVars, localVars, connecting>>

ConnectNext == Connected \/ ConnectFails
ClientStep == \/ ReadGen \/ ReadCfg \/ WakeDisabled \/ ResolveHost \/ ResolveWait
              \/ OpenSocket \/ OpenSocketFails \/ RegisterFd \/ CheckBeforeConnect
              \/ AbandonAttempt \/ ConnectNext \/ RecheckConnected
              \/ SessionDrain \/ SessionTake \/ SendDone \/ EndSession \/ Backoff

Next == WriterNext \/ EnvNext \/ ClientStep \/ SendFails

Spec == Init /\ [][Next]_vars

\* The client thread runs whenever it can, a blocking connect returns (it has a
\* timeout), the retry of send_all sees a window that keeps opening, and the web
\* thread finishes a listener it has started.  Nothing is assumed of the peer.
Fairness == WF_vars(ClientStep) /\ SF_vars(SendDone) /\ WF_vars(Notify)

\* In addition, a peer that stops reading resumes.
PeerFairness == WF_vars(PeerWindow /\ window = "closed")

StallSpec == Spec /\ Fairness
FairSpec == Spec /\ Fairness /\ PeerFairness

-----------------------------------------------------------------------------
(* Properties. *)

PcSet == {"top", "cfg", "disabled", "resolve", "resolve_wait", "socket",
          "register", "check", "abandon", "connect", "recheck", "drain", "take",
          "sending", "ended", "backoff"}

\* "session_fd is only touched under session_fd_lock so the shutdown can never
\* hit a closed (and possibly reused) fd" (tcp_nmea_client.c).
ShutdownHitsOwnSocket ==
    session_fd # NoFd => session_fd = fd /\ owner[session_fd] = "client"

HoldsFd == pc \in {"register", "check", "abandon", "connect", "recheck", "drain",
                   "take", "sending", "ended"}

\* Whichever way an attempt ends, its descriptor is closed: the client owns the
\* one descriptor of its current attempt and none between two attempts.
NoFdLeak == {f \in Fds : owner[f] = "client"} = IF HoldsFd THEN {fd} ELSE {}

InSession == pc \in {"drain", "take", "sending"}

\* A session that was set up for an outdated configuration is already doomed:
\* the listener is still due, or the socket is at EOF.
StaleSessionDoomed ==
    InSession /\ ccfg # cfg => writerPc = "notify" \/ sock = "eof"

\* A saved change takes effect without a reboot: once the configuration stays
\* as it is, the client works with it from some point on.
LiveApply == \A c \in Configs : <>[](cfg = c) => <>[](ccfg = c)

=============================================================================
