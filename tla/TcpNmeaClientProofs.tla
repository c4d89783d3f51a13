------------------------- MODULE TcpNmeaClientProofs -------------------------
(***************************************************************************)
(* Proofs about the TCP NMEA client for any sets of servers and            *)
(* descriptors and any number of configuration changes.                    *)
(*                                                                         *)
(* ClientInv joins two arguments.  FdInv follows the descriptor: it is     *)
(* registered only while it is the one the current attempt owns.  GenInv   *)
(* follows the configuration: as long as the generation the client read is *)
(* the current one, the configuration it read after it is the one in force *)
(* or the one the pending listener is about to retire; and once a session  *)
(* runs, an outdated generation has put its socket at EOF.                 *)
(*                                                                         *)
(* The second half is about the status LED (StatusLed), for any width of   *)
(* the clock, any delays and any number of counted failures.               *)
(***************************************************************************)
EXTENDS TcpNmeaClient, StatusLed, WellFoundedInduction, TLAPS

\* Where the descriptor is registered in session_fd
Registered == HoldsFd /\ pc # "register"

FdTypes ==
    /\ pc \in PcSet
    /\ owner \in [Fds -> {"free", "client", "other"}]
    /\ fd \in Fds \cup {NoFd}

FdInv ==
    /\ FdTypes
    /\ HoldsFd => fd \in Fds /\ owner[fd] = "client"
    /\ ~HoldsFd => fd = NoFd
    /\ \A f \in Fds : owner[f] = "client" => HoldsFd /\ f = fd
    /\ session_fd = IF Registered THEN fd ELSE NoFd

GenInv ==
    /\ config_gen \in Nat /\ gen \in Nat /\ gen <= config_gen
    /\ writerPc \in {"idle", "notify"}
    /\ writerPc = "idle" => seen_cfg = cfg
    /\ pc \notin {"top", "cfg"} /\ gen = config_gen => ccfg \in {seen_cfg, cfg}
    /\ pc = "recheck" => sock \in {"connected", "eof"}
    /\ InSession => sock \in {"connected", "eof"}
    /\ InSession /\ gen # config_gen => sock = "eof"

ClientInv == FdInv /\ GenInv

\* The client starts without a socket, before its first read.
LEMMA InitClientInv == Init => ClientInv
  BY ClientAssumption
  DEF Init, ClientInv, FdInv, FdTypes, GenInv, Registered, HoldsFd, InSession, PcSet

\* The descriptor is followed through the loop, whatever other threads open and close.
LEMMA NextFdInv == FdInv /\ [Next]_vars => FdInv'
<1>1. SUFFICES ASSUME FdInv, [Next]_vars
               PROVE  FdInv'
  OBVIOUS
<1> USE ClientAssumption DEF FdInv, FdTypes, Registered, HoldsFd, PcSet
<1>2. CASE WriterNext
  BY <1>1, <1>2 DEF WriterNext, SetTcpClient, SetAis, Notify, React, localVars
<1>3. ASSUME NEW f \in Fds, OtherOpen(f) \/ OtherClose(f)
      PROVE  FdInv'
  BY <1>1, <1>3 DEF OtherOpen, OtherClose, localVars
<1>4. CASE PeerCloses \/ PeerWindow \/ StaChanges
  BY <1>1, <1>4 DEF PeerCloses, PeerWindow, StaChanges, localVars
<1>5. CASE \/ ReadGen \/ ReadCfg \/ WakeDisabled \/ ResolveHost \/ ResolveWait
           \/ OpenSocketFails \/ Backoff
  BY <1>1, <1>5 DEF ReadGen, ReadCfg, WakeDisabled, ResolveHost, ResolveWait,
                    OpenSocketFails, Backoff, Local, localVars
<1>6. CASE OpenSocket
  BY <1>1, <1>6 DEF OpenSocket
<1>7. CASE RegisterFd
  BY <1>1, <1>7 DEF RegisterFd, localVars
<1>8. CASE \/ CheckBeforeConnect \/ Connected \/ RecheckConnected
           \/ SessionDrain \/ SessionTake \/ SendDone \/ SendFails
  BY <1>1, <1>8 DEF CheckBeforeConnect, Connected, RecheckConnected, SessionDrain,
                    SessionTake, SendDone, SendFails, Local, localVars
<1>9. CASE AbandonAttempt \/ ConnectFails \/ EndSession
  BY <1>1, <1>9 DEF AbandonAttempt, ConnectFails, EndSession, UnregisterAndClose
<1>10. CASE UNCHANGED vars
  BY <1>1, <1>10 DEF vars, localVars
<1> QED
  BY <1>1, <1>2, <1>3, <1>4, <1>5, <1>6, <1>7, <1>8, <1>9, <1>10
  DEF Next, EnvNext, ClientStep, ConnectNext

\* The configuration in hand is the current one, or the listener is due.
LEMMA NextGenInv == ClientInv /\ [Next]_vars => GenInv'
<1>1. SUFFICES ASSUME FdInv, GenInv, [Next]_vars
               PROVE  GenInv'
  BY DEF ClientInv
<1> USE DEF GenInv, InSession
<1>2. ASSUME NEW c \in Configs, SetTcpClient(c)
      PROVE  GenInv'
  BY <1>1, <1>2 DEF SetTcpClient, localVars
<1>3. CASE SetAis
  BY <1>1, <1>3 DEF SetAis, localVars
<1>4. CASE Notify
  <2>1. InSession => session_fd = fd /\ fd # NoFd
    BY <1>1, ClientAssumption DEF FdInv, Registered, HoldsFd
  <2>2. CASE seen_cfg = cfg
    BY <1>1, <1>4, <2>2 DEF Notify, React, localVars
  <2>3. CASE seen_cfg # cfg
    BY <1>1, <1>4, <2>1, <2>3 DEF Notify, React, Shutdown, localVars
  <2> QED
    BY <2>2, <2>3
<1>5. ASSUME NEW f \in Fds, OtherOpen(f) \/ OtherClose(f)
      PROVE  GenInv'
  BY <1>1, <1>5 DEF OtherOpen, OtherClose, writerVars, localVars
<1>6. CASE PeerCloses \/ PeerWindow \/ StaChanges
  BY <1>1, <1>6 DEF PeerCloses, PeerWindow, StaChanges, writerVars, localVars
<1>7. CASE \/ ReadGen \/ ReadCfg \/ WakeDisabled \/ ResolveHost \/ ResolveWait
           \/ OpenSocketFails \/ Backoff
  BY <1>1, <1>7 DEF ReadGen, ReadCfg, WakeDisabled, ResolveHost, ResolveWait,
                    OpenSocketFails, Backoff, Local, writerVars, localVars
<1>8. CASE OpenSocket \/ RegisterFd \/ CheckBeforeConnect \/ Connected
  BY <1>1, <1>8 DEF OpenSocket, RegisterFd, CheckBeforeConnect, Connected, Local,
                    writerVars, localVars
<1>9. CASE RecheckConnected
  BY <1>1, <1>9 DEF RecheckConnected, Stale, Shutdown, writerVars, localVars
<1>10. CASE SessionDrain \/ SessionTake \/ SendDone \/ SendFails
  BY <1>1, <1>10 DEF SessionDrain, SessionTake, SendDone, SendFails, Local,
                     writerVars, localVars
<1>11. CASE AbandonAttempt \/ ConnectFails \/ EndSession
  BY <1>1, <1>11 DEF AbandonAttempt, ConnectFails, EndSession, UnregisterAndClose,
                     writerVars
<1>12. CASE UNCHANGED vars
  BY <1>1, <1>12 DEF vars, writerVars, localVars
<1> QED
  BY <1>1, <1>2, <1>3, <1>4, <1>5, <1>6, <1>7, <1>8, <1>9, <1>10, <1>11, <1>12
  DEF Next, WriterNext, EnvNext, ClientStep, ConnectNext

\* Both parts hold in every reachable state.
LEMMA ClientInductive == Spec => []ClientInv
<1>1. ClientInv /\ [Next]_vars => ClientInv'
  BY NextFdInv, NextGenInv DEF ClientInv
<1> QED
  BY InitClientInv, <1>1, PTL DEF Spec

\* The shutdown that tcp_nmea_client_config_changed sends reaches the socket of
\* the current attempt, never a descriptor somebody else has reopened.
THEOREM ShutdownSafe == Spec => []ShutdownHitsOwnSocket
<1>1. ClientInv => ShutdownHitsOwnSocket
  BY ClientAssumption
  DEF ClientInv, FdInv, FdTypes, Registered, ShutdownHitsOwnSocket, HoldsFd
<1> QED
  BY ClientInductive, <1>1, PTL

\* client_thread closes the descriptor of every attempt, whichever way it ends.
THEOREM NoDescriptorLeak == Spec => []NoFdLeak
<1>1. ClientInv => NoFdLeak
  BY DEF ClientInv, FdInv, FdTypes, NoFdLeak, HoldsFd
<1> QED
  BY ClientInductive, <1>1, PTL

\* A session set up for an outdated configuration is about to be ended: the two
\* generation checks and the listener leave no gap between them.
THEOREM StaleSessionsEnd == Spec => []StaleSessionDoomed
<1>1. ClientInv => StaleSessionDoomed
  BY DEF ClientInv, GenInv, StaleSessionDoomed, InSession
<1> QED
  BY ClientInductive, <1>1, PTL

-----------------------------------------------------------------------------
(* The status LED, to which the client and the sessions report.  FlashInv   *)
(* follows a flash: while less than half the range of the clock has passed  *)
(* since the last report of its kind, its deadline is Flash ticks after     *)
(* that report, the wrap of the clock included (UntilKnown).  BackoffInv    *)
(* follows a failed update: what is left of the delay and what has passed   *)
(* since its clock reading make up the delay (BackoffRuns), and a thread    *)
(* that may retry read the clock when all of it had passed (RetryEarned).   *)

Half == Wrap \div 2
Times == 0 .. Wrap - 1

\* How many ticks ago it was t, the clock having wrapped at most once since
Ago(t) == IF elapsed >= t THEN elapsed - t ELSE elapsed - t + Wrap

LedTypes ==
    /\ elapsed \in Times /\ seen \in Times
    /\ report \in {None} \cup (Kinds \X Times)
    /\ active \in [Kinds -> BOOLEAN]
    /\ until \in [Kinds -> Times]
    /\ age \in [Kinds -> 0 .. Half]
    /\ ledPc \in {"sleep", "render"}

\* Both threads are preempted for at most MaxLag ticks after they read the clock.
LagBounded ==
    /\ ledPc = "render" => Ago(seen) <= MaxLag
    /\ report # None => Ago(report[2]) <= MaxLag /\ age[report[1]] = Ago(report[2])

\* t is the time n ticks after the present.
IsAfter(t, n) == t \in {elapsed + n, elapsed + n - Wrap, elapsed + n + Wrap}

UntilKnown ==
    \A k \in Kinds :
        active[k] /\ age[k] < Half /\ report[1] # k => IsAfter(until[k], Flash - age[k])

FlashInv == LedTypes /\ LagBounded /\ UntilKnown

RetryTypes ==
    /\ retryIn \in Nat /\ sinceTry \in 0 .. TryMax
    /\ failed_attempts \in 0 .. AttemptMax

BackoffRuns ==
    failed_attempts > 0 => sinceTry + retryIn >= RetryDelay(failed_attempts)

RetryEarned ==
    ledPc = "render" /\ mayRetry /\ failed_attempts > 0
        => sinceTry - Ago(seen) >= RetryDelay(failed_attempts)

BackoffInv == RetryTypes /\ BackoffRuns /\ RetryEarned

\* The clock, in ticks
LEMMA LedNumbers ==
    /\ Wrap \in Nat \ {0} /\ Flash \in Nat \ {0} /\ MaxLag \in Nat \ {0}
    /\ Half \in Nat /\ Wrap = Half + Half /\ Flash + MaxLag < Half
<1>1. /\ Wrap \in Nat \ {0} /\ Flash \in Nat \ {0} /\ MaxLag \in Nat \ {0}
      /\ Wrap % 2 = 0 /\ Flash + MaxLag < Wrap \div 2
  BY LedAssumption
<1>2. Wrap \div 2 \in Nat /\ Wrap = (Wrap \div 2) + (Wrap \div 2)
  BY <1>1
<1> QED BY <1>1, <1>2 DEF Half

\* The delays of the backoff
LEMMA RetryNumbers ==
    RetryInitial \in Nat \ {0} /\ RetryMax \in Nat \ {0} /\ AttemptMax \in Nat \ {0}
  BY LedAssumption

\* What the remainder is within one range of the clock
LEMMA ModWithin ==
    ASSUME NEW w \in Nat \ {0}, NEW x \in Int
    PROVE  /\ 0 <= x /\ x < w => x % w = x
           /\ w <= x /\ x < w + w => x % w = x - w
           /\ -w <= x /\ x < 0 => x % w = x + w
<1>1. 0 <= x /\ x < w => x % w = x
  OBVIOUS
<1>2. w <= x /\ x < w + w => x % w = x - w
  OBVIOUS
<1>3. -w <= x /\ x < 0 => x % w = x + w
  OBVIOUS
<1> QED BY <1>1, <1>2, <1>3

\* Lag is Ago for every time the clock can show.
LEMMA LagIsAgo ==
    ASSUME NEW t \in Times, elapsed \in Times
    PROVE  Lag(t) = Ago(t) /\ Ago(t) \in 0 .. Wrap - 1
<1>1. Wrap \in Nat \ {0} /\ elapsed \in 0 .. Wrap - 1 /\ t \in 0 .. Wrap - 1
  BY LedNumbers DEF Times
<1>2. elapsed - t \in Int /\ -Wrap <= elapsed - t /\ elapsed - t < Wrap
  BY <1>1
<1>3. Lag(t) = (elapsed - t) % Wrap
  BY DEF Lag
<1>4. CASE elapsed >= t
  <2>1. 0 <= elapsed - t
    BY <1>1, <1>4
  <2>2. (elapsed - t) % Wrap = elapsed - t
    BY <1>1, <1>2, <2>1, ModWithin
  <2> QED BY <1>1, <1>3, <1>4, <2>2 DEF Ago
<1>5. CASE ~(elapsed >= t)
  <2>1. elapsed - t < 0
    BY <1>1, <1>5
  <2>2. (elapsed - t) % Wrap = elapsed - t + Wrap
    BY <1>1, <1>2, <2>1, ModWithin
  <2> QED BY <1>1, <1>3, <1>5, <2>2 DEF Ago
<1> QED BY <1>4, <1>5

\* A tick moves the clock on by one, over its wrap too.
LEMMA ClockMoves ==
    ASSUME elapsed \in Times, elapsed' = (elapsed + 1) % Wrap
    PROVE  /\ elapsed' \in Times
           /\ elapsed' = IF elapsed = Wrap - 1 THEN 0 ELSE elapsed + 1
<1> DEFINE x == elapsed + 1
<1>0. Wrap \in Nat \ {0} /\ elapsed \in 0 .. Wrap - 1
  BY LedNumbers DEF Times
<1>1. x \in Int /\ 0 <= x /\ x <= Wrap /\ (x = Wrap <=> elapsed = Wrap - 1)
  BY <1>0
<1>2. elapsed' = x % Wrap
  OBVIOUS
<1> HIDE DEF x
<1>3. CASE x = Wrap
  <2>1. x % Wrap = x - Wrap
    BY <1>0, <1>1, <1>3, ModWithin
  <2>2. elapsed' = 0
    BY <1>0, <1>1, <1>2, <1>3, <2>1
  <2> QED BY <1>0, <1>1, <1>3, <2>2 DEF Times
<1>4. CASE x # Wrap
  <2>1. x < Wrap
    BY <1>0, <1>1, <1>4
  <2>2. x % Wrap = x
    BY <1>0, <1>1, <2>1, ModWithin
  <2>3. elapsed' = x /\ elapsed' \in 0 .. Wrap - 1
    BY <1>0, <1>1, <1>2, <2>1, <2>2
  <2> QED BY <1>0, <1>1, <1>4, <2>3 DEF Times, x
<1> QED BY <1>3, <1>4

\* What was less than MaxLag ticks ago is one tick older after a tick.
LEMMA AgoMoves ==
    ASSUME elapsed \in Times, elapsed' = (elapsed + 1) % Wrap,
           NEW t \in Times, Lag(t) < MaxLag
    PROVE  Ago(t)' = Ago(t) + 1 /\ Ago(t) < MaxLag /\ Ago(t) \in Nat
<1>1. /\ Wrap \in Nat \ {0} /\ MaxLag \in Nat /\ MaxLag < Wrap /\ elapsed \in 0 .. Wrap - 1
      /\ t \in 0 .. Wrap - 1
  BY LedNumbers DEF Times
<1>2. Ago(t) < MaxLag /\ Ago(t) \in 0 .. Wrap - 1
  BY LagIsAgo
<1>3. elapsed' = IF elapsed = Wrap - 1 THEN 0 ELSE elapsed + 1
  BY ClockMoves
<1>4. Ago(t)' = Ago(t) + 1
  BY <1>1, <1>2, <1>3 DEF Ago
<1> QED BY <1>2, <1>4

\* Time passes.
LEMMA TickKeepsFlash == ASSUME FlashInv, Tick PROVE FlashInv'
<1>1. /\ UNCHANGED <<active, until, report, ledPc, seen>>
      /\ elapsed' = (elapsed + 1) % Wrap
      /\ age' = [k \in Kinds |-> Inc(age[k], Half)]
      /\ ledPc = "render" => Lag(seen) < MaxLag
      /\ report # None => Lag(report[2]) < MaxLag
  BY DEF Tick, policy, Half
<1>2. /\ elapsed \in Times /\ seen \in Times /\ age \in [Kinds -> 0 .. Half]
      /\ until \in [Kinds -> Times]
      /\ report # None => report[1] \in Kinds /\ report[2] \in Times
  BY DEF FlashInv, LedTypes
<1>3. /\ Wrap \in Nat \ {0} /\ Half \in Nat /\ Wrap = Half + Half /\ Flash \in Nat
      /\ MaxLag \in Nat /\ MaxLag < Half /\ Flash < Half
  BY LedNumbers
<1>4. elapsed' \in Times /\ elapsed' = IF elapsed = Wrap - 1 THEN 0 ELSE elapsed + 1
  BY <1>1, <1>2, ClockMoves
<1>5. \A k \in Kinds : /\ age[k] \in 0 .. Half
                           /\ age'[k] = IF age[k] < Half THEN age[k] + 1 ELSE Half
  BY <1>1, <1>2 DEF Inc
<1>6. LedTypes'
  <2>1. age' \in [Kinds -> 0 .. Half]
    BY <1>1, <1>3, <1>5
  <2> QED BY <1>1, <1>4, <2>1 DEF FlashInv, LedTypes, Times, Half
<1>7. LagBounded'
  <2>1. ledPc' = "render" => Ago(seen)' <= MaxLag
    <3> SUFFICES ASSUME ledPc = "render" PROVE Ago(seen)' <= MaxLag
      BY <1>1
    <3>1. Ago(seen)' = Ago(seen) + 1 /\ Ago(seen) < MaxLag /\ Ago(seen) \in Nat
      <4>1. Lag(seen) < MaxLag
        BY <1>1
      <4>2. (IF elapsed' >= seen THEN elapsed' - seen ELSE elapsed' - seen + Wrap)
              = Ago(seen) + 1
        BY <1>1, <1>2, <4>1, AgoMoves DEF Ago
      <4> QED BY <1>1, <1>2, <4>1, <4>2, AgoMoves DEF Ago
    <3> QED BY <1>3, <3>1
  <2>2. report' # None => /\ Ago(report[2])' <= MaxLag
                              /\ age'[report'[1]] = Ago(report[2])'
    <3> SUFFICES ASSUME report # None
                 PROVE  Ago(report[2])' <= MaxLag /\ age'[report'[1]] = Ago(report[2])'
      BY <1>1
    <3>1. Ago(report[2])' = Ago(report[2]) + 1 /\ Ago(report[2]) < MaxLag
          /\ Ago(report[2]) \in Nat
      <4>1. Lag(report[2]) < MaxLag /\ report[2] \in Times
        BY <1>1, <1>2
      <4> QED BY <1>1, <1>2, <4>1, AgoMoves DEF Ago
    <3>2. age[report[1]] = Ago(report[2]) /\ report[1] \in Kinds
      BY <1>2 DEF FlashInv, LagBounded
    <3>3. age'[report[1]] = age[report[1]] + 1
      BY <1>3, <1>5, <3>1, <3>2
    <3> QED BY <1>1, <1>3, <3>1, <3>2, <3>3
  <2> QED BY <2>1, <2>2 DEF LagBounded
<1>8. UntilKnown'
  <2> SUFFICES ASSUME NEW k \in Kinds, active'[k], age'[k] < Half, report'[1] # k
               PROVE  IsAfter(until[k], Flash - age[k])'
    BY DEF UntilKnown, Half
  <2>1. age'[k] = age[k] + 1 /\ age[k] \in Nat /\ age[k] < Half
    BY <1>3, <1>5
  <2>2. until[k] \in {elapsed + (Flash - age[k]), elapsed + (Flash - age[k]) - Wrap,
                      elapsed + (Flash - age[k]) + Wrap}
    BY <1>1, <2>1 DEF FlashInv, UntilKnown, IsAfter
  <2>3. until'[k] = until[k] /\ until[k] \in 0 .. Wrap - 1 /\ elapsed \in 0 .. Wrap - 1
    BY <1>1, <1>2 DEF Times
  <2>4. until'[k] \in {elapsed' + (Flash - age'[k]), elapsed' + (Flash - age'[k]) - Wrap,
                       elapsed' + (Flash - age'[k]) + Wrap}
    BY <1>3, <1>4, <2>1, <2>2, <2>3
  <2> QED BY <2>4 DEF IsAfter
<1> QED BY <1>6, <1>7, <1>8 DEF FlashInv

\* A reporter reads the clock.
LEMMA ReportReadKeeps ==
    ASSUME FlashInv, NEW k \in Kinds, ReportRead(k)
    PROVE  FlashInv'
<1>1. /\ report = None /\ report' = <<k, elapsed>> /\ age' = [age EXCEPT ![k] = 0]
      /\ UNCHANGED <<elapsed, active, until, ledPc, seen>>
  BY DEF ReportRead, policy, thread
<1>2. elapsed \in Times /\ age \in [Kinds -> 0 .. Half] /\ Half \in Nat /\ MaxLag \in Nat
      /\ Wrap \in Nat
  BY LedNumbers DEF FlashInv, LedTypes
<1>3. LedTypes'
  <2>1. age' \in [Kinds -> 0 .. Half]
    BY <1>1, <1>2
  <2>2. report' \in Kinds \X Times
    BY <1>1, <1>2
  <2> QED BY <1>1, <2>1, <2>2 DEF FlashInv, LedTypes, Times, Half
<1>4. LagBounded'
  <2>1. elapsed \in Int /\ Ago(elapsed) = 0
    BY <1>2 DEF Ago, Times
  <2>2. report'[1] = k /\ report'[2] = elapsed /\ age'[k] = 0
    BY <1>1, <1>2
  <2>3. Ago(report[2])' = 0
    BY <1>1, <2>1, <2>2 DEF Ago
  <2>4. Ago(seen)' = Ago(seen)
    BY <1>1 DEF Ago
  <2> QED BY <1>1, <1>2, <2>2, <2>3, <2>4 DEF FlashInv, LagBounded
<1>5. UntilKnown'
  <2> SUFFICES ASSUME NEW j \in Kinds, active'[j], age'[j] < Half, report'[1] # j
               PROVE  IsAfter(until[j], Flash - age[j])'
    BY DEF UntilKnown, Half
  <2>1. j # k /\ age'[j] = age[j]
    BY <1>1, <1>2
  <2>2. report[1] # j
    BY <1>1 DEF None, Kinds
  <2>3. IsAfter(until[j], Flash - age[j])
    BY <1>1, <2>1, <2>2 DEF FlashInv, UntilKnown
  <2> QED BY <1>1, <2>1, <2>3 DEF IsAfter
<1> QED BY <1>3, <1>4, <1>5 DEF FlashInv

\* A report is stored.
LEMMA ReportStoreKeeps ==
    ASSUME FlashInv, ReportStore PROVE FlashInv'
<1>1. /\ report # None /\ report' = None
      /\ active' = [active EXCEPT ![report[1]] = TRUE]
      /\ until' = [until EXCEPT ![report[1]] = (report[2] + Flash) % Wrap]
      /\ UNCHANGED <<elapsed, ledPc, seen, age>>
  BY DEF ReportStore, thread
<1>2. /\ elapsed \in 0 .. Wrap - 1 /\ age \in [Kinds -> 0 .. Half]
      /\ until \in [Kinds -> Times] /\ active \in [Kinds -> BOOLEAN]
      /\ report[1] \in Kinds /\ report[2] \in 0 .. Wrap - 1
  BY <1>1 DEF FlashInv, LedTypes, Times
<1>3. /\ Wrap \in Nat \ {0} /\ Half \in Nat /\ Wrap = Half + Half /\ Flash \in Nat
      /\ Flash < Half
  BY LedNumbers
<1> DEFINE x == report[2] + Flash
<1>4. x % Wrap \in {x, x - Wrap} /\ x % Wrap \in 0 .. Wrap - 1
  <2>1. x \in Int /\ 0 <= x /\ x < Wrap + Wrap
    BY <1>2, <1>3
  <2> HIDE DEF x
  <2>2. CASE x < Wrap
    <3>1. x % Wrap = x
      BY <1>3, <2>1, <2>2, ModWithin
    <3> QED BY <1>3, <2>1, <2>2, <3>1
  <2>3. CASE Wrap <= x
    <3>1. x % Wrap = x - Wrap
      BY <1>3, <2>1, <2>3, ModWithin
    <3> QED BY <1>3, <2>1, <2>3, <3>1
  <2>4. x < Wrap \/ Wrap <= x
    BY <1>3, <2>1
  <2> QED BY <2>2, <2>3, <2>4
<1>5. LedTypes'
  <2>1. until' \in [Kinds -> Times] /\ active' \in [Kinds -> BOOLEAN]
    BY <1>1, <1>2, <1>4 DEF Times
  <2> QED BY <1>1, <2>1 DEF FlashInv, LedTypes, Times, Half
<1>6. LagBounded'
  BY <1>1 DEF FlashInv, LagBounded, Ago
<1>7. UntilKnown'
  <2> SUFFICES ASSUME NEW k \in Kinds, active'[k], age'[k] < Half
               PROVE  IsAfter(until[k], Flash - age[k])'
    BY DEF UntilKnown, Half
  <2>1. CASE k = report[1]
    <3>1. until'[k] = (report[2] + Flash) % Wrap
      BY <1>1, <1>2, <2>1
    <3>2. age[k] = IF elapsed >= report[2] THEN elapsed - report[2]
                                           ELSE elapsed - report[2] + Wrap
      BY <1>1, <2>1 DEF FlashInv, LagBounded, Ago
    <3>3. until'[k] \in {elapsed + (Flash - age[k]), elapsed + (Flash - age[k]) - Wrap,
                         elapsed + (Flash - age[k]) + Wrap}
      BY <1>2, <1>3, <1>4, <3>1, <3>2
    <3> QED BY <1>1, <3>3 DEF IsAfter
  <2>2. CASE k # report[1]
    <3>1. until'[k] = until[k] /\ active[k]
      BY <1>1, <1>2, <2>2
    <3>2. IsAfter(until[k], Flash - age[k])
      BY <1>1, <2>2, <3>1 DEF FlashInv, UntilKnown
    <3> QED BY <1>1, <3>1, <3>2 DEF IsAfter
  <2> QED BY <2>1, <2>2
<1> QED BY <1>5, <1>6, <1>7 DEF FlashInv

\* The LED thread wakes up, renders and goes back to sleep.
LEMMA ThreadKeepsFlash ==
    ASSUME FlashInv, ThreadStep PROVE FlashInv'
<1>1. UNCHANGED <<elapsed, active, until, report, age>>
  BY DEF ThreadStep, WakeUp, NothingDue, UpdateSucceeds, UpdateFails,
         Others, policy
<1>2. \/ ledPc' = "render" /\ seen' = elapsed
      \/ ledPc' = "sleep" /\ seen' = 0
  BY DEF ThreadStep, WakeUp, NothingDue, UpdateSucceeds, UpdateFails,
         Sleep
<1>3. Wrap \in Nat \ {0} /\ MaxLag \in Nat /\ elapsed \in 0 .. Wrap - 1
  BY LedNumbers DEF FlashInv, LedTypes, Times
<1>4. seen' \in Times /\ ledPc' \in {"sleep", "render"}
  BY <1>2, <1>3 DEF Times
<1>5. LedTypes'
  BY <1>1, <1>4 DEF FlashInv, LedTypes, Times, Half
<1>6. ledPc' = "render" => Ago(seen)' <= MaxLag
  BY <1>1, <1>2, <1>3 DEF Ago
<1>7. LagBounded'
  BY <1>1, <1>6 DEF FlashInv, LagBounded, Ago
<1>8. UntilKnown'
  BY <1>1 DEF FlashInv, UntilKnown, IsAfter, Half
<1> QED BY <1>5, <1>7, <1>8 DEF FlashInv

\* Every step keeps what is known of the deadlines.
LEMMA FlashStep ==
    ASSUME FlashInv, [LedNext]_ledVars PROVE FlashInv'
<1>1. CASE UNCHANGED <<elapsed, active, until, report, age, ledPc, seen>>
  BY <1>1 DEF FlashInv, LedTypes, LagBounded, UntilKnown, IsAfter, Ago, Half, Times
<1>2. CASE SessionStarted \/ SessionEnded \/ ClientConnecting
           \/ UNCHANGED ledVars
  BY <1>1, <1>2 DEF SessionStarted, SessionEnded, ClientConnecting, ledVars,
                    policy, thread
<1>3. CASE \E k \in Reported \cap Kinds : ReportRead(k)
  BY <1>3, ReportReadKeeps
<1> QED BY <1>2, <1>3, ReportStoreKeeps, ThreadKeepsFlash, TickKeepsFlash
        DEF LedNext, Reports

\* What is on the strip after an update is a flash only while its deadline is ahead.
LEMMA RenderedFlash ==
    ASSUME NEW k \in Kinds, NEW now, Render(now) = <<k, 0>>
    PROVE  FlashActive(k, now)
<1>1. k \in {"error", "forwarded", "activity"}
  BY DEF Kinds
<1>2. RenderBase(now) # <<k, 0>>
  BY <1>1 DEF RenderBase, RenderConnecting, BaseState
<1>3. CASE FlashActive("error", now)
  BY <1>1, <1>3 DEF Render
<1>4. CASE ~FlashActive("error", now) /\ FlashActive("forwarded", now)
  BY <1>1, <1>4 DEF Render
<1>5. CASE /\ ~FlashActive("error", now) /\ ~FlashActive("forwarded", now)
           /\ FlashActive("activity", now)
  BY <1>1, <1>5 DEF Render
<1>6. CASE /\ ~FlashActive("error", now) /\ ~FlashActive("forwarded", now)
           /\ ~FlashActive("activity", now)
  BY <1>2, <1>6 DEF Render
<1> QED BY <1>3, <1>4, <1>5, <1>6

\* The deadline that is ahead lies less than Flash ticks after the time the thread
\* rendered with, which is at most MaxLag ticks old.
LEMMA ActiveIsRecent ==
    ASSUME FlashInv, ledPc = "render", NEW k \in Kinds,
           FlashActive(k, seen), age[k] < Half
    PROVE  age[k] < Flash + MaxLag
<1>1. /\ Wrap \in Nat \ {0} /\ Half \in Nat /\ Wrap = Half + Half /\ Flash \in Nat \ {0}
      /\ MaxLag \in Nat /\ Flash + MaxLag < Half
  BY LedNumbers
<1>2. /\ elapsed \in 0 .. Wrap - 1 /\ seen \in 0 .. Wrap - 1 /\ until[k] \in 0 .. Wrap - 1
      /\ age[k] \in 0 .. Half
  BY DEF FlashInv, LedTypes, Times
<1>3. active[k] /\ (seen - until[k]) % Wrap >= Half
  BY DEF FlashActive, Negative, Half
<1>4. CASE report # None /\ report[1] = k
  <2>1. age[k] = Ago(report[2]) /\ Ago(report[2]) <= MaxLag
    BY <1>4 DEF FlashInv, LagBounded
  <2>2. age[k] <= MaxLag
    BY <2>1
  <2> QED BY <1>1, <1>2, <2>2
<1>5. CASE ~(report # None /\ report[1] = k)
  <2>1. report[1] # k
    BY <1>5 DEF None, Kinds
  <2>2. until[k] \in {elapsed + (Flash - age[k]), elapsed + (Flash - age[k]) - Wrap,
                      elapsed + (Flash - age[k]) + Wrap}
    BY <1>3, <2>1 DEF FlashInv, UntilKnown, IsAfter
  <2>3. IF elapsed >= seen THEN elapsed - seen <= MaxLag ELSE elapsed - seen + Wrap <= MaxLag
    BY DEF FlashInv, LagBounded, Ago
  <2> DEFINE d == seen - until[k]
  <2>4. d \in Int /\ -Wrap <= d /\ d < Wrap
    BY <1>1, <1>2
  <2>5. CASE 0 <= d
    <3>1. d % Wrap = d
      <4> HIDE DEF d
      <4> QED BY <1>1, <2>4, <2>5, ModWithin
    <3>2. d >= Half
      BY <1>3, <3>1
    <3> QED BY <1>1, <1>2, <2>2, <2>3, <3>2
  <2>6. CASE d < 0
    <3>1. d % Wrap = d + Wrap
      <4> HIDE DEF d
      <4> QED BY <1>1, <2>4, <2>6, ModWithin
    <3>2. d + Wrap >= Half
      BY <1>3, <3>1
    <3> QED BY <1>1, <1>2, <2>2, <2>3, <2>6, <3>2
  <2> QED BY <2>4, <2>5, <2>6
<1> QED BY <1>4, <1>5

\* Only an update that succeeds changes what the strip shows.
LEMMA OnlyUpdateLights ==
    ASSUME [LedNext]_ledVars, lit' # lit
    PROVE  UpdateSucceeds
  BY DEF LedNext, ledVars, thread, Reports, SessionStarted, SessionEnded,
         ClientConnecting, ReportRead, ReportStore, ThreadStep, WakeUp,
         NothingDue, UpdateFails, Tick

\* Nothing is reported at the start.
LEMMA FlashInit == LedInit => FlashInv
<1> SUFFICES ASSUME LedInit PROVE FlashInv
  OBVIOUS
<1>1. Wrap \in Nat \ {0} /\ Half \in Nat
  BY LedNumbers
<1>2. /\ elapsed = 0 /\ seen = 0 /\ report = None /\ ledPc = "sleep"
      /\ active = [k \in Kinds |-> FALSE] /\ until = [k \in Kinds |-> 0]
      /\ age = [k \in Kinds |-> Half]
  BY DEF LedInit, Half
<1> QED BY <1>1, <1>2 DEF FlashInv, LedTypes, Times, LagBounded, UntilKnown

\* Whatever is reported and however the threads are preempted, the strip shows a flash
\* only shortly after a report of its kind, for every width of the clock and over its
\* wrap.
THEOREM FlashesAreRecent == LedSpec => FlashIsRecent
<1>1. LedInit => FlashInv
  BY FlashInit
<1>2. FlashInv /\ [LedNext]_ledVars => FlashInv'
  BY FlashStep
<1>3. FlashInv /\ [LedNext]_ledVars
        => [\A k \in Kinds : Flashing(k) /\ age[k] < Wrap \div 2
                                   => age[k] < Flash + MaxLag]_ledVars
  <2> SUFFICES ASSUME FlashInv, [LedNext]_ledVars, NEW k \in Kinds, Flashing(k),
                      age[k] < Half
               PROVE  age[k] < Flash + MaxLag
    BY DEF Half
  <2>1. UpdateSucceeds /\ lit' = <<k, 0>>
    BY OnlyUpdateLights DEF Flashing
  <2>2. ledPc = "render" /\ Render(seen) = <<k, 0>>
    BY <2>1 DEF UpdateSucceeds
  <2> QED BY <2>2, RenderedFlash, ActiveIsRecent
<1> QED BY <1>1, <1>2, <1>3, PTL DEF LedSpec, FlashIsRecent

-----------------------------------------------------------------------------
(* The backoff of the LED thread.  DelayAfter is defined by recursion: that *)
(* the recursion has a solution, and what its values are, is shown by       *)
(* induction over the number of rounds.                                     *)

\* The least-number principle, for sets
LEMMA LeastRound ==
    ASSUME NEW T, T \subseteq Nat, T # {} PROVE \E x \in T : \A y \in T : x <= y
<1> DEFINE R == OpToRel(<, Nat)
<1>1. PICK x \in T : \A y \in T : ~(<<y, x>> \in R)
  BY NatLessThanWellFounded, WFMin, Zenon
<1>2. \A y \in T : y < x => <<y, x>> \in R
  BY DEF OpToRel
<1> HIDE DEF R
<1>3. \A y \in T : ~(y < x)
  BY <1>1, <1>2
<1> QED BY <1>3

\* Induction over the rounds, for a set in place of a predicate
LEMMA RoundInduction ==
    ASSUME NEW G, 0 \in G, \A n \in Nat : n \in G => n + 1 \in G
    PROVE  Nat \subseteq G
<1> SUFFICES ASSUME NEW k \in Nat, k \notin G PROVE FALSE
  OBVIOUS
<1> DEFINE Bad == {n \in Nat : n \notin G}
<1>1. PICK n \in Bad : \A m \in Bad : n <= m
  <2>1. Bad \subseteq Nat /\ Bad # {}
    OBVIOUS
  <2> HIDE DEF Bad
  <2> QED BY <2>1, LeastRound
<1>2. n \in Nat /\ n # 0 /\ n - 1 \in Nat
  OBVIOUS
<1>3. n - 1 \in G
  BY <1>1, <1>2
<1>4. (n - 1) + 1 = n
  BY <1>2
<1> QED BY <1>2, <1>3, <1>4

\* One round of the loop of status_led_retry_delay_ms
Round(d) == IF d < RetryMax THEN 2 * d ELSE d

DelayEquation(h, n) ==
    h = [i \in 0 .. n |-> IF i = 0 THEN RetryInitial ELSE Round(h[i - 1])]

\* The recursion has a solution: longer and longer parts of it do.
LEMMA DelayExists ==
    ASSUME AttemptMax \in Nat PROVE DelayEquation(DelayAfter, AttemptMax)
<1> DEFINE Solved == {n \in Nat : \E h : DelayEquation(h, n)}
<1>1. 0 \in Solved
  <2> DEFINE h == [i \in 0 .. 0 |-> RetryInitial]
  <2>1. DelayEquation(h, 0)
    BY DEF DelayEquation
  <2> QED BY <2>1
<1>2. ASSUME NEW n \in Nat, n \in Solved PROVE n + 1 \in Solved
  <2>1. PICK h : DelayEquation(h, n)
    BY <1>2
  <2> DEFINE g == [i \in 0 .. n + 1 |-> IF i = 0 THEN RetryInitial ELSE Round(h[i - 1])]
  <2>2. \A i \in 0 .. n : g[i] = h[i]
    <3>1. \A i \in 0 .. n : h[i] = IF i = 0 THEN RetryInitial ELSE Round(h[i - 1])
      BY <2>1 DEF DelayEquation
    <3>2. \A i \in 0 .. n : i \in 0 .. n + 1
      OBVIOUS
    <3> QED BY <3>1, <3>2
  <2>3. \A i \in 0 .. n + 1 : i # 0 => g[i - 1] = h[i - 1]
    <3>1. \A i \in 0 .. n + 1 : i # 0 => i - 1 \in 0 .. n
      OBVIOUS
    <3> HIDE DEF g
    <3> QED BY <2>2, <3>1
  <2>4. DelayEquation(g, n + 1)
    BY <2>3 DEF DelayEquation
  <2>5. \E x : DelayEquation(x, n + 1)
    <3> HIDE DEF g
    <3> QED BY <2>4
  <2> QED BY <2>5
<1>3. Nat \subseteq Solved
  <2> HIDE DEF Solved
  <2> QED BY <1>1, <1>2, RoundInduction
<1>4. PICK h : DelayEquation(h, AttemptMax)
  BY <1>3
<1>5. DelayAfter = CHOOSE x : DelayEquation(x, AttemptMax)
  BY DEF DelayAfter, DelayEquation, Round
<1> QED BY <1>4, <1>5

\* Every round's delay is a number, and no round shortens it.
LEMMA DelayGrows ==
    ASSUME NEW n \in 0 .. AttemptMax
    PROVE  /\ DelayAfter[n] \in Nat
           /\ n > 0 => /\ DelayAfter[n - 1] \in Nat
                       /\ DelayAfter[n] = Round(DelayAfter[n - 1])
<1> DEFINE f == DelayAfter
           G == {i \in Nat : i <= AttemptMax => f[i] \in Nat}
<1>1. AttemptMax \in Nat /\ RetryInitial \in Nat /\ RetryMax \in Nat
  BY RetryNumbers
<1>2. f = [i \in 0 .. AttemptMax |-> IF i = 0 THEN RetryInitial ELSE Round(f[i - 1])]
  BY <1>1, DelayExists DEF DelayEquation
<1> HIDE DEF f
<1>3. f[0] = RetryInitial
  BY <1>1, <1>2
<1>4. \A i \in 1 .. AttemptMax : f[i] = Round(f[i - 1])
  BY <1>1, <1>2
<1>5. ASSUME NEW i \in Nat, i \in G PROVE i + 1 \in G
  <2> SUFFICES ASSUME i + 1 <= AttemptMax PROVE f[i + 1] \in Nat
    OBVIOUS
  <2>1. f[i] \in Nat
    BY <1>1, <1>5
  <2>2. f[i + 1] = Round(f[i])
    BY <1>1, <1>4
  <2> QED BY <1>1, <2>1, <2>2 DEF Round
<1>6. 0 \in G
  BY <1>1, <1>3
<1>7. Nat \subseteq G
  <2> HIDE DEF G
  <2> QED BY <1>5, <1>6, RoundInduction
<1>8. f[n] \in Nat
  BY <1>1, <1>7
<1>9. n > 0 => f[n - 1] \in Nat /\ f[n] = Round(f[n - 1])
  BY <1>1, <1>4, <1>7
<1> QED BY <1>8, <1>9 DEF f

\* The delay before a retry is bounded by STATUS_LED_RETRY_MAX_MS.
LEMMA RetryBounded ==
    ASSUME NEW n \in 1 .. AttemptMax
    PROVE  RetryDelay(n) \in 0 .. RetryMax
<1>1. AttemptMax \in Nat /\ RetryMax \in Nat
  BY RetryNumbers
<1>2. n - 1 \in 0 .. AttemptMax
  BY <1>1
<1>3. DelayAfter[n - 1] \in Nat
  BY <1>2, DelayGrows
<1> QED BY <1>1, <1>3 DEF RetryDelay

\* A further failure never shortens the delay: from the first failure to the last one
\* that uint8_t counts, the retries are spaced further and further apart, and never by
\* more than STATUS_LED_RETRY_MAX_MS.
THEOREM DelaysOnlyGrow ==
    ASSUME NEW n \in 1 .. AttemptMax - 1
    PROVE  /\ RetryDelay(n) <= RetryDelay(n + 1)
           /\ RetryDelay(n + 1) <= RetryMax
<1>1. AttemptMax \in Nat /\ RetryMax \in Nat
  BY RetryNumbers
<1>2. n \in 0 .. AttemptMax /\ n > 0 /\ n + 1 \in 1 .. AttemptMax
  BY <1>1
<1> DEFINE d == DelayAfter[n - 1]
           e == DelayAfter[n]
<1>3. d \in Nat /\ e \in Nat /\ e = Round(d)
  BY <1>2, DelayGrows
<1>4. (n + 1) - 1 = n
  BY <1>1
<1>5. /\ RetryDelay(n) = IF d > RetryMax THEN RetryMax ELSE d
      /\ RetryDelay(n + 1) = IF e > RetryMax THEN RetryMax ELSE e
  BY <1>4 DEF RetryDelay
<1> HIDE DEF d, e
<1> QED BY <1>1, <1>3, <1>5 DEF Round

\* Only the thread and the clock move the backoff.
LEMMA BackoffMoves ==
    ASSUME [LedNext]_ledVars
    PROVE  \/ WakeUp \/ NothingDue \/ UpdateSucceeds \/ UpdateFails \/ Tick
           \/ UNCHANGED <<elapsed, ledPc, seen, mayRetry, retryIn, failed_attempts, sinceTry>>
  BY DEF LedNext, ledVars, thread, Reports, SessionStarted, SessionEnded,
         ClientConnecting, ReportRead, ReportStore, ThreadStep

\* The delay that is left and the time since the clock was read, after a failure
LEMMA FailStarts ==
    ASSUME FlashInv, RetryTypes, UpdateFails
    PROVE  RetryTypes' /\ BackoffRuns'
<1> DEFINE n == NextAttempt
           d == RetryDelay(n)
           a == Ago(seen)
<1>1. /\ RetryMax \in Nat /\ AttemptMax \in Nat \ {0} /\ MaxLag \in Nat
      /\ TryMax = RetryMax + MaxLag
  BY RetryNumbers, LedNumbers DEF TryMax
<1>2. failed_attempts \in 0 .. AttemptMax
  BY DEF RetryTypes
<1>3. n \in 1 .. AttemptMax
  BY <1>1, <1>2 DEF NextAttempt
<1>4. Lag(seen) = a /\ a \in Nat /\ a <= MaxLag
  <2>1. seen \in Times /\ elapsed \in Times /\ a <= MaxLag
    BY DEF FlashInv, LedTypes, LagBounded, UpdateFails
  <2>2. Wrap \in Nat
    BY LedNumbers
  <2> HIDE DEF a
  <2>3. Lag(seen) = a /\ a \in 0 .. Wrap - 1
    BY <2>1, LagIsAgo DEF a
  <2> QED BY <2>1, <2>2, <2>3
<1>5. failed_attempts' = n /\ retryIn' = Less(d, Lag(seen)) /\ sinceTry' = Lag(seen)
  BY DEF UpdateFails
<1>6. RetryDelay(failed_attempts)' = d
  BY <1>5 DEF RetryDelay
<1> HIDE DEF n
<1>7. d \in 0 .. RetryMax
  BY <1>3, RetryBounded
<1> HIDE DEF d, a
<1>8. retryIn' \in Nat /\ sinceTry' \in 0 .. TryMax /\ sinceTry' + retryIn' >= d
  BY <1>1, <1>4, <1>5, <1>7 DEF Less
<1>9. RetryTypes'
  <2>1. failed_attempts' \in 0 .. AttemptMax
    BY <1>1, <1>3, <1>5
  <2> QED BY <1>8, <2>1 DEF RetryTypes, TryMax
<1>10. BackoffRuns'
  BY <1>6, <1>8 DEF BackoffRuns
<1> QED BY <1>9, <1>10

\* Time passes; what the thread has earned by its clock reading stays earned while the
\* reading grows old.
LEMMA TickKeepsBackoff == ASSUME FlashInv, BackoffInv, Tick PROVE BackoffInv'
<1> DEFINE d == RetryDelay(failed_attempts)
<1>1. /\ RetryMax \in Nat /\ AttemptMax \in Nat \ {0} /\ MaxLag \in Nat
      /\ TryMax = RetryMax + MaxLag /\ TryMax \in Nat
  BY RetryNumbers, LedNumbers DEF TryMax
<1>2. retryIn \in Nat /\ sinceTry \in 0 .. TryMax /\ failed_attempts \in 0 .. AttemptMax
  BY DEF BackoffInv, RetryTypes
<1>3. /\ failed_attempts' = failed_attempts /\ retryIn' = Dec(retryIn)
      /\ sinceTry' = Inc(sinceTry, TryMax)
      /\ UNCHANGED <<ledPc, seen, mayRetry>>
      /\ elapsed' = (elapsed + 1) % Wrap
      /\ ledPc = "render" => Lag(seen) < MaxLag
  BY DEF Tick
<1>4. /\ retryIn' = IF retryIn > 0 THEN retryIn - 1 ELSE 0
      /\ sinceTry' = IF sinceTry < TryMax THEN sinceTry + 1 ELSE TryMax
  BY <1>3 DEF Dec, Inc
<1>5. RetryDelay(failed_attempts)' = d
  BY <1>3 DEF RetryDelay
<1>6. failed_attempts > 0 => d \in 0 .. RetryMax
  BY <1>1, <1>2, RetryBounded
<1> HIDE DEF d
<1>7. RetryTypes'
  <2>1. retryIn' \in Nat /\ sinceTry' \in 0 .. TryMax
    BY <1>1, <1>2, <1>4
  <2> QED BY <1>2, <1>3, <2>1 DEF RetryTypes, TryMax
<1>8. BackoffRuns'
  <2>1. failed_attempts > 0 => sinceTry + retryIn >= d
    BY DEF BackoffInv, BackoffRuns, d
  <2>2. failed_attempts > 0 => sinceTry' + retryIn' >= d
    BY <1>1, <1>2, <1>4, <1>6, <2>1
  <2> QED BY <1>3, <1>5, <2>2 DEF BackoffRuns
<1>9. RetryEarned'
  <2> SUFFICES ASSUME ledPc = "render", mayRetry, failed_attempts > 0
               PROVE  sinceTry' - Ago(seen)' >= d
    BY <1>3, <1>5 DEF RetryEarned
  <2> DEFINE a == Ago(seen)
             b == IF elapsed' >= seen THEN elapsed' - seen ELSE elapsed' - seen + Wrap
  <2>1. elapsed \in Times /\ seen \in Times /\ Lag(seen) < MaxLag
    BY <1>3 DEF FlashInv, LedTypes
  <2>2. b = a + 1 /\ a < MaxLag /\ a \in Nat
    BY <1>3, <2>1, AgoMoves DEF Ago
  <2>3. Ago(seen)' = b
    BY <1>3 DEF Ago
  <2>4. sinceTry - a >= d
    BY DEF BackoffInv, RetryEarned, d
  <2> HIDE DEF a, b
  <2>5. sinceTry' - b >= d
    BY <1>1, <1>2, <1>4, <1>6, <2>2, <2>4
  <2> QED BY <2>3, <2>5
<1> QED BY <1>7, <1>8, <1>9 DEF BackoffInv

\* The thread reads the clock: it may retry when nothing of the delay is left.
LEMMA WakeEarns == ASSUME FlashInv, BackoffInv, WakeUp PROVE BackoffInv'
<1>1. UNCHANGED <<elapsed, retryIn, failed_attempts, sinceTry>>
  BY DEF WakeUp
<1>2. seen' = elapsed /\ (mayRetry' <=> retryIn = 0)
  BY DEF WakeUp, MayRetry
<1>3. RetryDelay(failed_attempts)' = RetryDelay(failed_attempts)
  BY <1>1 DEF RetryDelay
<1>4. RetryTypes' /\ BackoffRuns'
  BY <1>1, <1>3 DEF BackoffInv, RetryTypes, BackoffRuns, TryMax
<1>5. RetryEarned'
  <2> SUFFICES ASSUME mayRetry', failed_attempts > 0
               PROVE  sinceTry' - Ago(seen)' >= RetryDelay(failed_attempts)
    BY <1>1, <1>3 DEF RetryEarned
  <2>1. /\ retryIn = 0 /\ sinceTry \in 0 .. TryMax /\ TryMax \in Nat
        /\ sinceTry + retryIn >= RetryDelay(failed_attempts)
    BY <1>2, RetryNumbers, LedNumbers DEF BackoffInv, BackoffRuns, RetryTypes, TryMax
  <2>2. elapsed \in Nat
    BY LedNumbers DEF FlashInv, LedTypes, Times
  <2>3. Ago(seen)' = 0
    BY <1>1, <1>2, <2>2 DEF Ago
  <2>4. sinceTry - 0 = sinceTry + retryIn
    BY <2>1
  <2> QED BY <1>1, <2>1, <2>3, <2>4
<1> QED BY <1>4, <1>5 DEF BackoffInv

\* Every step keeps account of the delay that is left.
LEMMA BackoffStep ==
    ASSUME FlashInv, BackoffInv, [LedNext]_ledVars PROVE BackoffInv'
<1>1. CASE NothingDue \/ UpdateSucceeds \/ UpdateFails
  <2>1. ledPc' = "sleep"
    BY <1>1 DEF NothingDue, UpdateSucceeds, UpdateFails, Sleep
  <2>2. RetryEarned'
    BY <2>1 DEF RetryEarned
  <2>3. CASE NothingDue
    <3>1. UNCHANGED <<retryIn, failed_attempts, sinceTry>>
      BY <2>3 DEF NothingDue
    <3>2. RetryDelay(failed_attempts)' = RetryDelay(failed_attempts)
      BY <3>1 DEF RetryDelay
    <3> QED BY <2>2, <3>1, <3>2 DEF BackoffInv, RetryTypes, BackoffRuns, TryMax
  <2>4. CASE UpdateSucceeds
    <3>1. failed_attempts' = 0 /\ retryIn' = 0 /\ sinceTry' = TryMax
      BY <2>4 DEF UpdateSucceeds
    <3> QED BY <2>2, <3>1, RetryNumbers, LedNumbers DEF BackoffInv, RetryTypes, BackoffRuns, TryMax
  <2>5. CASE UpdateFails
    BY <2>2, <2>5, FailStarts DEF BackoffInv
  <2> QED BY <1>1, <2>3, <2>4, <2>5
<1>2. CASE UNCHANGED <<elapsed, ledPc, seen, mayRetry, retryIn, failed_attempts, sinceTry>>
  <2>1. RetryDelay(failed_attempts)' = RetryDelay(failed_attempts) /\ Ago(seen)' = Ago(seen)
    BY <1>2 DEF RetryDelay, Ago
  <2> QED BY <1>2, <2>1 DEF BackoffInv, RetryTypes, BackoffRuns, RetryEarned, TryMax
<1> QED BY <1>1, <1>2, BackoffMoves, WakeEarns, TickKeepsBackoff

\* For every pair of delays and every number of failures that uint8_t counts, the clock
\* readings of a failed update of the strip and of the next one are its backoff apart.
THEOREM BackoffIsKept == LedSpec => BackoffKept
<1> DEFINE Waited == failed_attempts = 0 \/ sinceTry - Lag(seen) >= RetryDelay(failed_attempts)
<1>1. LedInit => BackoffInv
  <2> SUFFICES ASSUME LedInit PROVE BackoffInv
    OBVIOUS
  <2>1. TryMax \in Nat
    BY RetryNumbers, LedNumbers DEF TryMax
  <2> QED BY <2>1, RetryNumbers DEF LedInit, BackoffInv, RetryTypes, BackoffRuns, RetryEarned
<1>2. FlashInv /\ BackoffInv /\ [LedNext]_ledVars => BackoffInv'
  BY BackoffStep
<1>3. FlashInv /\ BackoffInv /\ [LedNext]_ledVars
        => [UpdateSucceeds \/ UpdateFails => Waited]_ledVars
  <2> SUFFICES ASSUME FlashInv, BackoffInv, UpdateSucceeds \/ UpdateFails, failed_attempts # 0
               PROVE  sinceTry - Lag(seen) >= RetryDelay(failed_attempts)
    OBVIOUS
  <2>1. ledPc = "render" /\ mayRetry
    BY DEF UpdateSucceeds, UpdateFails, Due
  <2>2. failed_attempts > 0
    BY RetryNumbers DEF BackoffInv, RetryTypes
  <2>3. sinceTry - Ago(seen) >= RetryDelay(failed_attempts)
    BY <2>1, <2>2 DEF BackoffInv, RetryEarned
  <2>4. Lag(seen) = Ago(seen)
    BY LagIsAgo DEF FlashInv, LedTypes
  <2> QED BY <2>3, <2>4
<1> QED BY <1>1, <1>2, <1>3, FlashInit, FlashStep, PTL DEF LedSpec, BackoffKept
=============================================================================
