--------------------------- MODULE WebServerProofs ---------------------------
(***************************************************************************)
(* Proofs about the HTTP server, the telemetry snapshot it takes for a     *)
(* status request and the configuration cards of the page it serves, for   *)
(* every size of the buffer, every number of clients, every range of the   *)
(* frame counter and any number of requests of the page in flight.         *)
(***************************************************************************)
EXTENDS WebServer, WebPage, TLAPS

(* The receive buffer. *)

BufferTypes ==
    /\ request \in Request
    /\ received \in Nat /\ body_len \in Nat /\ parsedEnd \in Nat

\* The body of a configuration request is known to end before the buffer does,
\* and is never received beyond its end; it is parsed in the last step before
\* the answer.
ConfigFits ==
    /\ pc = "config" =>
          /\ request.length # Absent
          /\ request.length < BufSize - request.header
          /\ body_len <= request.length
    /\ parsedEnd > 0 => pc \in {"send", "close"}

BufferInv == BufferTypes /\ ConfigFits /\ RoomBehindBody

(* The telemetry snapshot. *)

TelemetryTypes ==
    /\ frames_in \in 0 .. CounterMod - 1
    /\ last_bridge_frames_in \in 0 .. CounterMod - 1
    /\ inputs \in 0 .. CounterMod - 1
    /\ newFrames \in 0 .. CounterMod - 1
    /\ initialized \in BOOLEAN /\ collected \in BOOLEAN
    /\ frameAge \in Never .. Oldest /\ lastFrameAge \in Never .. Oldest

\* The counter has moved on by n since it was c.
MovedOn(c, n) == frames_in = c + n \/ frames_in = c + n - CounterMod

\* newFrames counts from the counter that was collected last.
NewFramesCounted ==
    MovedOn(IF collected THEN inputs ELSE last_bridge_frames_in, newFrames)

\* With nothing new, the last frame was seen by a snapshot and not before it
\* came.
FrameSeen ==
    frameAge # Never /\ newFrames = 0 =>
        \/ initialized /\ lastFrameAge # Never /\ lastFrameAge <= frameAge
        \/ collected /\ IF initialized THEN Changed ELSE inputs > 0

\* Before the first snapshot nothing is remembered.
FirstSnapshot == ~initialized => last_bridge_frames_in = 0

TelemetryInv == TelemetryTypes /\ NewFramesCounted /\ FrameSeen /\ FirstSnapshot

WebInv == BufferInv /\ TelemetryInv

USE WebAssumption, TelemetryAssumption

-----------------------------------------------------------------------------
(* The receive buffer, action by action. *)

\* The numbers of a request.
LEMMA RequestNumbers ==
    ASSUME NEW r \in Request
    PROVE  /\ r.header \in 1 .. (BufSize + 1) /\ r.length \in {Absent} \cup 0 .. MaxLength
           /\ r.length \in Int /\ (r.length # Absent => r.length \in Nat)
  BY DEF Request, Absent, Kinds

\* A step that leaves buffer and request alone keeps them, unless it enters
\* "config".
LEMMA BufferUnchanged ==
    ASSUME BufferInv, UNCHANGED <<request, received, body_len, parsedEnd>>,
           pc' = pc \/ pc' \in {"send", "close"}
    PROVE  BufferInv'
  BY DEF BufferInv, BufferTypes, ConfigFits, RoomBehindBody

\* A chunk of the header, and the dispatch of the request once it is complete.
LEMMA RecvHeaderKeeps == BufferInv /\ RecvHeader => BufferInv'
<1> SUFFICES ASSUME BufferInv, RecvHeader PROVE BufferInv'
  OBVIOUS
<1>1. /\ request' = request /\ parsedEnd' = parsedEnd /\ parsedEnd = 0
      /\ received' \in Nat /\ received' <= BufSize
  BY DEF RecvHeader, Same, Room, BufferInv, BufferTypes, ConfigFits, RoomBehindBody
<1>2. CASE received' >= request.header /\ request.kind = "config" /\ pc' = "config"
  <2>1. /\ request.length # Absent /\ BodyFits(Body)
        /\ RoomForNul(request.length, request.header) /\ body_len' = Body
    BY <1>2 DEF RecvHeader, Dispatch, StartConfig, Respond
  <2>2. /\ request.header \in Nat /\ request.length \in Nat
        /\ body_len' = received' - request.header /\ body_len' <= request.length
    BY <2>1, RequestNumbers DEF BufferInv, BufferTypes, BodyFits, Body
  <2>3. request.length < BufSize - request.header
    BY <2>1 DEF RoomForNul
  <2>4. body_len' \in Nat
    BY <1>1, <1>2, <2>2
  <2> QED
    BY <1>1, <1>2, <2>1, <2>2, <2>3, <2>4
       DEF BufferInv, BufferTypes, ConfigFits, RoomBehindBody
<1>3. ASSUME pc' # "config", body_len' \in Nat PROVE BufferInv'
  BY <1>1, <1>3 DEF BufferInv, BufferTypes, ConfigFits, RoomBehindBody
<1>4. CASE received' >= request.header /\ request.kind = "upload"
  <2>1. pc' # "config" /\ (body_len' = body_len \/ body_len' = Body)
    BY <1>4 DEF RecvHeader, Dispatch, StartUpload, Respond
  <2>2. Body \in Nat
    BY <1>1, <1>4, RequestNumbers DEF Body, BufferInv, BufferTypes
  <2> QED
    BY <1>3, <2>1, <2>2 DEF BufferInv, BufferTypes
<1>5. CASE received' >= request.header /\ request.kind = "config" /\ pc' # "config"
  <2>1. body_len' = body_len
    BY <1>5 DEF RecvHeader, Dispatch, StartConfig
  <2> QED
    BY <1>3, <1>5, <2>1 DEF BufferInv, BufferTypes
<1>6. CASE received' >= request.header /\ request.kind \notin {"config", "upload"}
  <2>1. pc' # "config" /\ body_len' = body_len
    BY <1>6 DEF RecvHeader, Dispatch, Respond
  <2> QED
    BY <1>3, <2>1 DEF BufferInv, BufferTypes
<1>7. CASE ~(received' >= request.header)
  <2>1. pc' # "config" /\ body_len' = body_len
    BY <1>7 DEF RecvHeader, Respond
  <2> QED
    BY <1>3, <2>1 DEF BufferInv, BufferTypes
<1> QED
  BY <1>2, <1>4, <1>5, <1>6, <1>7

\* The wanted size of a chunk of an upload.
LEMMA WantNumber == BufferInv /\ body_len < request.length => Want \in Nat
<1> SUFFICES ASSUME BufferInv, body_len < request.length PROVE Want \in Nat
  OBVIOUS
<1> DEFINE rest == request.length - body_len
<1>1. BufSize \in Nat /\ rest \in Nat
  BY RequestNumbers DEF BufferInv, BufferTypes
<1> HIDE DEF rest
<1>2. \E x \in {BufSize, rest} : \A y \in {BufSize, rest} : x <= y
  <2>1. CASE BufSize <= rest
    BY <1>1, <2>1
  <2>2. CASE ~(BufSize <= rest)
    BY <1>1, <2>2
  <2> QED
    BY <2>1, <2>2
<1>3. Min({BufSize, rest}) \in {BufSize, rest}
  BY <1>2 DEF Min
<1> QED
  BY <1>1, <1>3 DEF Want, rest

\* The bodies: one chunk, and the end.
LEMMA BodyKeeps == BufferInv /\ (RecvConfig \/ ParseConfig \/ RecvUpload) => BufferInv'
<1> SUFFICES ASSUME BufferInv, RecvConfig \/ ParseConfig \/ RecvUpload PROVE BufferInv'
  OBVIOUS
<1> USE DEF BufferInv, BufferTypes, ConfigFits, RoomBehindBody
<1>1. request.header \in Nat /\ request.length \in Int
      /\ (request.length # Absent => request.length \in Nat)
  BY RequestNumbers
<1>2. CASE RecvConfig
  <2>1. /\ UNCHANGED <<request, received, parsedEnd, pc>> /\ pc = "config" /\ parsedEnd = 0
        /\ request.length \in Nat
    BY <1>1, <1>2 DEF RecvConfig, Same
  <2>2. body_len' \in Nat /\ body_len' <= request.length
    BY <1>2, <2>1 DEF RecvConfig
  <2> QED
    BY <2>1, <2>2
<1>3. CASE ParseConfig
  <2>1. /\ UNCHANGED <<request, received, body_len>> /\ pc = "config" /\ pc' = "send"
        /\ parsedEnd' = request.header + request.length
        /\ request.length \in Nat /\ body_len = request.length
    BY <1>1, <1>3 DEF ParseConfig, Same, Respond
  <2>2. parsedEnd' \in Nat /\ parsedEnd' < BufSize
    BY <1>1, <2>1
  <2> QED
    BY <2>1, <2>2
<1>4. CASE RecvUpload
  <2>1. /\ UNCHANGED <<request, received, parsedEnd>> /\ pc = "upload" /\ parsedEnd = 0
        /\ pc' \in {"upload", "send"}
    BY <1>4 DEF RecvUpload, Same, Respond
  <2>2. Want \in Nat
    BY <1>4, WantNumber DEF RecvUpload
  <2>3. body_len' \in Nat
    BY <1>4, <2>2 DEF RecvUpload
  <2> QED
    BY <2>1, <2>3
<1> QED
  BY <1>2, <1>3, <1>4

\* Buffer and request stay within their bounds in every step of the server.
LEMMA BufferStep == BufferInv /\ [Next]_vars => BufferInv'
<1> SUFFICES ASSUME BufferInv, [Next]_vars PROVE BufferInv'
  OBVIOUS
<1>1. CASE Accept \/ Close
  <2>1. NoRequest \in Request
    BY DEF NoRequest, Request, Kinds, Absent
  <2>2. request' \in Request /\ received' = 0 /\ body_len' = 0 /\ parsedEnd' = 0
        /\ pc' # "config"
    BY <1>1, <2>1 DEF Accept, Close, Respond
  <2> QED
    BY <2>2 DEF BufferInv, BufferTypes, ConfigFits, RoomBehindBody
<1>2. CASE RecvHeader \/ RecvConfig \/ ParseConfig \/ RecvUpload
  BY <1>2, RecvHeaderKeeps, BodyKeeps
<1>3. CASE (\E c \in Clients : Connect(c)) \/ FinishUpload \/ RecvFails \/ SendSome
           \/ SendFails \/ StatusCollect \/ StatusRespond \/ UNCHANGED server
  <2>1. /\ UNCHANGED <<request, received, body_len, parsedEnd>>
        /\ pc' = pc \/ pc' \in {"send", "close"}
    BY <1>3 DEF Connect, FinishUpload, RecvFails, SendSome, SendFails, StatusCollect,
                StatusRespond, Same, Respond, server
  <2> QED
    BY <2>1, BufferUnchanged
<1> QED
  BY <1>1, <1>2, <1>3 DEF Next, Progress, Environment, Receive, Handle, vars

\* However the chunks of a request fall, read_http_request never receives beyond
\* its buffer, and json_obj_parse is given the whole body of a configuration
\* request with a byte of the buffer behind it.
THEOREM BodyEndsInBuffer == Spec => []RoomBehindBody
<1>1. Init => BufferInv
  BY DEF Init, BufferInv, BufferTypes, ConfigFits, RoomBehindBody, NoRequest, Request,
         Kinds, Absent
<1>2. BufferInv => RoomBehindBody
  BY DEF BufferInv
<1> QED
  BY <1>1, <1>2, BufferStep, PTL DEF Spec

-----------------------------------------------------------------------------
(* The telemetry snapshot. *)

\* A counter of CounterMod values moves on by one, or wraps to zero.
LEMMA CounterStep ==
    ASSUME NEW n \in 0 .. CounterMod - 1
    PROVE  (n + 1) % CounterMod = IF n = CounterMod - 1 THEN 0 ELSE n + 1
<1>1. CASE n = CounterMod - 1
  BY <1>1
<1>2. CASE n # CounterMod - 1
  BY <1>2
<1> QED
  BY <1>1, <1>2

\* Fewer than CounterMod frames never bring the counter back to where it was.
LEMMA CounterMoves ==
    ASSUME NEW c \in 0 .. CounterMod - 1, NEW n \in 1 .. CounterMod - 1, MovedOn(c, n)
    PROVE  frames_in # c
  BY DEF MovedOn

\* Ages grow together, up to the oldest.
LEMMA AgesKeepOrder ==
    ASSUME NEW a \in Never .. Oldest, NEW b \in Never .. Oldest
    PROVE  /\ Older(a) \in Never .. Oldest
           /\ Older(a) = Never <=> a = Never
           /\ a # Never /\ b # Never /\ a <= b => Older(a) <= Older(b)
  BY DEF Older, Never, Oldest

\* An accepted frame moves the counter on by one, over its wrap too.
LEMMA FrameAcceptedKeeps == TelemetryInv /\ FrameAccepted => TelemetryInv'
<1> SUFFICES ASSUME TelemetryInv, FrameAccepted PROVE TelemetryInv'
  OBVIOUS
<1> USE DEF TelemetryInv, TelemetryTypes
<1>1. /\ newFrames' = newFrames + 1 /\ newFrames < CounterMod - 1 /\ frameAge' = 0
      /\ UNCHANGED <<initialized, last_bridge_frames_in, lastFrameAge, collected, inputs>>
      /\ frames_in' = IF frames_in = CounterMod - 1 THEN 0 ELSE frames_in + 1
  BY CounterStep DEF FrameAccepted, Incremented, state
<1>2. TelemetryTypes'
  BY <1>1 DEF Never, Oldest
<1>3. NewFramesCounted'
  <2> DEFINE c == IF collected THEN inputs ELSE last_bridge_frames_in
  <2>1. c' = c /\ c \in 0 .. CounterMod - 1 /\ MovedOn(c, newFrames)
    BY <1>1 DEF NewFramesCounted
  <2> HIDE DEF c
  <2>2. MovedOn(c, newFrames)'
    BY <1>1, <2>1 DEF MovedOn
  <2> QED
    BY <2>2 DEF NewFramesCounted, c
<1>4. FrameSeen'
  BY <1>1 DEF FrameSeen
<1>5. FirstSnapshot'
  BY <1>1 DEF FirstSnapshot
<1> QED
  BY <1>2, <1>3, <1>4, <1>5

\* The counter that is collected differs from the last one exactly when frames
\* were accepted since.
LEMMA CollectKeeps == TelemetryInv /\ Collect => TelemetryInv'
<1> SUFFICES ASSUME TelemetryInv, Collect PROVE TelemetryInv'
  OBVIOUS
<1> USE DEF TelemetryInv, TelemetryTypes
<1>1. /\ ~collected /\ collected' /\ collected' \in BOOLEAN
      /\ inputs' = frames_in /\ newFrames' = 0
      /\ UNCHANGED <<frames_in, initialized, last_bridge_frames_in, lastFrameAge, frameAge>>
  BY DEF Collect, state
<1>2. TelemetryTypes'
  BY <1>1
<1>3. NewFramesCounted'
  BY <1>1 DEF NewFramesCounted, MovedOn
<1>4. FrameSeen'
  <2> SUFFICES ASSUME frameAge # Never
               PROVE \/ initialized /\ lastFrameAge # Never /\ lastFrameAge <= frameAge
                     \/ IF initialized THEN frames_in # last_bridge_frames_in ELSE frames_in > 0
    BY <1>1 DEF FrameSeen, Changed
  <2>1. CASE newFrames = 0
    BY <1>1, <2>1 DEF FrameSeen
  <2>2. CASE newFrames # 0
    <3>1. frames_in # last_bridge_frames_in
      BY <1>1, <2>2, CounterMoves DEF NewFramesCounted
    <3> QED
      BY <3>1 DEF FirstSnapshot
  <2> QED
    BY <2>1, <2>2
<1>5. FirstSnapshot'
  BY <1>1 DEF FirstSnapshot
<1> QED
  BY <1>2, <1>3, <1>4, <1>5

\* The age of the last frame seen, in the snapshot under way.
LEMMA LastSeenAge ==
    ASSUME TelemetryInv, collected
    PROVE  /\ LastSeen \in Never .. Oldest
           /\ frameAge # Never /\ newFrames = 0 => LastSeen # Never /\ LastSeen <= frameAge
  BY DEF TelemetryInv, TelemetryTypes, FrameSeen, LastSeen, Never, Oldest

\* A snapshot dates what it noticed to now.
LEMMA BuildKeeps == TelemetryInv /\ BuildSnapshot => TelemetryInv'
<1> SUFFICES ASSUME TelemetryInv, BuildSnapshot PROVE TelemetryInv'
  OBVIOUS
<1> USE DEF TelemetryInv, TelemetryTypes
<1>1. /\ collected /\ ~collected' /\ collected' \in BOOLEAN
      /\ initialized' /\ initialized' \in BOOLEAN
      /\ last_bridge_frames_in' = inputs /\ lastFrameAge' = LastSeen /\ inputs' = 0
      /\ UNCHANGED <<frames_in, frameAge, newFrames>>
  BY DEF BuildSnapshot
<1>2. TelemetryTypes'
  BY <1>1, LastSeenAge
<1>3. NewFramesCounted'
  BY <1>1 DEF NewFramesCounted, MovedOn
<1>4. FrameSeen'
  BY <1>1, LastSeenAge DEF FrameSeen
<1>5. FirstSnapshot'
  BY <1>1 DEF FirstSnapshot
<1> QED
  BY <1>2, <1>3, <1>4, <1>5

\* Time makes both ages older together.
LEMMA TickKeeps == TelemetryInv /\ Tick => TelemetryInv'
<1> SUFFICES ASSUME TelemetryInv, Tick PROVE TelemetryInv'
  OBVIOUS
<1> USE DEF TelemetryInv, TelemetryTypes
<1>1. /\ ~collected /\ frameAge' = Older(frameAge)
      /\ lastFrameAge' = IF initialized THEN Older(lastFrameAge) ELSE lastFrameAge
      /\ UNCHANGED <<frames_in, initialized, last_bridge_frames_in, collected, inputs,
                     newFrames>>
  BY DEF Tick
<1>2. TelemetryTypes'
  BY <1>1, AgesKeepOrder
<1>3. NewFramesCounted' /\ FirstSnapshot'
  BY <1>1 DEF NewFramesCounted, MovedOn, FirstSnapshot
<1>4. FrameSeen'
  BY <1>1, AgesKeepOrder DEF FrameSeen
<1> QED
  BY <1>2, <1>3, <1>4

\* The telemetry part is inductive under every step of the server.
LEMMA TelemetryStep == TelemetryInv /\ [Next]_vars => TelemetryInv'
<1> SUFFICES ASSUME TelemetryInv, [Next]_vars PROVE TelemetryInv'
  OBVIOUS
<1>1. CASE UNCHANGED telemetry
  BY <1>1 DEF telemetry, state, TelemetryInv, TelemetryTypes, NewFramesCounted, MovedOn,
              FrameSeen, Changed, FirstSnapshot
<1>2. \/ FrameAccepted \/ Tick \/ Collect \/ BuildSnapshot \/ UNCHANGED telemetry
  BY DEF Next, Progress, Environment, StatusCollect, StatusRespond, vars
<1> QED
  BY <1>1, <1>2, FrameAcceptedKeeps, TickKeeps, CollectKeeps, BuildKeeps

\* bridge_telemetry_build_snapshot never calls the input idle while a frame that
\* the bridge accepted before the inputs were collected lies within the window,
\* whatever requests came before and wherever the counter wraps.
THEOREM SnapshotMissesNothing == Spec => InputNotMissed
<1>1. Init => TelemetryInv
  <2> SUFFICES ASSUME Init PROVE TelemetryInv
    OBVIOUS
  <2>1. ~initialized /\ initialized \in BOOLEAN /\ ~collected /\ collected \in BOOLEAN
    BY DEF Init, TelemetryInit
  <2> QED
    BY <2>1 DEF Init, TelemetryInit, TelemetryInv, TelemetryTypes, NewFramesCounted,
                MovedOn, FrameSeen, FirstSnapshot, Never, Oldest
<1>2. TelemetryInv /\ [Next]_vars
         => [collected /\ ~collected' /\ frameAge \in 0 .. Window /\ newFrames = 0
               => input_state' = "active"]_telemetry
  <2> SUFFICES ASSUME TelemetryInv, [Next]_vars, collected, ~collected',
                      frameAge \in 0 .. Window, newFrames = 0
               PROVE input_state' = "active"
    OBVIOUS
  <2>1. BuildSnapshot
    BY DEF Next, Progress, Environment, StatusCollect, StatusRespond, vars, telemetry,
           FrameAccepted, Tick, Collect
  <2>2. LastSeen # Never /\ LastSeen <= Window
    BY LastSeenAge DEF Never, Oldest
  <2> QED
    BY <2>1, <2>2 DEF BuildSnapshot, WithinWindow
<1> QED
  BY <1>1, <1>2, TelemetryStep, PTL DEF Spec, InputNotMissed

-----------------------------------------------------------------------------
(* The configuration cards of the page. *)

LoadCount(f) == f["idle"] + f["timer"] + f["sent"] + f["true"] + f["false"] + f["failed"]

\* Every chain of loadConfig is in one phase.
LoadsCounted(f) == f \in [LoadPhases -> Nat] /\ LoadCount(f) = MaxLoads

Answers == {"waiting", "true", "false", "unparsed", "error", "lost"}

CardTypes ==
    /\ LoadsCounted(loads)
    /\ post \in {NoPost} \cup [kind : {"save", "reset"}, answer : Answers]
    /\ reboot_required \in BOOLEAN /\ banner \in BOOLEAN /\ blind \in BOOLEAN

\* The answer of the save or reset is still to be applied and may change what the
\* page knows; a save that failed has changed nothing.
AnswerPending ==
    /\ post # NoPost /\ post.answer # "waiting"
    /\ post.kind = "save" => post.answer # "error"

\* Where the page could know the flag, the banner shows it, or an answer that
\* tells is on its way.
BannerOrAnswer ==
    ~blind => (banner <=> reboot_required) \/ loads["idle"] < MaxLoads \/ AnswerPending

CardsInv == CardTypes /\ BannerOrAnswer

\* The forms are disabled while a save or reset is under way.
OneAtATime == formsEnabled => post = NoPost

\* One phase with k more
LEMMA CountChange ==
    ASSUME NEW f \in [LoadPhases -> Int], NEW a \in LoadPhases, NEW k \in Int
    PROVE  /\ [f EXCEPT ![a] = f[a] + k] \in [LoadPhases -> Int]
           /\ LoadCount([f EXCEPT ![a] = f[a] + k]) = LoadCount(f) + k
<1> DEFINE g == [f EXCEPT ![a] = f[a] + k]
<1>1. g \in [LoadPhases -> Int]
  OBVIOUS
<1>2. \A p \in LoadPhases : f[p] \in Int /\ g[p] = IF p = a THEN f[p] + k ELSE f[p]
  OBVIOUS
<1> HIDE DEF g
<1>3. LoadCount(g) = LoadCount(f) + k
  <2>1. CASE a = "idle"
    BY <1>2, <2>1 DEF LoadCount, LoadPhases
  <2>2. CASE a = "timer"
    BY <1>2, <2>2 DEF LoadCount, LoadPhases
  <2>3. CASE a = "sent"
    BY <1>2, <2>3 DEF LoadCount, LoadPhases
  <2>4. CASE a = "true"
    BY <1>2, <2>4 DEF LoadCount, LoadPhases
  <2>5. CASE a = "false"
    BY <1>2, <2>5 DEF LoadCount, LoadPhases
  <2>6. CASE a = "failed"
    BY <1>2, <2>6 DEF LoadCount, LoadPhases
  <2> QED BY <2>1, <2>2, <2>3, <2>4, <2>5, <2>6 DEF LoadPhases
<1> QED BY <1>1, <1>3 DEF g

\* A chain goes from phase a to phase b.
LEMMA MoveCounted ==
    ASSUME NEW f, LoadsCounted(f), NEW a \in LoadPhases, NEW b \in LoadPhases,
           a # b, f[a] > 0
    PROVE  LoadsCounted(Move(f, a, b)) /\ Move(f, a, b)[b] > 0
<1> DEFINE e == [f EXCEPT ![a] = f[a] + (-1)]
           g == [e EXCEPT ![b] = e[b] + 1]
           m == Move(f, a, b)
<1>1. f \in [LoadPhases -> Nat] /\ f \in [LoadPhases -> Int]
      /\ LoadCount(f) = MaxLoads /\ LoadCount(f) \in Int
  BY DEF LoadsCounted, LoadCount, LoadPhases
<1>2. m = [f EXCEPT ![a] = f[a] - 1, ![b] = f[b] + 1]
  BY DEF Move
<1>3. m \in [LoadPhases -> Nat] /\ m[b] = f[b] + 1
  BY <1>1, <1>2
<1>4. m = g
  BY <1>1, <1>2
<1>5. e \in [LoadPhases -> Int] /\ LoadCount(e) = LoadCount(f) + (-1)
  <2>1. -1 \in Int
    OBVIOUS
  <2> QED BY <1>1, <2>1, CountChange, Zenon
<1>6. LoadCount(g) = LoadCount(e) + 1
  <2>1. 1 \in Int
    OBVIOUS
  <2>2. \A h \in [LoadPhases -> Int] :
           LoadCount([h EXCEPT ![b] = h[b] + 1]) = LoadCount(h) + 1
    BY <2>1, CountChange, Zenon
  <2> HIDE DEF e
  <2> QED BY <1>5, <2>2
<1>7. LoadCount(m) = LoadCount(f)
  <2> HIDE DEF e, g, m
  <2> QED BY <1>1, <1>4, <1>5, <1>6
<1> QED BY <1>1, <1>3, <1>7 DEF LoadsCounted

\* While a chain is under way not all of them are idle.
LEMMA UnderWay ==
    ASSUME NEW f, LoadsCounted(f), NEW p \in LoadPhases \ {"idle"}, f[p] > 0
    PROVE  f["idle"] < MaxLoads
  BY DEF LoadsCounted, LoadCount, LoadPhases

\* A step that begins or moves a chain keeps the invariant: its answer is on its way.
LEMMA ChainMoves ==
    ASSUME CardsInv, NEW a \in LoadPhases, NEW b \in LoadPhases \ {"idle"},
           a # b, loads[a] > 0, loads' = Move(loads, a, b),
           post' \in {NoPost} \cup [kind : {"save", "reset"}, answer : Answers],
           reboot_required' \in BOOLEAN, banner' \in BOOLEAN, blind' \in BOOLEAN
    PROVE  CardsInv'
<1>1. LoadsCounted(loads') /\ loads'[b] > 0
  BY MoveCounted DEF CardsInv, CardTypes
<1>2. loads'["idle"] < MaxLoads
  BY <1>1, UnderWay
<1>3. LoadsCounted(loads)'
  BY <1>1 DEF LoadsCounted, LoadCount
<1> QED BY <1>2, <1>3 DEF CardsInv, CardTypes, BannerOrAnswer

\* loadConfig, from the request to its answer or its retry
LEMMA LoadKeeps ==
    ASSUME CardsInv,
           \/ ServeLoad \/ LoadFails \/ LoadAgain
           \/ \E p \in {"sent", "true", "false"} : LoadLost(p)
    PROVE  CardsInv'
<1>1. UNCHANGED <<post, reboot_required, banner, blind>>
  BY DEF ServeLoad, LoadFails, LoadAgain, LoadLost, page,
         bridge
<1>2. PICK a \in {"sent", "true", "false", "failed", "timer"},
           b \in {"true", "false", "failed", "timer", "sent"} :
              a # b /\ loads[a] > 0 /\ loads' = Move(loads, a, b)
  BY DEF ServeLoad, LoadFails, LoadAgain, LoadLost, Flag
<1>3. a \in LoadPhases /\ b \in LoadPhases \ {"idle"}
  BY DEF LoadPhases
<1>4. /\ post' \in {NoPost} \cup [kind : {"save", "reset"}, answer : Answers]
      /\ reboot_required' \in BOOLEAN /\ banner' \in BOOLEAN /\ blind' \in BOOLEAN
  BY <1>1 DEF CardsInv, CardTypes
<1> QED BY <1>2, <1>3, <1>4, ChainMoves

\* renderConfig with the answer of a load: the banner shows the flag, unless the
\* answer was overtaken.
LEMMA ApplyLoadKeeps ==
    ASSUME CardsInv, NEW p \in {"true", "false"}, ApplyLoad(p)
    PROVE  CardsInv'
<1>1. /\ loads[p] > 0 /\ loads' = Move(loads, p, "idle")
      /\ banner' = (p = "true") /\ blind' = (blind \/ Overtaken(p))
      /\ post' = post /\ reboot_required' = reboot_required
  BY DEF ApplyLoad, bridge
<1>2. LoadsCounted(loads')
  <2>1. p \in LoadPhases /\ "idle" \in LoadPhases /\ p # "idle"
    BY DEF LoadPhases
  <2> QED BY <1>1, <2>1, MoveCounted DEF CardsInv, CardTypes
<1>3. LoadsCounted(loads)'
  BY <1>2 DEF LoadsCounted, LoadCount
<1>4. reboot_required \in BOOLEAN
  BY DEF CardsInv, CardTypes
<1>5. ~blind' => (banner' <=> reboot_required')
  BY <1>1, <1>4 DEF Overtaken, Flag
<1>6. banner' \in BOOLEAN /\ blind' \in BOOLEAN
  BY <1>1
<1> QED BY <1>1, <1>3, <1>5, <1>6 DEF CardsInv, CardTypes, BannerOrAnswer

\* The device serves a save or reset, or its answer is lost.
LEMMA ServeKeeps ==
    ASSUME CardsInv, ServeSave \/ ServeReset \/ PostLost
    PROVE  CardsInv'
<1>1. UNCHANGED <<loads, banner, blind>>
  BY DEF ServeSave, ServeReset, PostLost, page
<1>2. reboot_required' \in BOOLEAN
  BY DEF ServeSave, ServeReset, PostLost, bridge, AnswerError,
         CardsInv, CardTypes
<1>3. post # NoPost /\ post \in [kind : {"save", "reset"}, answer : Answers]
  BY DEF ServeSave, ServeReset, PostLost, Posted,
         configSaving, NoPost, CardsInv, CardTypes
<1>4. PICK a \in Answers \ {"waiting"} :
         /\ post' = [post EXCEPT !.answer = a]
         /\ post.kind = "save" /\ a = "error" =>
               post.answer = "waiting" /\ reboot_required' = reboot_required
  <2>1. CASE ServeSave
    <3>1. post = [kind |-> "save", answer |-> "waiting"]
      BY <2>1 DEF ServeSave, Posted
    <3> QED BY <2>1, <3>1 DEF ServeSave, AnswerConfig, AnswerError,
                              Answer, Flag, Answers
  <2>2. CASE ServeReset
    <3>1. post = [kind |-> "reset", answer |-> "waiting"]
      BY <2>2 DEF ServeReset, Posted
    <3> QED BY <2>2, <3>1 DEF ServeReset, AnswerConfig, AnswerError,
                              Answer, Flag, Answers
  <2>3. CASE PostLost
    BY <2>3 DEF PostLost, Answer, Answers
  <2> QED BY <2>1, <2>2, <2>3
<1>5. /\ post' \in [kind : {"save", "reset"}, answer : Answers]
      /\ post'.kind = post.kind /\ post'.answer = a /\ post' # NoPost
  BY <1>3, <1>4 DEF NoPost
<1>6. CardTypes'
  BY <1>1, <1>2, <1>5 DEF CardsInv, CardTypes, LoadsCounted, LoadCount
<1>7. BannerOrAnswer'
  <2>1. CASE post.kind = "save" /\ a = "error"
    BY <1>1, <1>4, <2>1 DEF CardsInv, BannerOrAnswer, AnswerPending
  <2>2. CASE ~(post.kind = "save" /\ a = "error")
    BY <1>5, <2>2 DEF BannerOrAnswer, AnswerPending
  <2> QED BY <2>1, <2>2
<1> QED BY <1>6, <1>7 DEF CardsInv

\* The end of a save: its answer is shown, a failed save changes nothing, and an
\* answer that was lost or overtaken leaves the page blind.
LEMMA ApplySaveKeeps == ASSUME CardsInv, ApplySave PROVE CardsInv'
<1>1. /\ post.kind = "save" /\ post.answer # "waiting" /\ post' = NoPost
      /\ UNCHANGED <<loads, reboot_required>>
      /\ banner' = IF post.answer \in {"error", "lost"} THEN banner ELSE post.answer = "true"
      /\ blind' = (blind \/ post.answer \in {"lost", "unparsed"}
                         \/ Overtaken(post.answer))
  BY DEF ApplySave, Done, bridge
<1>2. post.answer \in Answers
  BY <1>1 DEF CardsInv, CardTypes, NoPost
<1>3. reboot_required \in BOOLEAN /\ banner \in BOOLEAN /\ blind \in BOOLEAN
  BY DEF CardsInv, CardTypes
<1>4. banner' \in BOOLEAN /\ blind' \in BOOLEAN
  BY <1>1, <1>3
<1>5. CardTypes'
  BY <1>1, <1>3, <1>4 DEF CardsInv, CardTypes, LoadsCounted, LoadCount
<1>6. CASE post.answer \in {"true", "false"}
  <2>1. ~blind' => (banner' <=> reboot_required')
    BY <1>1, <1>3, <1>6 DEF Overtaken, Flag
  <2> QED BY <1>5, <2>1 DEF CardsInv, BannerOrAnswer
<1>7. CASE post.answer \in {"lost", "unparsed"}
  <2>1. blind'
    BY <1>1, <1>7
  <2> QED BY <1>5, <2>1 DEF CardsInv, BannerOrAnswer
<1>8. CASE post.answer = "error"
  <2>1. UNCHANGED banner /\ (~blind' => ~blind)
    BY <1>1, <1>8
  <2>2. ~AnswerPending
    BY <1>1, <1>8 DEF AnswerPending
  <2> QED BY <1>1, <1>5, <2>1, <2>2 DEF CardsInv, BannerOrAnswer
<1> QED BY <1>1, <1>2, <1>6, <1>7, <1>8 DEF Answers

\* The end of a reset: it has set the flag, or the configuration is loaded again.
LEMMA ApplyResetKeeps == ASSUME CardsInv, ApplyReset PROVE CardsInv'
<1>1. post' = NoPost /\ UNCHANGED reboot_required
  BY DEF ApplyReset, Done, bridge
<1>2. reboot_required \in BOOLEAN /\ banner \in BOOLEAN /\ blind \in BOOLEAN
  BY DEF CardsInv, CardTypes
<1>3. CASE banner' = TRUE /\ blind' = (blind \/ Overtaken("true")) /\ UNCHANGED loads
  <2>1. ~blind' => (banner' <=> reboot_required')
    BY <1>1, <1>2, <1>3 DEF Overtaken, Flag
  <2>2. banner' \in BOOLEAN /\ blind' \in BOOLEAN
    BY <1>3
  <2> QED BY <1>1, <1>2, <1>3, <2>1, <2>2 DEF CardsInv, CardTypes, BannerOrAnswer,
                                              LoadsCounted, LoadCount
<1>4. CASE FetchAgain /\ blind' = FALSE /\ UNCHANGED banner
  <2>1. /\ loads["idle"] > 0 /\ loads' = Move(loads, "idle", "sent")
        /\ "idle" \in LoadPhases /\ "sent" \in LoadPhases \ {"idle"}
    BY <1>4 DEF FetchAgain, loadConfig, LoadPhases
  <2>2. reboot_required' \in BOOLEAN /\ banner' \in BOOLEAN /\ blind' \in BOOLEAN
    BY <1>1, <1>2, <1>4
  <2> QED BY <1>1, <2>1, <2>2, ChainMoves
<1> QED BY <1>3, <1>4 DEF ApplyReset

\* A status answer after the page was offline, or after a reboot, loads the
\* configuration again.
LEMMA ApplyStatusKeeps == ASSUME CardsInv, ApplyStatus PROVE CardsInv'
<1>1. UNCHANGED <<post, reboot_required, banner>>
  BY DEF ApplyStatus, bridge
<1>2. CASE UNCHANGED <<blind, loads>>
  BY <1>1, <1>2 DEF CardsInv, CardTypes, BannerOrAnswer, AnswerPending, LoadsCounted,
                    LoadCount
<1>3. CASE BackAgain
  <2>1. /\ loads["idle"] > 0 /\ loads' = Move(loads, "idle", "sent")
        /\ "idle" \in LoadPhases /\ "sent" \in LoadPhases \ {"idle"}
    BY <1>3 DEF BackAgain, loadConfig, LoadPhases
  <2>2. /\ post' \in {NoPost} \cup [kind : {"save", "reset"}, answer : Answers]
        /\ reboot_required' \in BOOLEAN /\ banner' \in BOOLEAN
    BY <1>1 DEF CardsInv, CardTypes
  <2>3. blind' \in BOOLEAN
    BY <1>3 DEF BackAgain
  <2> QED BY <2>1, <2>2, <2>3, ChainMoves
<1> QED BY <1>2, <1>3 DEF ApplyStatus

\* The controls follow every change of what they depend on.
LEMMA OneAtATimeStep ==
    ASSUME OneAtATime, [PageNext]_pageVars PROVE OneAtATime'
<1>1. CASE updateConfigControls
  BY <1>1 DEF updateConfigControls, OneAtATime
<1>2. CASE UNCHANGED <<formsEnabled, post>>
  BY <1>2 DEF OneAtATime
<1>3. CASE ServeSave \/ ServeReset \/ PostLost
  <2>1. formsEnabled' = formsEnabled /\ post # NoPost
    BY <1>3 DEF ServeSave, ServeReset, PostLost, Posted,
                configSaving, NoPost, page, controls
  <2> QED BY <2>1 DEF OneAtATime
<1>4. CASE PollStep
  BY <1>2, <1>4 DEF PollStep, SendPoll, ServePoll, ApplyStatus,
                    ApplyPollFailure, page, controls
<1>5. CASE LoadStep
  BY <1>1, <1>2, <1>5 DEF LoadStep, ServeLoad, LoadFails, LoadAgain,
                          ApplyLoad, page, controls
<1>6. CASE PostStep
  BY <1>1, <1>3, <1>6 DEF PostStep, ApplySave, ApplyReset
<1>7. CASE RebootStep \/ OtherRestart
  BY <1>1, <1>2, <1>7 DEF RebootStep, RebootFires, OtherRestart,
                          Restart, ServeReboot, ApplyReboot,
                          GraceEnds, page, controls, requests
<1>8. CASE Users
  BY <1>1, <1>8 DEF Users, ClickReboot, Submit
<1>9. CASE Faults \/ Boot
  BY <1>2, <1>3, <1>7, <1>9 DEF Faults, Boot, NetworkChanges,
                                PollLost, LoadLost, RebootPostLost,
                                page, controls, requests
<1>10. CASE UNCHANGED pageVars
  BY <1>2, <1>10 DEF pageVars, requests, page, controls
<1> QED BY <1>4, <1>5, <1>6, <1>7, <1>8, <1>9, <1>10 DEF PageNext

\* Every step of page, network and device keeps the invariant.
LEMMA CardsStep ==
    ASSUME CardsInv, OneAtATime, [PageNext]_pageVars PROVE CardsInv'
<1>1. CASE UNCHANGED <<loads, post, reboot_required, banner, blind>>
  BY <1>1 DEF CardsInv, CardTypes, BannerOrAnswer, AnswerPending, LoadsCounted, LoadCount
<1>2. CASE PollStep
  <2>1. CASE ApplyStatus
    BY <2>1, ApplyStatusKeeps
  <2>2. CASE SendPoll \/ ServePoll \/ ApplyPollFailure
    BY <1>1, <2>2 DEF SendPoll, ServePoll, ApplyPollFailure, bridge,
                      page
  <2> QED BY <1>2, <2>1, <2>2 DEF PollStep
<1>3. CASE LoadStep
  BY <1>3, LoadKeeps, ApplyLoadKeeps DEF LoadStep
<1>4. CASE PostStep
  BY <1>4, ServeKeeps, ApplySaveKeeps, ApplyResetKeeps DEF PostStep
<1>5. CASE Restart
  <2>1. blind' = TRUE /\ reboot_required' = FALSE /\ UNCHANGED <<loads, post, banner>>
    BY <1>5 DEF Restart, requests
  <2> QED BY <2>1 DEF CardsInv, CardTypes, BannerOrAnswer, LoadsCounted, LoadCount
<1>6. CASE RebootStep
  <2>1. CASE RebootFires
    BY <1>5, <2>1 DEF RebootFires
  <2>2. CASE ServeReboot \/ ApplyReboot \/ GraceEnds
    BY <1>1, <2>2 DEF ServeReboot, ApplyReboot, GraceEnds, bridge,
                      page, requests
  <2> QED BY <1>6, <2>1, <2>2 DEF RebootStep
<1>7. CASE Users
  <2>1. CASE ClickReboot
    BY <1>1, <2>1 DEF ClickReboot, bridge
  <2>2. CASE \E k \in {"save", "reset"} : Submit(k)
    <3>1. UNCHANGED <<loads, reboot_required, banner, blind>> /\ formsEnabled
      BY <2>2 DEF Submit, bridge
    <3>2. /\ post' \in [kind : {"save", "reset"}, answer : Answers]
          /\ post'.answer = "waiting"
      BY <2>2 DEF Submit, Answers
    <3>3. ~AnswerPending
      BY <3>1 DEF OneAtATime, AnswerPending
    <3> QED BY <3>1, <3>2, <3>3 DEF CardsInv, CardTypes, BannerOrAnswer, AnswerPending,
                              LoadsCounted, LoadCount
  <2> QED BY <1>7, <2>1, <2>2 DEF Users
<1>8. CASE Faults
  <2>1. CASE OtherRestart
    BY <1>5, <2>1 DEF OtherRestart
  <2>2. CASE PostLost
    BY <2>2, ServeKeeps
  <2>3. CASE \E p \in {"sent", "true", "false"} : LoadLost(p)
    BY <2>3, LoadKeeps
  <2>4. CASE NetworkChanges \/ RebootPostLost
             \/ \E p \in {"sent", "ok"} : PollLost(p)
    BY <1>1, <2>4 DEF NetworkChanges, RebootPostLost, PollLost,
                      bridge, page, requests
  <2> QED BY <1>8, <2>1, <2>2, <2>3, <2>4 DEF Faults
<1>9. CASE Boot
  BY <1>1, <1>9 DEF Boot, requests, page
<1>10. CASE UNCHANGED pageVars
  BY <1>1, <1>10 DEF pageVars, bridge, requests, page
<1> QED BY <1>2, <1>3, <1>4, <1>6, <1>7, <1>8, <1>9, <1>10 DEF PageNext

\* The inductive invariant of the cards, from which BannerTruthful follows.
THEOREM CardsInvariant == PageSpec => [](CardsInv /\ OneAtATime)
<1>1. PageInit => CardsInv /\ OneAtATime
  <2> SUFFICES ASSUME PageInit PROVE CardsInv /\ OneAtATime
    OBVIOUS
  <2> DEFINE none == [p \in LoadPhases |-> IF p = "idle" THEN MaxLoads ELSE 0]
  <2>1. none["idle"] > 0 /\ LoadsCounted(none)
    BY PageAssumption DEF LoadsCounted, LoadCount, LoadPhases
  <2>2. "idle" \in LoadPhases /\ "sent" \in LoadPhases \ {"idle"}
    BY DEF LoadPhases
  <2>3. loads = Move(none, "idle", "sent")
    BY DEF PageInit, OneSent
  <2> HIDE DEF none
  <2>4. LoadsCounted(loads) /\ loads["sent"] > 0
    BY <2>1, <2>2, <2>3, MoveCounted
  <2>5. loads["idle"] < MaxLoads
    BY <2>2, <2>4, UnderWay
  <2>6. /\ post = NoPost /\ reboot_required \in BOOLEAN
        /\ banner \in BOOLEAN /\ blind \in BOOLEAN /\ ~formsEnabled
    BY DEF PageInit
  <2> QED BY <2>4, <2>5, <2>6 DEF CardsInv, CardTypes, BannerOrAnswer, OneAtATime
<1>2. CardsInv /\ OneAtATime /\ [PageNext]_pageVars => (CardsInv /\ OneAtATime)'
  BY CardsStep, OneAtATimeStep
<1> QED BY <1>1, <1>2, PTL DEF PageSpec

\* When nothing is in flight, the banner of the page shows the reboot-required flag
\* of the device, however many polls and loads overlapped and in whatever order they
\* were answered or lost, unless the page had no way to know.
THEOREM BannerTellsTheTruth == PageSpec => []BannerTruthful
<1>1. CardsInv /\ OneAtATime => BannerTruthful
  <2> SUFFICES ASSUME CardsInv, Quiet, ~blind PROVE banner = reboot_required
    BY DEF BannerTruthful
  <2>1. loads["idle"] = MaxLoads /\ post = NoPost /\ loads["idle"] \in Nat
    BY DEF Quiet, configSaving, CardsInv, CardTypes, LoadsCounted,
           LoadPhases
  <2>2. banner <=> reboot_required
    BY <2>1 DEF CardsInv, BannerOrAnswer, AnswerPending
  <2>3. banner \in BOOLEAN /\ reboot_required \in BOOLEAN
    BY DEF CardsInv, CardTypes
  <2> QED BY <2>2, <2>3
<1> QED BY <1>1, CardsInvariant, PTL

=============================================================================
