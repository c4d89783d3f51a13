------------------------------ MODULE WebServer ------------------------------
(***************************************************************************)
(* The HTTP server of the web app (web_app.c): one thread accepts a        *)
(* connection, reads one request into a fixed buffer, dispatches it,       *)
(* answers and closes.  What the handlers do to the configuration and to   *)
(* the OTA slots is in BridgeConfig and OtaUpdate; here a handler is the   *)
(* order in which it receives, checks and sends; a status request takes a  *)
(* telemetry snapshot on the way.                                          *)
(*                                                                         *)
(* A byte string is its length.  A request is where its header ends and    *)
(* the Content-Length it states.                                           *)
(***************************************************************************)
EXTENDS BridgeTelemetry, Sequences, FiniteSets, SequencesExt, FiniteSetsExt

CONSTANTS
    Clients,
    Readers,       \* the clients that keep reading what they are sent
    BufSize,       \* WEB_APP_RX_BUF_SIZE
    ConfigMax,     \* WEB_APP_CONFIG_BODY_MAX
    MaxLength,     \* bound on the Content-Length of a request
    Backlog,       \* of listen()
    TxBuf          \* bytes the network stack takes for a client that does not read

ASSUME WebAssumption ==
    /\ Readers \subseteq Clients
    /\ {BufSize, ConfigMax, MaxLength, Backlog, TxBuf} \subseteq Nat \ {0}
    /\ ConfigMax <= BufSize

NoClient == "none"
Absent == -1                                  \* no Content-Length
Kinds == {"config", "upload", "status", "small", "asset", "malformed"}

\* A header of BufSize + 1 bytes is one that does not end within the buffer.
\* The length is read of POST requests with a body only.
Request == [kind : {"config", "upload"}, header : 1..(BufSize + 1),
            length : {Absent} \cup 0..MaxLength]
           \cup [kind : Kinds \ {"config", "upload"}, header : 1..(BufSize + 1),
                 length : {Absent}]
NoRequest == [kind |-> "malformed", header |-> 1, length |-> Absent]

VARIABLES
    waiting,       \* established connections nobody has accepted, in order
    fd,            \* the client being served, or NoClient
    pc,            \* "accept", "header", "config", "upload", "status", "send",
                   \* "close"
    request,       \* what fd is sending
    received,      \* bytes of the buffer filled by read_http_request
    body_len,      \* bytes of the body at hand; for an upload, uploaded
    parsedEnd,     \* end, in the buffer, of the last body given to the JSON parser
    unsent         \* bytes of the response send_all has not handed over

server == <<waiting, fd, pc, request, received, body_len, parsedEnd, unsent>>
vars == <<server, telemetry>>

Init ==
    /\ TelemetryInit
    /\ waiting = <<>>
    /\ fd = NoClient
    /\ pc = "accept"
    /\ request = NoRequest
    /\ received = 0 /\ body_len = 0 /\ parsedEnd = 0 /\ unsent = 0

-----------------------------------------------------------------------------
(* Connections *)

Connect(c) ==
    /\ c # fd /\ c \notin ToSet(waiting)
    /\ Len(waiting) < Backlog
    /\ waiting' = Append(waiting, c)
    /\ UNCHANGED <<fd, pc, request, received, body_len, parsedEnd, unsent>>

\* The bytes of a short answer and of a web asset
Respond(size) == pc' = "send" /\ unsent' = size
Short == 1
Asset == TxBuf + 1

\* web_accept and set_receive_timeout, which may fail.  A failed accept is
\* repeated a second later.
Accept ==
    /\ pc = "accept" /\ waiting # <<>>
    /\ fd' = Head(waiting) /\ waiting' = Tail(waiting)
    /\ request' \in Request
    /\ \/ pc' = "header" /\ UNCHANGED unsent
       \/ Respond(Short)
    /\ received' = 0 /\ body_len' = 0 /\ parsedEnd' = 0

\* The server closes the connection whatever the handler did.
Close ==
    /\ pc = "close"
    /\ fd' = NoClient /\ pc' = "accept" /\ request' = NoRequest
    /\ received' = 0 /\ body_len' = 0 /\ parsedEnd' = 0 /\ unsent' = 0
    /\ UNCHANGED waiting

-----------------------------------------------------------------------------
(* read_http_request *)

Same == UNCHANGED <<waiting, fd, request>>

Body == received' - request.header

BodyFits(has) == has <= request.length

\* ota_update_begin refuses an empty image and may fail otherwise.
StartUpload ==
    IF request.length # Absent /\ BodyFits(Body) /\ request.length > 0
    THEN \/ pc' = "upload" /\ body_len' = Body /\ UNCHANGED unsent
         \/ Respond(Short) /\ UNCHANGED body_len
    ELSE Respond(Short) /\ UNCHANGED body_len

\* Mutant: the bound of read_remaining_body includes the end of the buffer.
FlushWithBuffer(length, offset) == length <= BufSize - offset
RoomForNul(length, offset) == length < BufSize - offset

StartConfig ==
    IF /\ request.length # Absent
       /\ request.length <= ConfigMax
       /\ BodyFits(Body)
       /\ RoomForNul(request.length, request.header)
    THEN pc' = "config" /\ body_len' = Body /\ UNCHANGED unsent
    ELSE Respond(Short) /\ UNCHANGED body_len

Dispatch ==
    CASE request.kind = "upload" -> StartUpload
      [] request.kind = "config" -> StartConfig
      [] request.kind = "status" -> pc' = "status" /\ UNCHANGED <<body_len, unsent>>
      [] request.kind = "asset" -> Respond(Asset) /\ UNCHANGED body_len
      [] OTHER -> Respond(Short) /\ UNCHANGED body_len

Room == BufSize - received

\* One chunk; the request is dispatched as soon as its header is complete.  A
\* receive that is interrupted (EINTR) is repeated.
RecvHeader ==
    /\ pc = "header"
    /\ \E chunk \in 1..Room : received' = received + chunk
    /\ IF received' >= request.header THEN Dispatch
       ELSE IF received' = BufSize THEN Respond(Short) /\ UNCHANGED body_len
       ELSE UNCHANGED <<pc, body_len, unsent>>
    /\ Same /\ UNCHANGED parsedEnd

-----------------------------------------------------------------------------
(* handle_config_update and handle_ota_upload *)

RecvConfig ==
    /\ pc = "config" /\ body_len < request.length
    /\ \E chunk \in 1..(request.length - body_len) : body_len' = body_len + chunk
    /\ Same /\ UNCHANGED <<pc, received, parsedEnd, unsent>>

\* json_obj_parse, the saves, and the answer
ParseConfig ==
    /\ pc = "config" /\ body_len >= request.length
    /\ parsedEnd' = request.header + request.length
    /\ Respond(Short)
    /\ Same /\ UNCHANGED <<received, body_len>>

Want == Min({BufSize, request.length - body_len})

\* One chunk to the slot; writing it may fail.
RecvUpload ==
    /\ pc = "upload" /\ body_len < request.length
    /\ \E chunk \in 1..Want : body_len' = body_len + chunk
    /\ UNCHANGED <<pc, unsent>> \/ Respond(Short)
    /\ Same /\ UNCHANGED <<received, parsedEnd>>

FinishUpload ==
    /\ pc = "upload" /\ body_len >= request.length
    /\ Respond(Short)
    /\ Same /\ UNCHANGED <<received, body_len, parsedEnd>>

\* write_status_json and its answer: bridge_telemetry_get_snapshot in two steps
StatusCollect == pc = "status" /\ Collect /\ UNCHANGED server
StatusRespond ==
    /\ pc = "status"
    /\ BuildSnapshot
    /\ Respond(Short)
    /\ Same /\ UNCHANGED <<received, body_len, parsedEnd>>

\* Mutant: without SO_RCVTIMEO a receive does not end by itself.
NoTimeout == FALSE
\* A receive is under way, and ends after WEB_APP_RECV_TIMEOUT_MS.
Receiving == \/ pc = "header"
             \/ pc \in {"config", "upload"} /\ body_len < request.length

\* recv returns 0 or an error: the client has closed, or nothing came in time.
RecvFails ==
    /\ Receiving
    /\ Respond(Short)
    /\ Same /\ UNCHANGED <<received, body_len, parsedEnd>>

-----------------------------------------------------------------------------
(* send_all, for which no timeout is set *)

\* An answer that does not fit in the send buffer needs a client that reads.
SendSome ==
    /\ pc = "send"
    /\ fd \in Readers \/ unsent <= TxBuf
    /\ unsent' \in 0..(unsent - 1)
    /\ pc' = IF unsent' = 0 THEN "close" ELSE pc
    /\ Same /\ UNCHANGED <<received, body_len, parsedEnd>>

\* The client has closed or reset the connection.
SendFails ==
    /\ pc = "send"
    /\ pc' = "close" /\ unsent' = 0
    /\ Same /\ UNCHANGED <<received, body_len, parsedEnd>>

-----------------------------------------------------------------------------
Receive == RecvHeader \/ RecvConfig \/ RecvUpload
Handle == ParseConfig \/ FinishUpload \/ RecvFails \/ SendSome
Progress == \/ (Accept \/ Handle \/ Close) /\ UNCHANGED telemetry
            \/ StatusCollect \/ StatusRespond
Environment == (FrameAccepted \/ Tick) /\ UNCHANGED server
Next == \/ ((\E c \in Clients : Connect(c)) \/ Receive \/ SendFails) /\ UNCHANGED telemetry
        \/ Progress \/ Environment

Spec == Init /\ [][Next]_vars

\* The thread runs and a receive ends, with data or without.  Nothing obliges
\* a client to send or to close.
FairSpec == Spec /\ WF_vars(Progress)

-----------------------------------------------------------------------------
(* Properties *)

\* "the body must not end flush with the buffer": however the chunks of a
\* request fall, the JSON parser finds a byte of the buffer behind the body,
\* and the whole body before it; nothing is received beyond the buffer.
RoomBehindBody ==
    /\ received <= BufSize
    /\ parsedEnd < BufSize
    /\ parsedEnd > 0 => body_len = request.length

\* "one stalled client cannot wedge the single server thread": whoever is
\* connected is served, whatever the clients before it send or fail to send, as
\* long as they read what they are sent.
NextIsServed == \A c \in Clients : c \in ToSet(waiting) ~> fd = c
=============================================================================
