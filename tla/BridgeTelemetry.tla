--------------------------- MODULE BridgeTelemetry ---------------------------
(***************************************************************************)
(* The NMEA input state of a telemetry snapshot (bridge_telemetry.c).      *)
(*                                                                         *)
(* A snapshot is taken for each status request.  It compares the bridge's  *)
(* frames_in counter with the one of the snapshot before and calls the     *)
(* input active for a window after the snapshot that saw it change.  The   *)
(* Wi-Fi fields are in WifiManager; the others are copies of counters.     *)
(***************************************************************************)
EXTENDS Integers

CONSTANTS
    Window,        \* BRIDGE_TELEMETRY_NMEA_INPUT_WINDOW_MS, in ticks
    CounterMod     \* 2^32, the range of frames_in

ASSUME TelemetryAssumption == Window \in Nat /\ CounterMod \in Nat \ {0, 1}

Never == -1
Oldest == Window + 1      \* ages are counted up to here

VARIABLES
    frames_in,          \* nmea_bridge_stats.frames_in
    initialized, last_bridge_frames_in,
    lastFrameAge,       \* ticks since last_bridge_frame_ms; Never for INT64_MIN
    collected, inputs,  \* a snapshot has its inputs, and their frames_in
    input_state,        \* of the last snapshot
    frameAge,           \* ticks since the last accepted frame
    newFrames           \* frames accepted since the last collected counter

state == <<initialized, last_bridge_frames_in, lastFrameAge>>
telemetry == <<frames_in, state, collected, inputs, input_state, frameAge, newFrames>>

TelemetryInit ==
    /\ frames_in = 0
    /\ initialized = FALSE /\ last_bridge_frames_in = 0 /\ lastFrameAge = 0
    /\ collected = FALSE /\ inputs = 0 /\ input_state = "idle"
    /\ frameAge = Never /\ newFrames = 0

Incremented == (frames_in + 1) % CounterMod

\* nmea_bridge_publish_frame accepts a frame.
FrameAccepted ==
    /\ newFrames < CounterMod - 1
    /\ frames_in' = Incremented
    /\ newFrames' = newFrames + 1
    /\ frameAge' = 0
    /\ UNCHANGED <<state, collected, inputs, input_state>>

\* collect_inputs
Collect ==
    /\ ~collected
    /\ collected' = TRUE
    /\ inputs' = frames_in
    /\ newFrames' = 0
    /\ UNCHANGED <<frames_in, state, input_state, frameAge>>

\* Mutant: the counter is compared for growth, which its wrap is not.
Grown == inputs > last_bridge_frames_in
Changed == inputs # last_bridge_frames_in

LastSeen ==
    IF ~initialized THEN (IF inputs > 0 THEN 0 ELSE Never)
    ELSE IF Changed THEN 0
    ELSE lastFrameAge

WithinWindow(since) == since # Never /\ since <= Window

\* bridge_telemetry_build_snapshot, with the time read now
BuildSnapshot ==
    /\ collected
    /\ initialized' = TRUE
    /\ last_bridge_frames_in' = inputs
    /\ lastFrameAge' = LastSeen
    /\ input_state' = IF WithinWindow(LastSeen) THEN "active" ELSE "idle"
    /\ collected' = FALSE /\ inputs' = 0
    /\ UNCHANGED <<frames_in, frameAge, newFrames>>

Older(a) == IF a \in {Never, Oldest} THEN a ELSE a + 1

\* Collecting the inputs and building the snapshot take less than a tick;
\* frames may still arrive in between.
Tick ==
    /\ ~collected
    /\ frameAge' = Older(frameAge)
    /\ lastFrameAge' = IF initialized THEN Older(lastFrameAge) ELSE lastFrameAge
    /\ UNCHANGED <<frames_in, initialized, last_bridge_frames_in, collected, inputs,
                   input_state, newFrames>>

-----------------------------------------------------------------------------
(* Properties *)

\* A snapshot never calls the input idle while a frame was accepted within the
\* window and before its inputs were collected, however long the request before
\* it took or was ago, and over the wrap of the counter.
InputNotMissed ==
    [][collected /\ ~collected' /\ frameAge \in 0..Window /\ newFrames = 0
         => input_state' = "active"]_telemetry
=============================================================================
