------------------------------- MODULE UartNmea -------------------------------
(***************************************************************************)
(* The UART receive thread (uart_nmea.c): framing of the byte stream, the  *)
(* AIS self-MMSI filter in front of the NMEA bridge, and the change of its *)
(* configuration from another thread through one atomic.                   *)
(*                                                                         *)
(* A byte is data or the newline; the content of a line is an AIS frame    *)
(* and becomes known with its newline.  The AIS receiver at the other end  *)
(* of the wire sends messages of one to MaxTotal fragments; on each radio  *)
(* channel one message at a time is under way, sequence ids are used in    *)
(* rotation, and a frame may arrive damaged.                               *)
(***************************************************************************)
EXTENDS AisMmsiFilter

CONSTANT FrameMax     \* CONFIG_ESP_NMEA_BRIDGE_NMEA_FRAME_MAX_LEN

ASSUME UartAssumption == FrameMax \in Nat \ {0}

VARIABLES
    ais_effective_mmsi,  \* written by the configuration listener
    applied_mmsi, ais_filter, frame_len, dropping_overlong,
    pc,                  \* "outer" or "poll": the two loops of the thread
    linePos,             \* bytes of the current line so far, at most FrameMax + 2
    edge,                \* the previous line was FrameMax + 1 bytes long
    air,                 \* per channel: the message under way, {} if none
    id,                  \* the sequence id the receiver uses next
    lossy,               \* a fragment failed to reach the filter as it was sent
    last                 \* what became of the line that has just ended

airVars == <<air, id, lossy>>
lineVars == <<linePos, edge>>
vars == <<ais_effective_mmsi, applied_mmsi, ais_filter, frame_len,
          dropping_overlong, pc, lineVars, airVars, last>>

Nothing == [kind |-> "none"]

Init ==
    /\ ais_effective_mmsi \in Mmsis \cup {NoMmsi}
    /\ applied_mmsi = NoMmsi
    /\ ais_filter = FilterInit(NoMmsi)
    /\ frame_len = 0
    /\ dropping_overlong = FALSE
    /\ pc = "outer"
    /\ linePos = 0
    /\ edge = FALSE
    /\ air = [c \in Channels |-> {}]
    /\ id \in Ids
    /\ lossy = FALSE
    /\ last = Nothing

-----------------------------------------------------------------------------
\* uart_nmea_set_ais_config, called by the configuration listener: an MMSI, or
\* NoMmsi when the filter is disabled.
SetAisConfig(mmsi) ==
    /\ ais_effective_mmsi' = mmsi
    /\ UNCHANGED <<applied_mmsi, ais_filter, frame_len, dropping_overlong, pc,
                   lineVars, airVars>>
    /\ last' = Nothing

\* No message is tracked any longer once the filter is set up anew.
Untrack(a) == [c \in Channels |-> {[m EXCEPT !.tracked = FALSE] : m \in a[c]}]

\* Mutant: switching the filter off is not noticed.
IgnoresDisable == ais_effective_mmsi \notin {applied_mmsi, NoMmsi}
ConfigDiffers == ais_effective_mmsi # applied_mmsi

\* apply_ais_config_if_changed, at the top of the outer loop
ApplyAisConfig ==
    /\ pc = "outer"
    /\ pc' = "poll"
    /\ applied_mmsi' = ais_effective_mmsi
    /\ IF ConfigDiffers
          THEN /\ ais_filter' = FilterInit(ais_effective_mmsi)
               /\ air' = Untrack(air)
          ELSE UNCHANGED <<ais_filter, air>>
    /\ UNCHANGED <<ais_effective_mmsi, frame_len, dropping_overlong, lineVars,
                   id, lossy>>
    /\ last' = Nothing

\* uart_poll_in has no byte: the inner loop ends (and the thread may sleep).
PollEmpty ==
    /\ pc = "poll"
    /\ pc' = "outer"
    /\ UNCHANGED <<ais_effective_mmsi, applied_mmsi, ais_filter, frame_len,
                   dropping_overlong, lineVars, airVars>>
    /\ last' = Nothing


Cap(n) == IF n > FrameMax + 2 THEN FrameMax + 2 ELSE n

DataByte ==
    /\ pc = "poll"
    /\ linePos' = Cap(linePos + 1)
    /\ IF dropping_overlong
          THEN UNCHANGED <<frame_len, dropping_overlong>>
          ELSE IF frame_len < FrameMax
                  THEN frame_len' = frame_len + 1 /\ UNCHANGED dropping_overlong
                  ELSE frame_len' = 0 /\ dropping_overlong' = TRUE
    /\ UNCHANGED <<ais_effective_mmsi, applied_mmsi, ais_filter, pc, edge, airVars>>
    /\ last' = Nothing

-----------------------------------------------------------------------------
(* Lines: what the receiver sends, and what the thread makes of it. *)

\* The messages channel c may start now.  tracked: the first fragment was
\* filtered and nothing has happened since that would entitle the filter to
\* lose track of the message.
Starting(c) ==
    [ship : Mmsis, id : {id, NoId}, total : 1 .. MaxTotal, next : {1},
     tracked : {FALSE}]

\* The next fragment of a message, as an intact frame.
Fragment(m, c) == [vdm |-> TRUE, total |-> m.total, fragment |-> m.next,
                   id |-> m.id, channel |-> c, mmsi |-> m.ship]

\* What the filter's parser may find in place of f: the same, a frame that is no
\* valid VDM, one whose numbers do not parse, one whose payload is too short.
Received(f) == {f, [f EXCEPT !.vdm = FALSE], [f EXCEPT !.fragment = 0]}
               \cup (IF f.fragment = 1 THEN {[f EXCEPT !.mmsi = Unreadable]} ELSE {})

\* A newline reaches the thread; f is the line it ends.
Whole == ~dropping_overlong /\ frame_len < FrameMax
Filtered(f) == Whole /\ ShouldDrop(ais_filter, f)

\* Mutant: a newline does not end skipping.
NeverResync == dropping_overlong \/ ~Whole
SkipsNext == ~dropping_overlong /\ ~Whole

NewLine(f) ==
    /\ ais_filter' = IF Whole THEN AfterFrame(ais_filter, f) ELSE ais_filter
    /\ frame_len' = 0
    /\ dropping_overlong' = SkipsNext
    /\ edge' = (linePos = FrameMax)
    /\ linePos' = 0
    /\ UNCHANGED <<ais_effective_mmsi, applied_mmsi, pc>>

\* The receiver's message m on channel c moves on by one fragment, which the
\* thread got as f.
MessageStep(c, m, f) ==
    LET tracked == IF m.next = 1 THEN Filtered(f) /\ m.id # NoId
                                 ELSE m.tracked /\ f = Fragment(m, c) /\ Whole
        rest == IF m.next = m.total THEN {}
                ELSE {[m EXCEPT !.next = m.next + 1, !.tracked = tracked]}
        others == IF m.next = 1 /\ Filtered(f) THEN Untrack(air) ELSE air
    IN  air' = [others EXCEPT ![c] = rest]

\* A line with the next fragment of a message ends.
AisLine(c) ==
    /\ pc = "poll"
    /\ \E m \in IF air[c] = {} THEN Starting(c) ELSE air[c] : \E f \in Received(Fragment(m, c)) :
          /\ NewLine(f)
          /\ MessageStep(c, m, f)
          /\ id' = IF m.next = 1 /\ m.id # NoId THEN (id + 1) % IdCount ELSE id
          /\ lossy' = (lossy \/ f # Fragment(m, c) \/ ~Whole)
          /\ last' = [kind |-> IF Filtered(f) THEN "filtered"
                               ELSE IF Whole THEN "published" ELSE "lost",
                      ship |-> m.ship, own |-> ais_filter.own_mmsi,
                      tracked |-> m.next > 1 /\ m.tracked /\ f = Fragment(m, c)]

\* A line that is not AIS ends.
OtherLine ==
    /\ pc = "poll"
    /\ NewLine([vdm |-> FALSE])
    /\ last' = Nothing
    /\ UNCHANGED airVars

Next == \/ \E m \in Mmsis \cup {NoMmsi} : SetAisConfig(m)
        \/ ApplyAisConfig
        \/ PollEmpty
        \/ DataByte
        \/ \E c \in Channels : AisLine(c)
        \/ OtherLine

Spec == Init /\ [][Next]_vars

\* The thread runs, and empties the receive FIFO faster than the line fills it.
FairSpec == Spec /\ WF_vars(ApplyAisConfig) /\ SF_vars(PollEmpty)

-----------------------------------------------------------------------------
(* Properties. *)

\* What the thread hands to the filter and to the bridge is a line from its
\* first byte on, never the tail of one: outside of skipping, the buffer holds
\* all of the current line.  Skipping ends with the line that caused it, except
\* that a line of exactly FrameMax + 1 bytes takes the next line with it: its
\* newline is the byte that overflows.
WholeLines == IF dropping_overlong THEN linePos > FrameMax \/ edge
                                   ELSE frame_len = linePos

\* "drops only frames whose decoded AIS MMSI is confirmed to match the
\* configured own MMSI" (CONTEXT.md)
DropsOnlyOwn == last.kind = "filtered" => last.ship = last.own

\* As long as every fragment reaches the filter, it drops frames of the own
\* ship only, however the messages of two channels interleave, sequence ids
\* repeat and the own MMSI is changed in the middle of a message.
DropsOnlyOwnLossless == ~lossy => DropsOnlyOwn

\* Once the filter has dropped the first fragment of an own message it drops the
\* following ones, unless another own message, a new configuration or a damaged
\* frame has come in between: half a message never reaches the sinks otherwise.
OwnMessageDropped == last.kind = "published" => ~last.tracked

\* A live change of the AIS configuration takes effect while the line is busy.
ConfigApplied ==
    \A m \in Mmsis \cup {NoMmsi} :
        <>[](ais_effective_mmsi = m) => <>[](ais_filter.own_mmsi = m)
=============================================================================
