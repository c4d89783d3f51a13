---------------------------- MODULE UartNmeaProofs ----------------------------
(***************************************************************************)
(* Proofs about the UART receive thread and the AIS self-MMSI filter, for  *)
(* every frame length, number of channels, set of ships and message length.*)
(*                                                                         *)
(* Framing stands alone (LineInv).  For the filter, what it remembers is   *)
(* related to what the receiver has under way: a tracked message is the    *)
(* one remembered, at the fragment that comes next (TrackedFollowed), and  *)
(* while nothing is lost whatever is remembered is under way and the own   *)
(* ship's (SequenceUnderWay).                                              *)
(***************************************************************************)
EXTENDS UartNmea, TLAPS

(* The inductive invariant. *)

LineTypes ==
    /\ dropping_overlong \in BOOLEAN
    /\ linePos \in 0 .. FrameMax + 2
    /\ frame_len \in 0 .. FrameMax

Remembered == [id : Ids \cup {NoId}, channel : Channels,
               total : 2 .. MaxTotal, next : 2 .. MaxTotal]

Messages == [ship : Mmsis, id : Ids \cup {NoId}, total : 1 .. MaxTotal,
             next : 1 .. MaxTotal, tracked : BOOLEAN]

FilterTypes ==
    /\ ais_effective_mmsi \in Mmsis \cup {NoMmsi}
    /\ ais_filter \in [own_mmsi : Mmsis \cup {NoMmsi}, sequence : SUBSET Remembered]
    /\ \A s \in ais_filter.sequence : s.next <= s.total
    /\ \A s, t \in ais_filter.sequence : s = t

AirTypes ==
    /\ id \in Ids
    /\ air \in [Channels -> SUBSET Messages]
    /\ \A c \in Channels : \A m \in air[c] : m.next > 1 /\ m.next <= m.total

\* On one channel one message at a time is under way.
OneUnderWay == \A c \in Channels : \A m, n \in air[c] : m = n

\* A tracked message is the sequence the filter remembers, and the fragment the
\* filter waits for is the one the receiver sends next.
TrackedFollowed ==
    \A c \in Channels : \A m \in air[c] :
        m.tracked =>
            /\ ais_filter.own_mmsi # NoMmsi
            /\ ais_filter.sequence =
                  {[id |-> m.id, channel |-> c, total |-> m.total, next |-> m.next]}

\* The receiver is about to send the fragment the filter waits for, and the
\* message is the own ship's.
UnderWay(s) ==
    \E m \in air[s.channel] :
        /\ m.id = s.id /\ m.total = s.total /\ m.next = s.next
        /\ m.ship = ais_filter.own_mmsi

SequenceUnderWay == ~lossy => \A s \in ais_filter.sequence : UnderWay(s)

AirInv == FilterTypes /\ AirTypes /\ OneUnderWay
          /\ TrackedFollowed /\ SequenceUnderWay

UartInv == LineTypes /\ WholeLines /\ AirInv
           /\ DropsOnlyOwnLossless /\ OwnMessageDropped

USE AisAssumption, UartAssumption

-----------------------------------------------------------------------------
(* Framing. *)

\* A byte of any kind, and every other step, keeps the framing: the buffer holds
\* the whole line, or the thread skips for a reason.
LEMMA LineStep == LineTypes /\ WholeLines /\ [Next]_vars => LineTypes' /\ WholeLines'
<1> SUFFICES ASSUME LineTypes, WholeLines, [Next]_vars PROVE LineTypes' /\ WholeLines'
  OBVIOUS
<1> USE DEF LineTypes, WholeLines
<1>1. CASE UNCHANGED <<frame_len, dropping_overlong, lineVars>>
  BY <1>1 DEF lineVars
<1>2. CASE DataByte
  <2>1. CASE dropping_overlong
    BY <1>2, <2>1 DEF DataByte, Cap
  <2>2. CASE ~dropping_overlong /\ frame_len < FrameMax
    <3>1. frame_len' = frame_len + 1 /\ linePos' = frame_len + 1
      BY <1>2, <2>2 DEF DataByte, Cap
    <3>2. dropping_overlong' = dropping_overlong
      BY <1>2, <2>2 DEF DataByte
    <3> QED
      BY <2>2, <3>1, <3>2
  <2>3. CASE ~dropping_overlong /\ ~(frame_len < FrameMax)
    <3>1. frame_len' = 0 /\ linePos' = FrameMax + 1
      BY <1>2, <2>3 DEF DataByte, Cap
    <3>2. dropping_overlong' = TRUE
      BY <1>2, <2>3 DEF DataByte
    <3>3. dropping_overlong' /\ dropping_overlong' \in BOOLEAN
      BY <3>2, Zenon
    <3> QED
      BY <3>1, <3>3
  <2> QED
    BY <2>1, <2>2, <2>3
<1>3. ASSUME NEW f, NewLine(f)
      PROVE LineTypes' /\ WholeLines'
  <2>1. frame_len' = 0 /\ linePos' = 0
    BY <1>3 DEF NewLine
  <2>2. dropping_overlong' \in BOOLEAN
    BY <1>3 DEF NewLine, SkipsNext
  <2>3. dropping_overlong' => edge'
    BY <1>3 DEF NewLine, SkipsNext, Whole
  <2> QED
    BY <2>1, <2>2, <2>3
<1> QED
  BY <1>1, <1>2, <1>3
     DEF Next, vars, SetAisConfig, ApplyAisConfig, PollEmpty, AisLine, OtherLine

\* The thread starts with an empty buffer, before a line's first byte.
LEMMA LineInit == Init => LineTypes /\ WholeLines
<1> SUFFICES ASSUME Init PROVE LineTypes /\ WholeLines
  OBVIOUS
<1>1. ~dropping_overlong /\ dropping_overlong \in BOOLEAN
  BY Zenon DEF Init
<1>2. frame_len = 0 /\ linePos = 0
  BY DEF Init
<1> QED
  BY <1>1, <1>2 DEF LineTypes, WholeLines

\* What the thread hands to the filter and to the bridge is always a line from
\* its first byte on, for every maximum frame length and every stream of bytes:
\* uart_nmea's skipping never leaves the tail of an overlong line in the buffer.
THEOREM LinesStayWhole == Spec => []WholeLines
<1> QED
  BY LineInit, LineStep, PTL DEF Spec

-----------------------------------------------------------------------------
(* What one line does to the filter and to the messages under way. *)

\* The sequence the filter waits for is the one message m continues on channel c.
Expected(m, c) ==
    \E s \in ais_filter.sequence :
        s.total = m.total /\ s.next = m.next /\ s.channel = c /\ s.id = m.id

\* Only an intact frame is ever dropped, and an intact later fragment is dropped
\* exactly when the filter waits for it.
LEMMA DroppedIntact ==
    ASSUME FilterTypes, NEW c \in Channels, NEW m \in Messages,
           NEW f \in Received(Fragment(m, c))
    PROVE  /\ ShouldDrop(ais_filter, f) => f = Fragment(m, c) /\ ais_filter.own_mmsi # NoMmsi
           /\ ShouldDrop(ais_filter, f) /\ m.next = 1 => m.ship = ais_filter.own_mmsi
           /\ ShouldDrop(ais_filter, f) /\ m.next > 1 => Expected(m, c)
           /\ f = Fragment(m, c) /\ m.next > 1 /\ m.next <= m.total
              /\ ais_filter.own_mmsi # NoMmsi /\ Expected(m, c) => ShouldDrop(ais_filter, f)
<1> DEFINE g == Fragment(m, c)
<1>1. g = [vdm |-> TRUE, total |-> m.total, fragment |-> m.next,
           id |-> m.id, channel |-> c, mmsi |-> m.ship]
  BY DEF Fragment
<1>2. m.next \in Nat /\ m.total \in Nat /\ m.total # 0 /\ m.next # 0
  BY DEF Messages
<1>3. \/ f = g \/ f = [g EXCEPT !.vdm = FALSE] \/ f = [g EXCEPT !.fragment = 0]
      \/ (m.next = 1 /\ f = [g EXCEPT !.mmsi = Unreadable])
  BY DEF Received, Fragment
<1>4. CASE f = g
  <2>1. f.vdm /\ f.total = m.total /\ f.fragment = m.next /\ f.id = m.id
        /\ f.channel = c /\ f.mmsi = m.ship
    BY <1>1, <1>4
  <2>2. SequenceMatches(ais_filter, f) <=> Expected(m, c)
    BY <2>1 DEF SequenceMatches, Expected
  <2> QED
    BY <1>2, <1>4, <2>1, <2>2 DEF ShouldDrop, Numbered
<1>5. CASE f = [g EXCEPT !.vdm = FALSE]
  <2>1. ~f.vdm /\ f # g
    BY <1>1, <1>5
  <2> QED
    BY <2>1 DEF ShouldDrop, Numbered
<1>6. CASE f = [g EXCEPT !.fragment = 0]
  <2>1. f.fragment = 0 /\ f # g
    BY <1>1, <1>2, <1>6
  <2> QED
    BY <2>1 DEF ShouldDrop, Numbered
<1>7. CASE m.next = 1 /\ f = [g EXCEPT !.mmsi = Unreadable]
  <2>1. f.fragment = 1 /\ f.mmsi = Unreadable
    BY <1>1, <1>7
  <2>2. Unreadable # ais_filter.own_mmsi
    BY DEF FilterTypes
  <2> QED
    BY <1>2, <1>7, <2>1, <2>2 DEF ShouldDrop
<1> QED
  BY <1>3, <1>4, <1>5, <1>6, <1>7

\* Setting up the filter anew, or a new own message, ends the tracking of every
\* message and changes nothing else about it.
LEMMA UntrackKeeps ==
    ASSUME air \in [Channels -> SUBSET Messages]
    PROVE  /\ Untrack(air) \in [Channels -> SUBSET Messages]
           /\ \A c \in Channels : \A n \in Untrack(air)[c] :
                 ~n.tracked /\ \E m \in air[c] : n = [m EXCEPT !.tracked = FALSE]
           /\ \A c \in Channels : \A m \in air[c] :
                 [m EXCEPT !.tracked = FALSE] \in Untrack(air)[c]
<1>1. \A c \in Channels : Untrack(air)[c] = {[m EXCEPT !.tracked = FALSE] : m \in air[c]}
  BY DEF Untrack
<1>2. \A m \in Messages : [m EXCEPT !.tracked = FALSE] \in Messages
                          /\ ~([m EXCEPT !.tracked = FALSE]).tracked
  BY DEF Messages
<1>3. \A c \in Channels : air[c] \subseteq Messages
  OBVIOUS
<1>4. \A c \in Channels : Untrack(air)[c] \subseteq Messages
  BY <1>1, <1>2, <1>3
<1>5. Untrack(air) \in [Channels -> SUBSET Messages]
  BY <1>1, <1>4 DEF Untrack
<1>6. ASSUME NEW c \in Channels, NEW n \in Untrack(air)[c]
      PROVE ~n.tracked /\ \E m \in air[c] : n = [m EXCEPT !.tracked = FALSE]
  <2>1. PICK m \in air[c] : n = [m EXCEPT !.tracked = FALSE]
    BY <1>1
  <2> QED
    BY <1>2, <1>3, <2>1
<1>7. ASSUME NEW c \in Channels, NEW m \in air[c]
      PROVE [m EXCEPT !.tracked = FALSE] \in Untrack(air)[c]
  BY <1>1
<1> QED
  BY <1>5, <1>6, <1>7

\* The message a line may continue: one that starts on an idle channel, or the
\* one under way.
LEMMA Continued ==
    ASSUME AirTypes, NEW c \in Channels,
           NEW m \in IF air[c] = {} THEN Starting(c) ELSE air[c]
    PROVE  /\ m \in Messages /\ m.next <= m.total /\ m.next >= 1
           /\ m.next = 1 => air[c] = {} /\ ~m.tracked
           /\ m.next > 1 => m \in air[c]
<1>1. CASE air[c] = {}
  <2>1. m \in Starting(c)
    BY <1>1
  <2>2. id \in Ids
    BY DEF AirTypes
  <2>3. m \in [ship : Mmsis, id : Ids \cup {NoId}, total : 1 .. MaxTotal,
               next : {1}, tracked : {FALSE}]
    BY <2>1, <2>2 DEF Starting
  <2>4. m.next = 1 /\ m.total \in 1 .. MaxTotal /\ m.tracked = FALSE
    BY <2>3
  <2>5. ~m.tracked /\ m.tracked \in BOOLEAN
    BY <2>4, Zenon
  <2>6. m \in Messages
    BY <2>3, <2>4, <2>5 DEF Messages
  <2> QED
    BY <1>1, <2>4, <2>5, <2>6
<1>2. CASE air[c] # {}
  <2>1. m \in air[c] /\ m \in Messages /\ m.next > 1 /\ m.next <= m.total
    BY <1>2 DEF AirTypes
  <2>2. m.next \in Nat
    BY <2>1 DEF Messages
  <2> QED
    BY <2>1, <2>2
<1> QED
  BY <1>1, <1>2

\* What a line with a fragment leaves under way: on its own channel the rest of
\* the message, elsewhere the same messages, no longer tracked after a new own
\* message.
LEMMA AirAfter ==
    ASSUME AirTypes, OneUnderWay, NEW c \in Channels,
           NEW m \in IF air[c] = {} THEN Starting(c) ELSE air[c], NEW f,
           MessageStep(c, m, f)
    PROVE  /\ air' \in [Channels -> SUBSET Messages]
           /\ m.next = m.total => air'[c] = {}
           /\ m.next # m.total =>
                 \E n \in Messages :
                     /\ air'[c] = {n}
                     /\ n.ship = m.ship /\ n.id = m.id /\ n.total = m.total
                     /\ n.next = m.next + 1
                     /\ n.tracked => IF m.next = 1 THEN Filtered(f) /\ m.id # NoId
                                     ELSE m.tracked /\ f = Fragment(m, c) /\ Whole
           /\ \A d \in Channels \ {c} :
                 air'[d] = IF m.next = 1 /\ Filtered(f) THEN Untrack(air)[d] ELSE air[d]
<1> DEFINE tracked == IF m.next = 1 THEN Filtered(f) /\ m.id # NoId
                      ELSE m.tracked /\ f = Fragment(m, c) /\ Whole
           n == [m EXCEPT !.next = m.next + 1, !.tracked = tracked]
           rest == IF m.next = m.total THEN {} ELSE {n}
           others == IF m.next = 1 /\ Filtered(f) THEN Untrack(air) ELSE air
<1>1. air' = [others EXCEPT ![c] = rest]
  BY DEF MessageStep
<1>2. air \in [Channels -> SUBSET Messages]
  BY DEF AirTypes
<1>3. others \in [Channels -> SUBSET Messages]
  BY <1>2, UntrackKeeps
<1>4. m \in Messages /\ m.next <= m.total
  BY Continued
<1>5. tracked \in BOOLEAN
  <2>1. m.tracked \in BOOLEAN
    BY <1>4 DEF Messages
  <2> QED
    BY <2>1, Zenon DEF Filtered, Whole, ShouldDrop
<1> HIDE DEF tracked
<1>6. m.next # m.total =>
         /\ n \in Messages /\ n.next = m.next + 1 /\ n.ship = m.ship
         /\ n.id = m.id /\ n.total = m.total /\ n.tracked = tracked
  <2>1. m.next \in 1 .. MaxTotal /\ m.total \in 1 .. MaxTotal
    BY <1>4 DEF Messages
  <2>2. m.next # m.total => m.next + 1 \in 1 .. MaxTotal
    BY <1>4, <2>1
  <2> QED
    BY <1>4, <1>5, <2>1, <2>2 DEF Messages
<1>7. rest \in SUBSET Messages
  BY <1>6
<1> HIDE DEF others, n
<1>8. /\ air' \in [Channels -> SUBSET Messages] /\ air'[c] = rest
      /\ \A d \in Channels \ {c} : air'[d] = others[d]
  BY <1>1, <1>3, <1>7
<1>9. ASSUME m.next # m.total
      PROVE \E k \in Messages :
               /\ air'[c] = {k}
               /\ k.ship = m.ship /\ k.id = m.id /\ k.total = m.total
               /\ k.next = m.next + 1
               /\ k.tracked => tracked
  <2>1. air'[c] = {n}
    BY <1>8, <1>9
  <2>2. n.tracked => tracked
    BY <1>6, <1>9
  <2> QED
    BY <1>6, <1>9, <2>1, <2>2
<1>10. \A d \in Channels \ {c} :
          air'[d] = IF m.next = 1 /\ Filtered(f) THEN Untrack(air)[d] ELSE air[d]
  BY <1>8 DEF others
<1> QED
  BY <1>8, <1>9, <1>10 DEF tracked

\* What a line with a fragment leaves in the filter: nothing new when the frame is
\* published, the sequence of a new own message, or the next fragment to wait for.
LEMMA FilterAfter ==
    ASSUME FilterTypes, NEW c \in Channels, NEW m \in Messages, m.next >= 1,
           NEW f \in Received(Fragment(m, c)), NewLine(f)
    PROVE  /\ ~Filtered(f) => ais_filter' = ais_filter
           /\ ais_filter'.own_mmsi = ais_filter.own_mmsi
           /\ Filtered(f) => Whole /\ f = Fragment(m, c) /\ ais_filter.own_mmsi # NoMmsi
           /\ Filtered(f) /\ m.next = 1 =>
                 /\ m.ship = ais_filter.own_mmsi
                 /\ ais_filter' = [own_mmsi |-> ais_filter.own_mmsi, sequence |->
                       IF m.id = NoId \/ m.total < 2 THEN {}
                       ELSE {[id |-> m.id, channel |-> c, total |-> m.total, next |-> 2]}]
           /\ Filtered(f) /\ m.next > 1 =>
                 /\ Expected(m, c)
                 /\ ais_filter' = [own_mmsi |-> ais_filter.own_mmsi,
                                   sequence |-> Advance(ais_filter.sequence)]
<1>1. ais_filter = [own_mmsi |-> ais_filter.own_mmsi, sequence |-> ais_filter.sequence]
  BY DEF FilterTypes
<1>2. m.next \in Nat
  BY DEF Messages
<1>3. CASE ~Filtered(f)
  BY <1>3 DEF NewLine, AfterFrame, Filtered
<1>4. CASE Filtered(f)
  <2>1. Whole /\ ShouldDrop(ais_filter, f)
    BY <1>4 DEF Filtered
  <2>2. f = Fragment(m, c) /\ ais_filter.own_mmsi # NoMmsi
    BY <2>1, DroppedIntact
  <2>3. f.fragment = m.next /\ f.id = m.id /\ f.total = m.total /\ f.channel = c
    BY <2>2 DEF Fragment
  <2>4. ais_filter' = IF m.next > 1
                      THEN [ais_filter EXCEPT !.sequence = Advance(ais_filter.sequence)]
                      ELSE [ais_filter EXCEPT !.sequence = RememberSequence(f)]
    BY <2>1, <2>3 DEF NewLine, AfterFrame
  <2>5. CASE m.next = 1
    <3>1. m.ship = ais_filter.own_mmsi
      BY <2>1, <2>5, DroppedIntact
    <3>2. ais_filter' = [own_mmsi |-> ais_filter.own_mmsi, sequence |-> RememberSequence(f)]
      BY <1>1, <2>4, <2>5
    <3> QED
      BY <2>1, <2>2, <2>3, <2>5, <3>1, <3>2, <1>4 DEF RememberSequence
  <2>6. CASE m.next > 1
    <3>1. Expected(m, c)
      BY <2>1, <2>6, DroppedIntact
    <3>2. ais_filter' = [own_mmsi |-> ais_filter.own_mmsi,
                         sequence |-> Advance(ais_filter.sequence)]
      BY <1>1, <2>4, <2>6
    <3> QED
      BY <2>1, <2>2, <2>6, <3>1, <3>2, <1>4
  <2> QED
    BY <1>2, <2>5, <2>6
<1> QED
  BY <1>3, <1>4

\* The filter's next fragment, after the one it waited for.
LEMMA AdvanceKeeps ==
    ASSUME FilterTypes
    PROVE  /\ Advance(ais_filter.sequence) \in SUBSET Remembered
           /\ \A t \in Advance(ais_filter.sequence) :
                 /\ t.next <= t.total
                 /\ \E s \in ais_filter.sequence :
                       /\ s.next < s.total
                       /\ t = [id |-> s.id, channel |-> s.channel,
                               total |-> s.total, next |-> s.next + 1]
           /\ \A s \in ais_filter.sequence : s.next < s.total =>
                 [id |-> s.id, channel |-> s.channel,
                  total |-> s.total, next |-> s.next + 1] \in Advance(ais_filter.sequence)
<1>1. ASSUME NEW s \in ais_filter.sequence, s.next < s.total
      PROVE /\ [s EXCEPT !.next = s.next + 1] =
                   [id |-> s.id, channel |-> s.channel, total |-> s.total, next |-> s.next + 1]
            /\ [s EXCEPT !.next = s.next + 1] \in Remembered
            /\ ([s EXCEPT !.next = s.next + 1]).next <= ([s EXCEPT !.next = s.next + 1]).total
  <2>1. s \in Remembered
    BY DEF FilterTypes
  <2> QED
    BY <1>1, <2>1 DEF Remembered
<1>2. Advance(ais_filter.sequence) =
         {[s EXCEPT !.next = s.next + 1] : s \in {t \in ais_filter.sequence : t.next < t.total}}
  BY DEF Advance
<1>3. ASSUME NEW t \in Advance(ais_filter.sequence)
      PROVE /\ t \in Remembered /\ t.next <= t.total
            /\ \E s \in ais_filter.sequence :
                  /\ s.next < s.total
                  /\ t = [id |-> s.id, channel |-> s.channel,
                          total |-> s.total, next |-> s.next + 1]
  <2>1. PICK s \in ais_filter.sequence :
           s.next < s.total /\ t = [s EXCEPT !.next = s.next + 1]
    BY <1>2
  <2> QED
    BY <1>1, <2>1
<1>4. ASSUME NEW s \in ais_filter.sequence, s.next < s.total
      PROVE [id |-> s.id, channel |-> s.channel,
             total |-> s.total, next |-> s.next + 1] \in Advance(ais_filter.sequence)
  <2>1. [s EXCEPT !.next = s.next + 1] \in Advance(ais_filter.sequence)
    BY <1>2, <1>4
  <2> QED
    BY <1>1, <1>4, <2>1
<1> QED
  BY <1>3, <1>4

-----------------------------------------------------------------------------
(* The filter's memory and the messages under way stay related. *)

\* A line with a fragment keeps the relation between the filter's memory and the
\* air.  The filter changes in two ways: a new own message replaces what it
\* remembered, and then no other message is tracked; or the one fragment it waits
\* for has come, and both move on by one.
LEMMA AisLineKeeps ==
    ASSUME AirInv, NEW c \in Channels,
           NEW m \in IF air[c] = {} THEN Starting(c) ELSE air[c],
           NEW f \in Received(Fragment(m, c)),
           NewLine(f), MessageStep(c, m, f),
           id' = IF m.next = 1 /\ m.id # NoId THEN (id + 1) % IdCount ELSE id,
           lossy' <=> (lossy \/ f # Fragment(m, c) \/ ~Whole)
    PROVE  AirInv'
<1> USE DEF AirInv
<1>1. /\ m \in Messages /\ m.next <= m.total /\ m.next >= 1
      /\ m.next = 1 => air[c] = {} /\ ~m.tracked
      /\ m.next > 1 => m \in air[c]
  BY Continued
<1>2. m.next \in 1 .. MaxTotal /\ m.total \in 1 .. MaxTotal /\ m.id \in Ids \cup {NoId}
      /\ m.ship \in Mmsis
  BY <1>1 DEF Messages
<1>3. /\ ~Filtered(f) => ais_filter' = ais_filter
      /\ ais_filter'.own_mmsi = ais_filter.own_mmsi
      /\ Filtered(f) => Whole /\ f = Fragment(m, c) /\ ais_filter.own_mmsi # NoMmsi
      /\ Filtered(f) /\ m.next = 1 =>
            /\ m.ship = ais_filter.own_mmsi
            /\ ais_filter' = [own_mmsi |-> ais_filter.own_mmsi, sequence |->
                  IF m.id = NoId \/ m.total < 2 THEN {}
                  ELSE {[id |-> m.id, channel |-> c, total |-> m.total, next |-> 2]}]
      /\ Filtered(f) /\ m.next > 1 =>
            /\ Expected(m, c)
            /\ ais_filter' = [own_mmsi |-> ais_filter.own_mmsi,
                              sequence |-> Advance(ais_filter.sequence)]
  BY <1>1, FilterAfter
<1>4. /\ air' \in [Channels -> SUBSET Messages]
      /\ m.next = m.total => air'[c] = {}
      /\ m.next # m.total =>
            \E n \in Messages :
                /\ air'[c] = {n}
                /\ n.ship = m.ship /\ n.id = m.id /\ n.total = m.total
                /\ n.next = m.next + 1
                /\ n.tracked => IF m.next = 1 THEN Filtered(f) /\ m.id # NoId
                                ELSE m.tracked /\ f = Fragment(m, c) /\ Whole
      /\ \A d \in Channels \ {c} :
            air'[d] = IF m.next = 1 /\ Filtered(f) THEN Untrack(air)[d] ELSE air[d]
  BY AirAfter
<1>5. /\ \A d \in Channels : \A n \in Untrack(air)[d] :
            ~n.tracked /\ \E k \in air[d] : n = [k EXCEPT !.tracked = FALSE]
      /\ \A d \in Channels : \A k \in air[d] :
            [k EXCEPT !.tracked = FALSE] \in Untrack(air)[d]
  BY UntrackKeeps DEF AirTypes
<1>6. f = Fragment(m, c) /\ Whole /\ m.next > 1 /\ Expected(m, c)
         /\ ais_filter.own_mmsi # NoMmsi => Filtered(f)
  BY <1>1, DroppedIntact DEF Filtered
<1>7. ais_filter \in [own_mmsi : Mmsis \cup {NoMmsi}, sequence : SUBSET Remembered]
  BY DEF FilterTypes
<1>8. FilterTypes'
  <2>1. ais_effective_mmsi' \in Mmsis \cup {NoMmsi}
    BY DEF FilterTypes, NewLine
  <2>2. CASE ~Filtered(f)
    BY <1>3, <2>1, <2>2 DEF FilterTypes
  <2>3. CASE Filtered(f) /\ m.next = 1
    <3>1. ais_filter'.sequence \in SUBSET Remembered
          /\ \A s \in ais_filter'.sequence : s.next <= s.total
      BY <1>2, <1>3, <2>3 DEF Remembered
    <3>2. \A s, t \in ais_filter'.sequence : s = t
      BY <1>3, <2>3
    <3> QED
      BY <1>3, <1>7, <2>1, <2>3, <3>1, <3>2 DEF FilterTypes
  <2>4. CASE Filtered(f) /\ m.next > 1
    <3>1. ais_filter'.sequence = Advance(ais_filter.sequence)
      BY <1>3, <2>4
    <3>2. ais_filter'.sequence \in SUBSET Remembered
          /\ \A s \in ais_filter'.sequence : s.next <= s.total
      BY <3>1, AdvanceKeeps
    <3>3. \A s, t \in ais_filter'.sequence : s = t
      BY <3>1, AdvanceKeeps DEF FilterTypes
    <3> QED
      BY <1>3, <1>7, <2>1, <2>4, <3>2, <3>3 DEF FilterTypes
  <2> QED
    BY <1>2, <2>2, <2>3, <2>4
<1>9. AirTypes'
  <2>1. id' \in Ids
    BY DEF AirTypes, Ids
  <2>2. ASSUME NEW n \in air'[c] PROVE n.next > 1 /\ n.next <= n.total
    BY <1>1, <1>2, <1>4, <2>2
  <2>3. ASSUME NEW d \in Channels \ {c}, NEW n \in air'[d]
        PROVE n.next > 1 /\ n.next <= n.total
    <3>1. CASE n \in air[d]
      BY <3>1 DEF AirTypes
    <3>2. CASE n \in Untrack(air)[d]
      <4>1. PICK k \in air[d] : n = [k EXCEPT !.tracked = FALSE]
        BY <1>5, <3>2
      <4>2. k \in Messages /\ k.next > 1 /\ k.next <= k.total
        BY DEF AirTypes
      <4> QED
        BY <4>1, <4>2 DEF Messages
    <3> QED
      BY <1>4, <2>3, <3>1, <3>2
  <2> QED
    BY <1>4, <2>1, <2>2, <2>3 DEF AirTypes
<1>10. OneUnderWay'
  <2>1. \A n, k \in air'[c] : n = k
    BY <1>4
  <2>2. ASSUME NEW d \in Channels \ {c} PROVE \A n, k \in air'[d] : n = k
    <3>1. \A n, k \in air[d] : n = k
      BY DEF OneUnderWay
    <3>2. ASSUME NEW n \in Untrack(air)[d], NEW k \in Untrack(air)[d] PROVE n = k
      <4>1. PICK n0 \in air[d] : n = [n0 EXCEPT !.tracked = FALSE]
        BY <1>5
      <4>2. PICK k0 \in air[d] : k = [k0 EXCEPT !.tracked = FALSE]
        BY <1>5
      <4> QED
        BY <3>1, <4>1, <4>2
    <3> QED
      BY <1>4, <2>2, <3>1, <3>2
  <2> QED
    BY <2>1, <2>2 DEF OneUnderWay
<1>11. TrackedFollowed'
  <2> SUFFICES ASSUME NEW d \in Channels, NEW n \in air'[d], n.tracked
               PROVE /\ ais_filter'.own_mmsi # NoMmsi
                     /\ ais_filter'.sequence =
                           {[id |-> n.id, channel |-> d, total |-> n.total, next |-> n.next]}
    BY DEF TrackedFollowed
  <2>1. CASE d = c
    <3>1. /\ m.next # m.total
          /\ n.id = m.id /\ n.total = m.total /\ n.next = m.next + 1
          /\ IF m.next = 1 THEN Filtered(f) /\ m.id # NoId
             ELSE m.tracked /\ f = Fragment(m, c) /\ Whole
      BY <1>4, <2>1
    <3>2. CASE m.next = 1
      <4>1. Filtered(f) /\ m.id # NoId /\ ~(m.total < 2) /\ n.next = 2
        BY <1>1, <1>2, <3>1, <3>2
      <4>2. ais_filter'.sequence =
               {[id |-> m.id, channel |-> c, total |-> m.total, next |-> 2]}
        BY <1>3, <3>2, <4>1
      <4> QED
        BY <1>3, <2>1, <3>1, <4>1, <4>2
    <3>3. CASE m.next > 1
      <4>1. m.tracked /\ f = Fragment(m, c) /\ Whole /\ m \in air[c]
        BY <1>1, <3>1, <3>3
      <4> DEFINE s == [id |-> m.id, channel |-> c, total |-> m.total, next |-> m.next]
      <4>2. ais_filter.own_mmsi # NoMmsi /\ ais_filter.sequence = {s}
        BY <4>1 DEF TrackedFollowed
      <4>3. s.id = m.id /\ s.channel = c /\ s.total = m.total /\ s.next = m.next
        OBVIOUS
      <4> HIDE DEF s
      <4>4. Expected(m, c)
        BY <4>2, <4>3 DEF Expected
      <4>5. ais_filter'.sequence = Advance(ais_filter.sequence)
        BY <1>3, <1>6, <3>3, <4>1, <4>2, <4>4
      <4>6. s.next < s.total
        BY <1>1, <1>2, <3>1, <4>3
      <4>7. Advance(ais_filter.sequence) =
               {[id |-> s.id, channel |-> s.channel, total |-> s.total, next |-> s.next + 1]}
        <5>1. \A t \in Advance(ais_filter.sequence) : \E u \in ais_filter.sequence :
                 t = [id |-> u.id, channel |-> u.channel, total |-> u.total,
                      next |-> u.next + 1]
          BY AdvanceKeeps
        <5>2. [id |-> s.id, channel |-> s.channel, total |-> s.total, next |-> s.next + 1]
                 \in Advance(ais_filter.sequence)
          BY <4>2, <4>6, AdvanceKeeps
        <5> QED
          BY <4>2, <5>1, <5>2
      <4> QED
        BY <1>3, <2>1, <3>1, <4>2, <4>3, <4>5, <4>7
    <3> QED
      BY <1>2, <3>2, <3>3
  <2>2. CASE d # c
    <3>1. ~(m.next = 1 /\ Filtered(f)) /\ n \in air[d]
      BY <1>4, <1>5, <2>2
    <3>2. /\ ais_filter.own_mmsi # NoMmsi
          /\ ais_filter.sequence =
                {[id |-> n.id, channel |-> d, total |-> n.total, next |-> n.next]}
      BY <3>1 DEF TrackedFollowed
    <3>3. ~Expected(m, c)
      BY <2>2, <3>2 DEF Expected
    <3>4. ~Filtered(f)
      BY <1>2, <1>3, <3>1, <3>3
    <3> QED
      BY <1>3, <3>2, <3>4
  <2> QED
    BY <2>1, <2>2
<1>12. SequenceUnderWay'
  <2> SUFFICES ASSUME ~lossy', NEW s \in ais_filter'.sequence
               PROVE \E n \in air'[s.channel] :
                        /\ n.id = s.id /\ n.total = s.total /\ n.next = s.next
                        /\ n.ship = ais_filter'.own_mmsi
    BY DEF SequenceUnderWay, UnderWay
  <2>1. ~lossy /\ f = Fragment(m, c) /\ Whole
    OBVIOUS
  <2>2. \A t \in ais_filter.sequence :
           \E k \in air[t.channel] :
              /\ k.id = t.id /\ k.total = t.total /\ k.next = t.next
              /\ k.ship = ais_filter.own_mmsi
    BY <2>1 DEF SequenceUnderWay, UnderWay
  <2>3. CASE Filtered(f) /\ m.next = 1
    <3>1. m.ship = ais_filter.own_mmsi
      BY <1>3, <2>3
    <3>2. ~(m.total < 2)
          /\ s = [id |-> m.id, channel |-> c, total |-> m.total, next |-> 2]
      BY <1>3, <2>3
    <3>3. m.next # m.total
      BY <1>2, <2>3, <3>2
    <3> QED
      BY <1>3, <1>4, <2>3, <3>1, <3>2, <3>3
  <2>4. CASE Filtered(f) /\ m.next > 1
    <3>1. s \in Advance(ais_filter.sequence)
      BY <1>3, <2>4
    <3>2. PICK t \in ais_filter.sequence :
             /\ t.next < t.total
             /\ s = [id |-> t.id, channel |-> t.channel, total |-> t.total, next |-> t.next + 1]
      BY <3>1, AdvanceKeeps
    <3>3. t.total = m.total /\ t.next = m.next /\ t.channel = c /\ t.id = m.id
      BY <1>3, <2>4 DEF Expected, FilterTypes
    <3>4. m.ship = ais_filter.own_mmsi
      BY <1>1, <2>2, <2>4, <3>3 DEF OneUnderWay
    <3>5. m.next # m.total
      BY <1>2, <3>2, <3>3
    <3> QED
      BY <1>3, <1>4, <3>2, <3>3, <3>4, <3>5
  <2>5. CASE ~Filtered(f)
    <3>1. s \in ais_filter.sequence /\ s.channel \in Channels
      BY <1>3, <1>7, <2>5 DEF Remembered
    <3>2. PICK k \in air[s.channel] :
             /\ k.id = s.id /\ k.total = s.total /\ k.next = s.next
             /\ k.ship = ais_filter.own_mmsi
      BY <2>2, <3>1
    <3>3. s.channel # c
      <4> SUFFICES ASSUME s.channel = c PROVE FALSE
        OBVIOUS
      <4>1. m.next > 1 /\ m \in air[c]
        BY <1>1, <1>2, <3>2
      <4>2. k = m
        BY <3>2, <4>1 DEF OneUnderWay
      <4>3. Expected(m, c)
        BY <3>1, <3>2, <4>2 DEF Expected
      <4>4. ais_filter.own_mmsi # NoMmsi
        BY <1>2, <3>2, <4>2
      <4> QED
        BY <1>6, <2>1, <2>5, <4>1, <4>3, <4>4
    <3>4. air'[s.channel] = air[s.channel]
      BY <1>4, <2>5, <3>1, <3>3
    <3> QED
      BY <1>3, <3>2, <3>4
  <2> QED
    BY <1>2, <2>3, <2>4, <2>5
<1> QED
  BY <1>8, <1>9, <1>10, <1>11, <1>12

\* A filter that is set up anew remembers nothing, and no message is tracked.
LEMMA ApplyKeeps == AirInv /\ ApplyAisConfig => AirInv'
<1> SUFFICES ASSUME AirInv, ApplyAisConfig PROVE AirInv'
  OBVIOUS
<1> USE DEF AirInv
<1>1. UNCHANGED <<ais_effective_mmsi, id, lossy>>
  BY DEF ApplyAisConfig
<1>2. CASE ~ConfigDiffers
  <2>1. UNCHANGED <<ais_filter, air>>
    BY <1>2 DEF ApplyAisConfig
  <2> QED
    BY <1>1, <2>1 DEF FilterTypes, AirTypes, OneUnderWay, TrackedFollowed,
                      SequenceUnderWay, UnderWay
<1>3. CASE ConfigDiffers
  <2>1. ais_filter' = [own_mmsi |-> ais_effective_mmsi, sequence |-> {}]
        /\ air' = Untrack(air)
    BY <1>3 DEF ApplyAisConfig, FilterInit
  <2>2. air \in [Channels -> SUBSET Messages]
    BY DEF AirTypes
  <2>3. /\ air' \in [Channels -> SUBSET Messages]
        /\ \A c \in Channels : \A n \in air'[c] :
              ~n.tracked /\ \E m \in air[c] : n = [m EXCEPT !.tracked = FALSE]
    BY <2>1, <2>2, UntrackKeeps
  <2>4. FilterTypes'
    BY <1>1, <2>1 DEF FilterTypes
  <2>5. ASSUME NEW c \in Channels, NEW n \in air'[c]
        PROVE n.next > 1 /\ n.next <= n.total
    <3>1. PICK m \in air[c] : n = [m EXCEPT !.tracked = FALSE]
      BY <2>3
    <3>2. m \in Messages /\ m.next > 1 /\ m.next <= m.total
      BY DEF AirTypes
    <3> QED
      BY <3>1, <3>2 DEF Messages
  <2>6. AirTypes'
    BY <1>1, <2>3, <2>5 DEF AirTypes
  <2>7. ASSUME NEW c \in Channels, NEW n \in air'[c], NEW k \in air'[c] PROVE n = k
    <3>1. PICK n0 \in air[c] : n = [n0 EXCEPT !.tracked = FALSE]
      BY <2>3
    <3>2. PICK k0 \in air[c] : k = [k0 EXCEPT !.tracked = FALSE]
      BY <2>3
    <3> QED
      BY <3>1, <3>2 DEF OneUnderWay
  <2>8. OneUnderWay'
    BY <2>7 DEF OneUnderWay
  <2>9. TrackedFollowed' /\ SequenceUnderWay'
    BY <2>1, <2>3 DEF TrackedFollowed, SequenceUnderWay
  <2> QED
    BY <2>4, <2>6, <2>8, <2>9
<1> QED
  BY <1>2, <1>3

\* A line that is not AIS leaves the filter as it is.
LEMMA OtherLineKeeps == OtherLine => ais_filter' = ais_filter
BY DEF OtherLine, NewLine, AfterFrame, ShouldDrop, Numbered

\* The relation holds from the start on and is kept by every step.
LEMMA AirInit == Init => AirInv
BY DEF Init, AirInv, FilterInit, FilterTypes, AirTypes, OneUnderWay,
       TrackedFollowed, SequenceUnderWay

\* Only a line with a fragment and a new configuration touch the filter.
LEMMA AirStep == AirInv /\ [Next]_vars => AirInv'
<1> SUFFICES ASSUME AirInv, [Next]_vars PROVE AirInv'
  OBVIOUS
<1>1. ASSUME UNCHANGED <<ais_filter, airVars>>,
             ais_effective_mmsi' \in Mmsis \cup {NoMmsi}
      PROVE AirInv'
  BY <1>1 DEF AirInv, airVars, FilterTypes, AirTypes, OneUnderWay, TrackedFollowed,
              SequenceUnderWay, UnderWay
<1>2. ais_effective_mmsi \in Mmsis \cup {NoMmsi}
  BY DEF AirInv, FilterTypes
<1>3. ASSUME NEW mmsi \in Mmsis \cup {NoMmsi}, SetAisConfig(mmsi) PROVE AirInv'
  BY <1>1, <1>3 DEF SetAisConfig
<1>4. CASE PollEmpty \/ DataByte \/ UNCHANGED vars
  BY <1>1, <1>2, <1>4 DEF PollEmpty, DataByte, vars
<1>5. CASE OtherLine
  BY <1>1, <1>2, <1>5, OtherLineKeeps DEF OtherLine, NewLine
<1>6. ASSUME NEW c \in Channels, AisLine(c) PROVE AirInv'
  <2>1. PICK m \in IF air[c] = {} THEN Starting(c) ELSE air[c] :
           \E f \in Received(Fragment(m, c)) :
              /\ NewLine(f) /\ MessageStep(c, m, f)
              /\ id' = IF m.next = 1 /\ m.id # NoId THEN (id + 1) % IdCount ELSE id
              /\ lossy' = (lossy \/ f # Fragment(m, c) \/ ~Whole)
    BY <1>6, Zenon DEF AisLine
  <2>2. PICK f \in Received(Fragment(m, c)) :
           /\ NewLine(f) /\ MessageStep(c, m, f)
           /\ id' = IF m.next = 1 /\ m.id # NoId THEN (id + 1) % IdCount ELSE id
           /\ lossy' = (lossy \/ f # Fragment(m, c) \/ ~Whole)
    BY <2>1, Zenon
  <2>3. lossy' <=> (lossy \/ f # Fragment(m, c) \/ ~Whole)
    BY <2>2, Zenon
  <2> QED
    BY <2>2, <2>3, AisLineKeeps
<1> QED
  BY <1>3, <1>4, <1>5, <1>6, ApplyKeeps DEF Next

-----------------------------------------------------------------------------
(* What becomes of a line. *)

\* Whatever the filter drops while nothing is lost is the own ship's, and an
\* intact later fragment of a tracked message is not published.
LEMMA VerdictStep ==
    AirInv /\ DropsOnlyOwnLossless /\ OwnMessageDropped /\ [Next]_vars
        => DropsOnlyOwnLossless' /\ OwnMessageDropped'
<1> SUFFICES ASSUME AirInv, DropsOnlyOwnLossless, OwnMessageDropped, [Next]_vars
             PROVE  DropsOnlyOwnLossless' /\ OwnMessageDropped'
  OBVIOUS
<1>1. CASE last' = Nothing
  BY <1>1 DEF Nothing, DropsOnlyOwnLossless, DropsOnlyOwn, OwnMessageDropped
<1>2. CASE UNCHANGED vars
  BY <1>2 DEF vars, airVars, DropsOnlyOwnLossless, DropsOnlyOwn, OwnMessageDropped
<1>3. ASSUME NEW c \in Channels, AisLine(c)
      PROVE DropsOnlyOwnLossless' /\ OwnMessageDropped'
  <2>1. PICK m \in IF air[c] = {} THEN Starting(c) ELSE air[c] :
           \E f \in Received(Fragment(m, c)) :
              /\ NewLine(f)
              /\ lossy' = (lossy \/ f # Fragment(m, c) \/ ~Whole)
              /\ last' = [kind |-> IF Filtered(f) THEN "filtered"
                                   ELSE IF Whole THEN "published" ELSE "lost",
                          ship |-> m.ship, own |-> ais_filter.own_mmsi,
                          tracked |-> m.next > 1 /\ m.tracked /\ f = Fragment(m, c)]
    BY <1>3, Zenon DEF AisLine
  <2>2. PICK f \in Received(Fragment(m, c)) :
           /\ NewLine(f)
           /\ lossy' = (lossy \/ f # Fragment(m, c) \/ ~Whole)
           /\ last' = [kind |-> IF Filtered(f) THEN "filtered"
                                ELSE IF Whole THEN "published" ELSE "lost",
                       ship |-> m.ship, own |-> ais_filter.own_mmsi,
                       tracked |-> m.next > 1 /\ m.tracked /\ f = Fragment(m, c)]
    BY <2>1, Zenon
  <2>3. /\ last'.ship = m.ship /\ last'.own = ais_filter.own_mmsi
        /\ last'.tracked <=> m.next > 1 /\ m.tracked /\ f = Fragment(m, c)
        /\ last'.kind = "filtered" => Filtered(f)
        /\ last'.kind = "published" => Whole /\ ~Filtered(f)
    BY <2>2
  <2>4. lossy' <=> (lossy \/ f # Fragment(m, c) \/ ~Whole)
    BY <2>2, Zenon
  <2>5. /\ m \in Messages /\ m.next <= m.total /\ m.next >= 1 /\ m.next \in Nat
        /\ m.next > 1 => m \in air[c]
    BY Continued DEF AirInv, Messages
  <2>6. ASSUME ~lossy, Filtered(f) PROVE m.ship = ais_filter.own_mmsi
    <3>1. CASE m.next = 1
      BY <2>6, <3>1, <2>5, DroppedIntact DEF AirInv, Filtered
    <3>2. CASE m.next > 1
      <4>1. Expected(m, c)
        BY <2>6, <3>2, <2>5, DroppedIntact DEF AirInv, Filtered
      <4>2. PICK s \in ais_filter.sequence :
               s.total = m.total /\ s.next = m.next /\ s.channel = c /\ s.id = m.id
        BY <4>1 DEF Expected
      <4>3. \E k \in air[c] : k.ship = ais_filter.own_mmsi
        BY <2>6, <4>2 DEF AirInv, SequenceUnderWay, UnderWay
      <4> QED
        BY <2>5, <3>2, <4>3 DEF AirInv, OneUnderWay
    <3> QED
      BY <2>5, <3>1, <3>2
  <2>7. ASSUME m.next > 1, m.tracked, f = Fragment(m, c), Whole PROVE Filtered(f)
    <3>1. /\ ais_filter.own_mmsi # NoMmsi
          /\ ais_filter.sequence =
                {[id |-> m.id, channel |-> c, total |-> m.total, next |-> m.next]}
      BY <2>5, <2>7 DEF AirInv, TrackedFollowed
    <3>2. Expected(m, c)
      BY <3>1 DEF Expected
    <3> QED
      BY <2>5, <2>7, <3>1, <3>2, DroppedIntact DEF AirInv, Filtered
  <2>8. DropsOnlyOwnLossless'
    BY <2>3, <2>4, <2>6 DEF DropsOnlyOwnLossless, DropsOnlyOwn
  <2>9. OwnMessageDropped'
    BY <2>3, <2>7 DEF OwnMessageDropped
  <2> QED
    BY <2>8, <2>9
<1> QED
  BY <1>1, <1>2, <1>3
     DEF Next, SetAisConfig, ApplyAisConfig, PollEmpty, DataByte, OtherLine

\* Framing, the relation between filter and air, and both verdicts hold in every
\* reachable state.
THEOREM UartInvariant == Spec => []UartInv
<1>1. Init => UartInv
  <2>1. Init => last.kind = "none"
    BY DEF Init, Nothing
  <2>2. Init => DropsOnlyOwnLossless /\ OwnMessageDropped
    BY <2>1 DEF DropsOnlyOwnLossless, DropsOnlyOwn, OwnMessageDropped
  <2> QED
    BY <2>2, LineInit, AirInit DEF UartInv
<1>2. UartInv /\ [Next]_vars => UartInv'
  BY LineStep, AirStep, VerdictStep DEF UartInv
<1> QED
  BY <1>1, <1>2, PTL DEF Spec

\* ais_mmsi_filter_should_drop drops frames of the own ship only as long as every
\* fragment reaches it, for any number of channels, ids in rotation and message
\* lengths, and however the own MMSI is changed in the middle of a message.
THEOREM OnlyOwnShipDropped == Spec => []DropsOnlyOwnLossless
<1>1. UartInv => DropsOnlyOwnLossless
  BY DEF UartInv
<1> QED
  BY <1>1, UartInvariant, PTL

\* Once the filter has dropped the first fragment of an own message, none of its
\* intact later fragments is published while nothing has come in between.
THEOREM OwnMessageNeverSplit == Spec => []OwnMessageDropped
<1>1. UartInv => OwnMessageDropped
  BY DEF UartInv
<1> QED
  BY <1>1, UartInvariant, PTL
=============================================================================
