---------------------------- MODULE AisMmsiFilter ----------------------------
(***************************************************************************)
(* The AIS self-MMSI filter (ais_mmsi_filter.c) as operators on the filter *)
(* structure.                                                              *)
(*                                                                         *)
(* A complete NMEA frame is seen the way the filter parses it:             *)
(*   vdm      - the checksum is valid, there are seven fields and the      *)
(*              formatter is VDM                                           *)
(*   total, fragment - the two numbers; 0 when a field is empty, not a     *)
(*              number or above 255, all of which the filter treats alike  *)
(*   id       - the sequence id, NoId when empty or longer than 8          *)
(*   channel  - the radio channel                                          *)
(*   mmsi     - the MMSI in the payload, Unreadable when decode_mmsi fails;*)
(*              only looked at in a first fragment                         *)
(***************************************************************************)
EXTENDS Naturals

CONSTANTS
    Mmsis,        \* MMSIs of ships
    NoMmsi,       \* own_mmsi = 0: the filter is inactive
    Unreadable,   \* decode_mmsi returned false
    IdCount,      \* sequence ids are 0 .. IdCount - 1
    NoId,
    Channels,
    MaxTotal      \* bound on the fragments of a message

ASSUME AisAssumption ==
    /\ NoMmsi \notin Mmsis
    /\ Unreadable \notin Mmsis \cup {NoMmsi}
    /\ IdCount \in Nat \ {0}
    /\ NoId \notin Nat
    /\ MaxTotal \in Nat \ {0, 1}

Ids == 0 .. IdCount - 1

\* ais_mmsi_filter_init.  filter->sequence is the empty set while it is not
\* active, else the set of one record: the key of the sequence that is
\* remembered (id, channel, total) and the fragment expected next.
FilterInit(mmsi) == [own_mmsi |-> mmsi, sequence |-> {}]

\* What a frame must be for the filter to look at it any further.
Numbered(f) == f.vdm /\ f.total # 0 /\ f.fragment # 0 /\ f.fragment <= f.total

\* Mutant: the channel is not compared.
MatchesAnyChannel(filter, f) ==
    \E s \in filter.sequence : s.total = f.total /\ s.next = f.fragment /\ s.id = f.id

SequenceMatches(filter, f) ==
    \E s \in filter.sequence :
        s.total = f.total /\ s.next = f.fragment /\ s.channel = f.channel /\ s.id = f.id

ShouldDrop(filter, f) ==
    /\ filter.own_mmsi # NoMmsi
    /\ Numbered(f)
    /\ IF f.fragment > 1 THEN SequenceMatches(filter, f) ELSE f.mmsi = filter.own_mmsi

RememberSequence(f) ==
    IF f.id = NoId \/ f.total < 2
       THEN {}
       ELSE {[id |-> f.id, channel |-> f.channel, total |-> f.total, next |-> 2]}

\* Mutant: the expected fragment does not move on.
ForgetToAdvance(seq) == seq

\* next_fragment++, and the end of the sequence
Advance(seq) ==
    {[s EXCEPT !.next = s.next + 1] : s \in {t \in seq : t.next < t.total}}

\* The filter after ais_mmsi_filter_should_drop: only a dropped frame changes it.
AfterFrame(filter, f) ==
    IF ~ShouldDrop(filter, f) THEN filter
    ELSE IF f.fragment > 1 THEN [filter EXCEPT !.sequence = Advance(filter.sequence)]
    ELSE [filter EXCEPT !.sequence = RememberSequence(f)]
=============================================================================
