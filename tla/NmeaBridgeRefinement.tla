------------------------- MODULE NmeaBridgeRefinement -------------------------
(***************************************************************************)
(* The bridge implements FrameBroadcast.  A put that has begun counts as   *)
(* done, and a frame counts as delivered to every open sink as soon as the *)
(* dispatcher holds sinks_lock: nobody who reads a queue can run before    *)
(* the three steps of put_drop_oldest, and the loop over the sinks, are    *)
(* through.                                                                *)
(***************************************************************************)
EXTENDS NmeaBridge

\* A queue once put_drop_oldest has returned
Displaced(q, f, depth) == IF Len(q) < depth THEN Append(q, f) ELSE Append(Tail(q), f)

Backlog == CASE uartPc = "idle"  -> ingest
             [] uartPc = "drop"  -> Append(Tail(ingest), frames_in)
             [] uartPc = "reput" -> Append(ingest, frames_in)

InHand == IF dispPc = "lock" THEN frame ELSE 0

\* What slot i holds once the dispatcher's current round is over
Delivered(i) ==
    IF dispPc \in {"slot", "drop", "reput"} /\ slot <= i
       THEN Displaced(msgq[i], frame, SinkDepth)
       ELSE msgq[i]

Subscribed == {s \in Sessions : HoldsHandle(s)}

Queue == [s \in Sessions |-> IF s \in Subscribed THEN Delivered(sinkId[s]) ELSE <<>>]

Broadcast == INSTANCE FrameBroadcast WITH
    NoFrame <- 0,
    accepted <- frames_in, backlog <- Backlog, current <- InHand,
    subscribed <- Subscribed, queue <- Queue

\* The frame path behaves like one atomic, lossy broadcast, however the UART
\* thread, the dispatcher and the sessions are interleaved: no session sees a
\* frame half delivered, a recycled slot starts empty, only full queues lose
\* frames and only their oldest, and every accepted frame that is not displaced
\* is delivered.
ImplementsBroadcast == Broadcast!BSpec
=============================================================================
