---------------------------- MODULE FrameBroadcast ----------------------------
(***************************************************************************)
(* What the NMEA bridge promises, without threads, locks, slots and the    *)
(* steps of its queue operations: frames are accepted in order, wait in a  *)
(* backlog, and are delivered one by one, each to all subscribers at once. *)
(* Backlog and subscriptions are bounded and give up their oldest frame,   *)
(* and only when they are full.  A subscription starts empty.              *)
(***************************************************************************)
EXTENDS Naturals, Sequences, FiniteSets

CONSTANTS
    Sessions,                   \* who may subscribe
    MaxSinks,                   \* subscriptions at a time
    IngestDepth, SinkDepth,     \* frames that backlog and subscription hold
    NoFrame                     \* current, when no frame is being delivered

VARIABLES
    accepted,     \* number of frames accepted; a frame is its number
    backlog,      \* frames not yet taken for delivery
    current,      \* the frame taken for delivery
    subscribed,   \* sessions with a subscription
    queue         \* per session: frames delivered and not yet read

bvars == <<accepted, backlog, current, subscribed, queue>>

\* The newest `depth` frames of q and then f
KeepNewest(q, f, depth) ==
    IF Len(q) < depth THEN Append(q, f) ELSE Append(Tail(q), f)

BInit ==
    /\ accepted = 0
    /\ backlog = <<>>
    /\ current = NoFrame
    /\ subscribed = {}
    /\ queue = [s \in Sessions |-> <<>>]

Accept ==
    /\ accepted' = accepted + 1
    /\ backlog' = KeepNewest(backlog, accepted', IngestDepth)
    /\ UNCHANGED <<current, subscribed, queue>>

Take ==
    /\ current = NoFrame
    /\ backlog # <<>>
    /\ current' = Head(backlog)
    /\ backlog' = Tail(backlog)
    /\ UNCHANGED <<accepted, subscribed, queue>>

Deliver ==
    /\ current # NoFrame
    /\ queue' = [s \in Sessions |->
                    IF s \in subscribed THEN KeepNewest(queue[s], current, SinkDepth)
                                        ELSE queue[s]]
    /\ current' = NoFrame
    /\ UNCHANGED <<accepted, backlog, subscribed>>

Subscribe(s) ==
    /\ s \notin subscribed
    /\ Cardinality(subscribed) < MaxSinks
    /\ subscribed' = subscribed \cup {s}
    /\ UNCHANGED <<accepted, backlog, current, queue>>

Read(s) ==
    /\ s \in subscribed
    /\ queue[s] # <<>>
    /\ queue' = [queue EXCEPT ![s] = Tail(@)]
    /\ UNCHANGED <<accepted, backlog, current, subscribed>>

Unsubscribe(s) ==
    /\ s \in subscribed
    /\ subscribed' = subscribed \ {s}
    /\ queue' = [queue EXCEPT ![s] = <<>>]
    /\ UNCHANGED <<accepted, backlog, current>>

BNext == \/ Accept \/ Take \/ Deliver
         \/ \E s \in Sessions : Subscribe(s) \/ Read(s) \/ Unsubscribe(s)

BSafety == BInit /\ [][BNext]_bvars

\* What has been accepted is delivered unless newer frames displace it.
BSpec == BSafety /\ WF_bvars(Take) /\ WF_bvars(Deliver)
=============================================================================
