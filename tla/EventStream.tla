------------------------------- MODULE EventStream -------------------------------
(*****************************************************************************)
(* The gateway's event stream (gateway/stream.py): events are numbered       *)
(* process-wide and put on one bounded queue per reader; a reader that falls *)
(* behind loses its oldest events and is told how many.  Each reader has a   *)
(* task of its own on the event loop, a socket behind it and a peer that may *)
(* read slowly or hang up.                                                   *)
(*                                                                           *)
(* An event is its number: what it carries plays no part here.               *)
(*****************************************************************************)
EXTENDS Naturals, Sequences

CONSTANTS
    Readers,      \* connections to events.sock; one is used again once it is over
    Steady,       \* those whose peers go on reading; any other may stop for good
    QueueLimit,   \* QUEUE_LIMIT: events one reader may fall behind by
    HighWater,    \* lines a socket takes before drain() waits for the peer
    MaxSeq        \* bound: events one gateway process emits

ASSUME QueueLimitAssumption == QueueLimit \in Nat \ {0}
ASSUME SteadyAssumption == Steady \subseteq Readers
ASSUME BoundsAssumption == HighWater \in Nat /\ MaxSeq \in Nat

VARIABLES
    seq,        \* EventStream._seq
    phase,      \* where each reader's task is: not subscribed, in asyncio.wait, in drain
    queue,      \* Subscriber._events: the numbers of the events queued
    lost,       \* Subscriber._lost: the number of the last event dropped, 0 for None
    lostCount,  \* Subscriber._lost_count
    wire,       \* lines written to the socket and not yet read by the peer
    gone,       \* the peer has hung up
    pos         \* history: the last event each reader's lines account for

vars == <<seq, phase, queue, lost, lostCount, wire, gone, pos>>

Subscribed(r) == phase[r] # "off"

EventLine(n) == [kind |-> "event", seq |-> n, count |-> 1]
DroppedLine(n, c) == [kind |-> "dropped", seq |-> n, count |-> c]

Line == [kind : {"event", "dropped"}, seq : Nat, count : Nat]

Init ==
    /\ seq = 0
    /\ phase = [r \in Readers |-> "off"]
    /\ queue = [r \in Readers |-> <<>>]
    /\ lost = [r \in Readers |-> 0]
    /\ lostCount = [r \in Readers |-> 0]
    /\ wire = [r \in Readers |-> <<>>]
    /\ gone = [r \in Readers |-> FALSE]
    /\ pos = [r \in Readers |-> 0]

-----------------------------------------------------------------------------
(* The stream. *)

Full(r) == Len(queue[r]) >= QueueLimit

\* (mutant) the limit is forgotten
PutQueueUnbounded(r, n) == Append(queue[r], n)

\* Subscriber.put: what one reader's queue becomes with event n appended.
PutQueue(r, n) == Append(IF Full(r) THEN Tail(queue[r]) ELSE queue[r], n)
PutLost(r) == IF Full(r) THEN Head(queue[r]) ELSE lost[r]
PutLostCount(r) == IF Full(r) THEN lostCount[r] + 1 ELSE lostCount[r]

\* EventStream.emit: the next number, on the queue of every subscriber.
Emit ==
    /\ seq < MaxSeq
    /\ seq' = seq + 1
    /\ queue' = [r \in Readers |-> IF Subscribed(r) THEN PutQueue(r, seq + 1) ELSE queue[r]]
    /\ lost' = [r \in Readers |-> IF Subscribed(r) THEN PutLost(r) ELSE lost[r]]
    /\ lostCount' = [r \in Readers |-> IF Subscribed(r) THEN PutLostCount(r) ELSE lostCount[r]]
    /\ UNCHANGED <<phase, wire, gone, pos>>

\* A peer connects: serve.reader starts with a fresh Subscriber.
Subscribe(r) ==
    /\ ~Subscribed(r)
    /\ phase' = [phase EXCEPT ![r] = "waiting"]
    /\ queue' = [queue EXCEPT ![r] = <<>>]
    /\ lost' = [lost EXCEPT ![r] = 0]
    /\ lostCount' = [lostCount EXCEPT ![r] = 0]
    /\ wire' = [wire EXCEPT ![r] = <<>>]
    /\ gone' = [gone EXCEPT ![r] = FALSE]
    /\ pos' = [pos EXCEPT ![r] = seq]
    /\ UNCHANGED seq

\* A line leaves for the peer; what is written to a peer that is gone is lost.
Write(r, line) ==
    /\ wire' = [wire EXCEPT ![r] = IF gone[r] THEN @ ELSE Append(@, line)]
    /\ pos' = [pos EXCEPT ![r] = line.seq]
    /\ phase' = [phase EXCEPT ![r] = "draining"]

\* (mutant) the count is not reset with the event it goes with
TakeLossOnly(r) == lost' = [lost EXCEPT ![r] = 0] /\ UNCHANGED <<lostCount, seq>>

\* (mutant) the stand-in is an event of the stream, with a number of its own
TakeLossAndNumber(r) ==
    /\ lost' = [lost EXCEPT ![r] = 0]
    /\ lostCount' = [lostCount EXCEPT ![r] = 0]
    /\ seq' = seq + 1

\* Subscriber._dropped: the loss is told, and spends no number of the stream's.
TakeLoss(r) ==
    /\ lost' = [lost EXCEPT ![r] = 0]
    /\ lostCount' = [lostCount EXCEPT ![r] = 0]
    /\ UNCHANGED seq

\* Subscriber.next when something was lost: the stand-in comes before the queue.
NextDropped(r) ==
    /\ phase[r] = "waiting"
    /\ lost[r] # 0
    /\ Write(r, DroppedLine(lost[r], lostCount[r]))
    /\ TakeLoss(r)
    /\ UNCHANGED <<queue, gone>>

\* Subscriber.next when nothing was lost: the oldest event queued.
NextEvent(r) ==
    /\ phase[r] = "waiting"
    /\ lost[r] = 0
    /\ queue[r] # <<>>
    /\ Write(r, EventLine(Head(queue[r])))
    /\ queue' = [queue EXCEPT ![r] = Tail(@)]
    /\ UNCHANGED <<seq, lost, lostCount, gone>>

\* (mutant) one task writes to all readers and waits for each of them
RoomForAll(r) == \A x \in Readers : Len(wire[x]) <= HighWater

\* What the reader's own socket has room for.
Room(r) == Len(wire[r]) <= HighWater

\* drain() returns once the socket has room: where a slow reader falls behind.
Drained(r) ==
    /\ phase[r] = "draining"
    /\ ~gone[r]
    /\ Room(r)
    /\ phase' = [phase EXCEPT ![r] = "waiting"]
    /\ UNCHANGED <<seq, queue, lost, lostCount, wire, gone, pos>>

\* (mutant) the end of the peer's half of the socket is not watched
HangupUnwatched(r) == FALSE

\* The hangup is done and there is nothing to send.
HangupSeen(r) == phase[r] = "waiting" /\ lost[r] = 0 /\ queue[r] = <<>>

\* serve.reader ends: the hangup is seen, or drain raises.
Unsubscribe(r) ==
    /\ gone[r]
    /\ phase[r] = "draining" \/ HangupSeen(r)
    /\ phase' = [phase EXCEPT ![r] = "off"]
    /\ UNCHANGED <<seq, queue, lost, lostCount, wire, gone, pos>>

\* What is left of a socket whose writer is gone: what the kernel already holds
\* can still be read, what asyncio had not handed over cannot.
Kept(r, n) == SubSeq(wire[r], 1, IF n < Len(wire[r]) THEN n ELSE Len(wire[r]))

\* The gateway process stops and another starts: its sockets end and the
\* numbering starts over.
Restart ==
    /\ seq' = 0
    /\ phase' = [r \in Readers |-> "off"]
    /\ queue' = [r \in Readers |-> <<>>]
    /\ lost' = [r \in Readers |-> 0]
    /\ lostCount' = [r \in Readers |-> 0]
    /\ \E n \in [Readers -> 0..HighWater + 1] : wire' = [r \in Readers |-> Kept(r, n[r])]
    /\ UNCHANGED <<gone, pos>>

-----------------------------------------------------------------------------
(* The peers. *)

\* The peer takes the next line off its socket, while connected or after the end.
Receive(r) ==
    /\ wire[r] # <<>>
    /\ wire' = [wire EXCEPT ![r] = Tail(@)]
    /\ UNCHANGED <<seq, phase, queue, lost, lostCount, gone, pos>>

\* The peer closes its socket; what it had not read goes with it.
HangUp(r) ==
    /\ ~gone[r]
    /\ gone' = [gone EXCEPT ![r] = TRUE]
    /\ wire' = [wire EXCEPT ![r] = <<>>]
    /\ UNCHANGED <<seq, phase, queue, lost, lostCount, pos>>

Hand(r) == NextDropped(r) \/ NextEvent(r)

Next ==
    \/ Emit
    \/ Restart
    \/ \E r \in Readers :
          \/ Subscribe(r) \/ Hand(r) \/ Drained(r) \/ Unsubscribe(r)
          \/ Receive(r) \/ HangUp(r)

\* Every reader's task gets its turn on the event loop.  Only the steady peers
\* go on reading: another may stop for good without hanging up.  Nothing makes
\* the cooler talk or the gateway restart.
Fairness ==
    /\ \A r \in Readers :
        WF_vars(Hand(r)) /\ WF_vars(Drained(r)) /\ WF_vars(Unsubscribe(r))
    /\ \A r \in Steady : WF_vars(Receive(r))

Spec == Init /\ [][Next]_vars
FairSpec == Spec /\ Fairness

-----------------------------------------------------------------------------
(* Properties. *)

\* Every variable has its type, and no reader, however slow, makes the gateway
\* hold more than QueueLimit events for it (Subscriber.put).
TypeOK ==
    /\ seq \in 0..MaxSeq
    /\ phase \in [Readers -> {"off", "waiting", "draining"}]
    /\ queue \in [Readers -> Seq(1..MaxSeq)]
    /\ \A r \in Readers : Len(queue[r]) <= QueueLimit
    /\ lost \in [Readers -> 0..MaxSeq]
    /\ lostCount \in [Readers -> Nat]
    /\ wire \in [Readers -> Seq(Line)]
    /\ gone \in [Readers -> BOOLEAN]
    /\ pos \in [Readers -> 0..MaxSeq]

\* The queue q holds the numbers after base, up to last.
Tiles(q, base, last) ==
    /\ base <= last
    /\ Len(q) = last - base
    /\ \A i \in 1..Len(q) : q[i] = base + i

\* What a reader was told of, what it lost and what is queued for it tile the
\* numbers from its subscription to the last event, without a hole and without
\* an overlap: the lost events follow the last one told, as many as the count
\* says, and the queue follows them.  Something is lost only while the queue is
\* full (Subscriber.put, next and _dropped).
Accounted(r) ==
    /\ Tiles(queue[r], pos[r] + lostCount[r], seq)
    /\ lost[r] = IF lostCount[r] = 0 THEN 0 ELSE pos[r] + lostCount[r]
    /\ lostCount[r] > 0 => Len(queue[r]) = QueueLimit

Accounting == \A r \in Readers : Subscribed(r) => Accounted(r)

\* Each reader, whatever the others do, is told of the events in order, one by
\* one or as the count of all but the newest QueueLimit.
ReaderFeed(r) == INSTANCE Feed WITH on <- Subscribed(r), pos <- pos[r]
FeedPromise ==
    /\ \A r \in Readers : ReaderFeed(r)!Init
    /\ [][\A r \in Readers : [ReaderFeed(r)!Next]_(ReaderFeed(r)!vars)]_vars

\* A subscribed reader whose peer goes on reading is told of every event, or its
\* connection ends, although the task of another stands in drain for ever:
\* nobody's slowness holds the others up (the module comment's "nobody is waited
\* for", and a task of its own for each reader).
EventuallyTold ==
    \A r \in Steady : \A n \in 1..MaxSeq :
        (Subscribed(r) /\ seq = n) ~> (~Subscribed(r) \/ pos[r] >= n)

\* A reader that hangs up is unsubscribed, even one with nothing to be told
\* (serve.reader watches the other half of the socket for that).
HangupNoticed == \A r \in Readers : (Subscribed(r) /\ gone[r]) ~> ~Subscribed(r)
=================================================================================
