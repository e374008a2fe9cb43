---------------------------------- MODULE Feed ----------------------------------
(*****************************************************************************)
(* What the gateway's event stream promises one reader, with the queues, the *)
(* sockets and the other readers forgotten: events are numbered, a reader is *)
(* told about them in order, and the only ones it may be told of as a count  *)
(* instead of one by one are those older than the newest QueueLimit.         *)
(* EventStream implements this for each of its readers.                      *)
(*****************************************************************************)
EXTENDS Naturals

CONSTANT QueueLimit     \* events a reader may fall behind by

VARIABLES
    seq,    \* the number of the last event
    on,     \* whether the reader is subscribed
    pos     \* the number of the last event the reader has been told of

vars == <<seq, on, pos>>

Init == seq = 0 /\ on = FALSE /\ pos = 0

Emit == seq' = seq + 1 /\ UNCHANGED <<on, pos>>

\* A reader is told of nothing from before it subscribed.
Subscribe == ~on /\ on' = TRUE /\ pos' = seq /\ UNCHANGED seq

Unsubscribe == on /\ on' = FALSE /\ UNCHANGED <<seq, pos>>

\* The next event, to a reader that is not too far behind.
Next1 ==
    /\ on /\ pos < seq /\ seq - pos <= QueueLimit
    /\ pos' = pos + 1
    /\ UNCHANGED <<seq, on>>

\* The stand-in for the events a reader lost: everything but the newest
\* QueueLimit, and nothing else.
Skip ==
    /\ on /\ seq - pos > QueueLimit
    /\ pos' = seq - QueueLimit
    /\ UNCHANGED <<seq, on>>

\* The gateway stops and another is started: the numbering starts over.
Restart == seq' = 0 /\ on' = FALSE /\ UNCHANGED pos

Next == Emit \/ Subscribe \/ Unsubscribe \/ Next1 \/ Skip \/ Restart

Spec == Init /\ [][Next]_vars
=================================================================================
