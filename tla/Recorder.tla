------------------------------- MODULE Recorder -------------------------------
(*****************************************************************************)
(* The collector (collection/gateway.py) composed with the gateway's event   *)
(* stream: it connects to the stream, turns every line into a row, measures  *)
(* what it was not told of by the numbering, and waits for a gateway that is *)
(* not there.  Either process may stop and be started again at any time.     *)
(*                                                                           *)
(* A reader of EventStream is here one connection of the collector's; the    *)
(* peer's side of EventStream, Receive and HangUp, is what the collector     *)
(* does with the connection.                                                 *)
(*****************************************************************************)
EXTENDS EventStream, FiniteSets

CONSTANTS
    None,           \* no connection
    MaxLives,       \* bound: gateway processes
    MaxConnects,    \* bound: connections the collector makes
    MaxRuns         \* bound: collector processes

ASSUME NoneAssumption == None \notin Readers
ASSUME RecorderBoundsAssumption ==
    MaxLives \in Nat \ {0} /\ MaxConnects \in Nat /\ MaxRuns \in Nat \ {0}

VARIABLES
    life,           \* which gateway process is running, or ran last
    up,             \* the gateway is listening
    conn,           \* the collector's connection, None while it has none
    server,         \* the gateway process the connection was made to
    accepted,       \* that process has taken the connection in
    nextSeq,        \* GatewaySubscriber._next_seq, 0 for None
    reportedDown,   \* GatewaySubscriber._reported_down
    run,            \* history: which collector process is running
    rows            \* what has been written down

gateway == <<life, up>>
collector == <<conn, server, accepted, nextSeq, reportedDown, run>>
recorderVars == <<vars, gateway, collector, rows>>

Row == [kind : {"connected", "disconnected", "dropped", "gap", "event"},
        run : Nat, life : Nat, seq : Nat, count : Nat]

OwnRow(kind) == [kind |-> kind, run |-> run, life |-> life, seq |-> 0, count |-> 0]
StreamRow(kind, n, c) == [kind |-> kind, run |-> run, life |-> server, seq |-> n, count |-> c]

RecorderInit ==
    /\ Init
    /\ life = 1 /\ up = TRUE
    /\ conn = None /\ server = 0 /\ accepted = FALSE
    /\ nextSeq = 0 /\ reportedDown = FALSE
    /\ run = 1
    /\ rows = <<>>

-----------------------------------------------------------------------------
(* The gateway's processes and sockets. *)

GatewayEmits == up /\ Emit /\ UNCHANGED <<gateway, collector, rows>>

GatewayServes ==
    /\ \E r \in Readers : Hand(r) \/ Drained(r) \/ Unsubscribe(r)
    /\ UNCHANGED <<gateway, collector, rows>>

GatewayStops ==
    /\ up
    /\ Restart
    /\ up' = FALSE
    /\ UNCHANGED <<life, collector, rows>>

GatewayStarts ==
    /\ ~up
    /\ life < MaxLives
    /\ up' = TRUE
    /\ life' = life + 1
    /\ UNCHANGED <<vars, collector, rows>>

\* The task serving the connection the collector opened starts.  A connection
\* that waits for it when the gateway stops is never taken in by the next one.
GatewayAccepts ==
    /\ up
    /\ conn # None
    /\ server = life
    /\ ~accepted
    /\ Subscribe(conn)
    /\ accepted' = TRUE
    /\ UNCHANGED <<gateway, conn, server, nextSeq, reportedDown, run, rows>>

-----------------------------------------------------------------------------
(* The collector. *)

\* (mutant) the numbering is carried over to the new connection
NumberingKept == nextSeq

\* The numbering starts over with every connection.
NumberingStartsOver == 0

\* _connect, when the gateway is listening.  The socket is new: any reader of
\* EventStream that nobody is, no matter which.
Connect ==
    /\ up
    /\ conn = None
    /\ \E r \in Readers : ~Subscribed(r)
    /\ Cardinality({i \in DOMAIN rows : rows[i].kind = "connected"}) < MaxConnects
    /\ conn' = CHOOSE r \in Readers : ~Subscribed(r)
    /\ server' = life
    /\ accepted' = FALSE
    /\ nextSeq' = NumberingStartsOver
    /\ reportedDown' = FALSE
    /\ rows' = Append(rows, OwnRow("connected"))
    /\ wire' = [wire EXCEPT ![conn'] = <<>>]
    /\ gone' = [gone EXCEPT ![conn'] = FALSE]
    /\ UNCHANGED <<seq, phase, queue, lost, lostCount, pos, gateway, run>>

SaidAlready == FALSE          \* (mutant) every failed attempt is a row

\* _down returns early.
SaidOnce == reportedDown

\* _down: said once however long it lasts.
Down ==
    /\ reportedDown' = TRUE
    /\ rows' = IF SaidOnce THEN rows ELSE Append(rows, OwnRow("disconnected"))

\* _connect, when nothing is listening.
ConnectFails ==
    /\ ~up
    /\ conn = None
    /\ Down
    /\ UNCHANGED <<vars, gateway, conn, server, accepted, nextSeq, run>>

\* _account_for: the number the next event should have.  The stand-in for a
\* loss carries the number of the last event lost.
Expect(line) == line.seq + 1

\* _account_for: the row the numbering asks for before the line's own.
AccountFor(line) ==
    IF line.kind = "dropped" THEN <<StreamRow("dropped", line.seq, line.count)>>
    ELSE IF nextSeq # 0 /\ line.seq # nextSeq THEN <<StreamRow("gap", nextSeq, 0)>>
    ELSE <<>>

\* _record: what a line leaves behind.
Record(line) ==
    AccountFor(line) \o IF line.kind = "event" THEN <<StreamRow("event", line.seq, 1)>> ELSE <<>>

ReadEvents ==                 \* (mutant) a stand-in is not a line that can be taken
    conn # None /\ (wire[conn] # <<>> => Head(wire[conn]).kind = "event")

\* _read goes on while the run does.
ToRead == conn # None

\* _read, one line of the stream.
Read ==
    /\ ToRead
    /\ Receive(conn)
    /\ LET line == Head(wire[conn])
       IN  /\ rows' = rows \o Record(line)
           /\ nextSeq' = Expect(line)
    /\ UNCHANGED <<gateway, conn, server, accepted, reportedDown, run>>

OverOnceAccepted ==           \* (mutant) a connection never taken in is waited on
    conn # None /\ wire[conn] = <<>> /\ accepted /\ ~Subscribed(conn)

\* Nothing more can come: the gateway that took the connection in is over with
\* it, or stopped before it did.
StreamOver ==
    /\ conn # None
    /\ wire[conn] = <<>>
    /\ IF accepted THEN ~Subscribed(conn) ELSE ~(up /\ life = server)

\* (mutant) the closed connection is read again
CloseAndKeep == gone' = [gone EXCEPT ![conn] = TRUE] /\ UNCHANGED conn

\* run: the socket is closed whatever ended the read.
Close == gone' = [gone EXCEPT ![conn] = TRUE] /\ conn' = None

\* run: the read ends with the stream, and _down is called.
StreamEnds ==
    /\ StreamOver
    /\ Down
    /\ Close
    /\ UNCHANGED <<seq, phase, queue, lost, lostCount, wire, pos, gateway, server, accepted, nextSeq, run>>

\* The collector stops, at the end of its run or because a row could not be
\* written, and is started again.  It says nothing as it goes.
CollectorRestarts ==
    /\ run < MaxRuns
    /\ run' = run + 1
    /\ IF conn = None THEN UNCHANGED vars ELSE HangUp(conn)
    /\ conn' = None
    /\ server' = 0
    /\ accepted' = FALSE
    /\ nextSeq' = 0
    /\ reportedDown' = FALSE
    /\ UNCHANGED <<gateway, rows>>

RecorderNext ==
    \/ GatewayEmits \/ GatewayServes \/ GatewayStops \/ GatewayStarts \/ GatewayAccepts
    \/ Connect \/ ConnectFails \/ Read \/ StreamEnds \/ CollectorRestarts

\* A gateway that is up serves its sockets, and the collector goes on reading
\* and looking.  Nothing makes a stopped gateway start again.
RecorderFairness ==
    /\ WF_recorderVars(GatewayServes)
    /\ WF_recorderVars(GatewayAccepts)
    /\ WF_recorderVars(Connect)
    /\ WF_recorderVars(ConnectFails)
    /\ WF_recorderVars(Read)
    /\ WF_recorderVars(StreamEnds)

RecorderSpec == RecorderInit /\ [][RecorderNext]_recorderVars
RecorderFairSpec == RecorderSpec /\ RecorderFairness

-----------------------------------------------------------------------------
(* Properties. *)

\* Every variable has its type; the collector holds no connection it has closed,
\* and reads only what the process it connected to wrote.
RecorderTypeOK ==
    /\ TypeOK
    /\ life \in 1..MaxLives /\ up \in BOOLEAN
    /\ conn \in Readers \union {None}
    /\ server \in 0..life /\ accepted \in BOOLEAN
    /\ nextSeq \in 0..MaxSeq + 1 /\ reportedDown \in BOOLEAN
    /\ run \in 1..MaxRuns
    /\ rows \in Seq(Row)
    /\ conn # None => ~gone[conn]
    /\ conn # None /\ Subscribed(conn) => server = life

\* The rows that say what the stream told.
Told(i) == rows[i].kind \in {"event", "dropped"}

\* The numbering says how wide every hole is (the module comment): between two
\* connections the rows are the stream without a hole, each stand-in as wide as
\* the events it stands for, and the numbering never jumps without one, so no
\* gateway_gap is ever written (_account_for against Subscriber._dropped).
HolesAreMeasured ==
    /\ \A i \in DOMAIN rows : rows[i].kind # "gap"
    /\ \A i \in 1..Len(rows) - 1 :
           Told(i) /\ Told(i + 1) =>
               /\ rows[i + 1].life = rows[i].life
               /\ rows[i + 1].seq = rows[i].seq + rows[i + 1].count

\* No event is written down twice or out of order, whichever connection,
\* collector or gateway process it came through.
NothingTwice ==
    \A i, j \in DOMAIN rows :
        i < j /\ Told(i) /\ Told(j) =>
            \/ rows[i].life < rows[j].life
            \/ rows[i].life = rows[j].life /\ rows[i].seq <= rows[j].seq - rows[j].count

\* What the rows say of one gateway process is what it emitted, once and in order.
RowsAreTheStream == HolesAreMeasured /\ NothingTwice

\* Within one run of the collector every lost stream is a row and is said once:
\* gateway_connected and gateway_disconnected alternate, and an event is never
\* written down while the stream is said to be lost.
OutagesAreRows ==
    \A i, j \in DOMAIN rows :
        (/\ i < j /\ rows[i].run = rows[j].run
         /\ \A k \in i + 1..j - 1 : Told(k))
        => CASE rows[i].kind = "connected" -> rows[j].kind # "connected"
             [] rows[i].kind = "disconnected" -> rows[j].kind = "connected"
             [] OTHER -> TRUE

\* What is emitted to a collector that is connected is written down, by itself
\* or in a stand-in, or the connection is lost.
EventuallyRecorded ==
    \A n \in 1..MaxSeq :
        (conn # None /\ accepted /\ Subscribed(conn) /\ pos[conn] < n /\ seq = n)
            ~> (nextSeq > n \/ conn = None)

\* A gateway that stays away is written down as such, whatever the collector was
\* doing when it went: reading, waiting to be taken in, or just started.
AbsenceIsSaid == ~up ~> (up \/ reportedDown)
=================================================================================
