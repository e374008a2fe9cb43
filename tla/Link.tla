---------------------------------- MODULE Link ----------------------------------
(*****************************************************************************)
(* The gateway's hold on the cooler (gateway/link.py with ble.py,            *)
(* handshake.py, commands.py and endpoint.py).  Two kinds of task share one  *)
(* event loop: the session loop of Link.run, which connects, negotiates,     *)
(* reads notifications and gives the link up, and one task per client        *)
(* request in Link.command.  Every await is a point where the others run, so *)
(* a write in flight is a phase of its own; the lock is taken where the code *)
(* takes it and nowhere else.                                                *)
(*                                                                           *)
(* A negotiation is two stages, one answered and one final; a message is     *)
(* what the gateway acts on (fragments are joined elsewhere).  Deadlines are *)
(* flags that time may raise.  The cooler, its radio and the hand on its     *)
(* panel are the environment.                                                *)
(*****************************************************************************)
EXTENDS Naturals, SequencesExt

CONSTANTS
    Commands,        \* client requests, each a task of Link.command
    Values,          \* setpoints the cooler takes
    Dialects,        \* what the cooler may speak: "solix", "prime"
    None,            \* Python's None
    MaxConnections,  \* bound: sessions one gateway opens
    MaxInbox         \* bound: notifications waiting in a session's queue

ASSUME NoneAssumption ==
    None \notin Values \cup Commands \cup Nat \cup {"loop", "accepted", "rejected"}
ASSUME CommandsAssumption == "loop" \notin Commands
ASSUME DialectsAssumption == Dialects \subseteq {"solix", "prime"}
ASSUME LinkBoundsAssumption == MaxConnections \in Nat /\ MaxInbox \in Nat

Invalid == "invalid"     \* a request commands.parse or _accept refuses as it stands

VARIABLES
    (* the gateway *)
    loop,          \* where Link.run is
    stop,          \* the stop event: the gateway was told to end
    connections,   \* Link._connections
    session,       \* Link._session: the number of its connection, or None
    state,         \* Link._state, with its handshake, or None
    pending,       \* Link._pending, or None
    lock,          \* holder of Link._lock: None, "loop" or a command
    disconnected,  \* Session.disconnected of the current session
    held,          \* the notification the loop has taken off the queue
    seenOld,       \* nothing for the negotiation timeout since last_seen
    messageOld,    \* nothing for the silence timeout since last_message
    (* one client request *)
    phase,         \* where the task of each request is
    asks,          \* the setpoint each request asks for
    via,           \* the connection a request was accepted on
    log,           \* the command_* events each request put on the stream, in order
    reply,         \* what its client was answered
    (* the cooler and the radio *)
    inbox,         \* Session._queue of the current connection
    up,            \* the radio link stands
    dialect,       \* the negotiation the cooler answers
    heard,         \* negotiation frames of its dialect the cooler has had
    told,          \* negotiation messages the cooler has sent
    setpoint,      \* what the cooler is set to
    owed,          \* commands the cooler has taken and not acknowledged yet
    reached        \* history: commands whose frame got to the cooler

conn == <<stop, connections, session, disconnected>>
timers == <<seenOld, messageOld>>
linkRest == <<conn, state, pending, lock, held, timers>>
commandVars == <<phase, asks, via, log, reply>>
radio == <<inbox, up, heard, told, owed>>
coolerVars == <<radio, dialect, setpoint, reached>>
vars == <<loop, linkRest, commandVars, coolerVars>>

(* What the cooler sends.  An acknowledgement does not name the command it is  *)
(* for; `of` is history, and nothing in the gateway reads it.                  *)
Negotiation(d, final) == [kind |-> "negotiation", variant |-> d, final |-> final]
Ack(c) == [kind |-> "ack", of |-> c]
Report(v) == [kind |-> "state", value |-> v]

\* _SessionState as _run_session creates it.
NewState == [variant |-> "solix", seen |-> FALSE, done |-> FALSE,
             latest |-> None, asked |-> "never"]

Init ==
    /\ loop = "scan"
    /\ stop = FALSE
    /\ connections = 0
    /\ session = None
    /\ state = None
    /\ pending = None
    /\ lock = None
    /\ disconnected = FALSE
    /\ held = None
    /\ seenOld = FALSE
    /\ messageOld = FALSE
    /\ phase = [c \in Commands |-> "idle"]
    /\ asks = [c \in Commands |-> None]
    /\ via = [c \in Commands |-> None]
    /\ log = [c \in Commands |-> <<>>]
    /\ reply = [c \in Commands |-> None]
    /\ inbox = <<>>
    /\ up = FALSE
    /\ dialect \in Dialects
    /\ heard = 0
    /\ told = 0
    /\ setpoint \in Values
    /\ owed = <<>>
    /\ reached = {}

Told(c, event) == log' = [log EXCEPT ![c] = Append(@, event)]

-----------------------------------------------------------------------------
(* Link.run: the connection. *)

\* Nobody there, or the adapter failed: wait and look again.
NotFound ==
    /\ loop = "scan"
    /\ loop' = "pause"
    /\ UNCHANGED <<linkRest, commandVars, coolerVars>>

\* The session opens and _run_session starts: no await between the two.
Connect ==
    /\ loop = "scan"
    /\ connections < MaxConnections
    /\ connections' = connections + 1
    /\ session' = connections + 1
    /\ state' = NewState
    /\ loop' = "greet"
    /\ disconnected' = FALSE /\ seenOld' = FALSE /\ messageOld' = FALSE
    /\ up' = TRUE /\ inbox' = <<>> /\ heard' = 0 /\ told' = 0 /\ owed' = <<>>
    /\ UNCHANGED <<stop, pending, lock, held, commandVars, dialect, setpoint, reached>>

\* The loop's writes: the first frame of a negotiation (greet, regreet), the answer
\* to one of its stages, held under the lock, and the request for the state.
LoopWrites == {"greet", "ask", "answer", "regreet"}

ReleaseNothing == UNCHANGED lock     \* (mutant) an exception keeps the lock

\* `async with` lets go of the lock however its block ends.
ReleaseLock == lock' = IF lock = "loop" THEN None ELSE lock

\* A write that fails or hangs ends the session by an exception.
WriteFails ==
    /\ loop \in LoopWrites
    /\ loop' = "close"
    /\ ReleaseLock
    /\ UNCHANGED <<conn, state, pending, held, timers, commandVars, coolerVars>>

\* The frame is written.  The cooler hears the frames of its own dialect, and acts
\* on the first two.
WriteSucceeds ==
    /\ loop \in LoopWrites
    /\ up
    /\ loop' = "top"
    /\ ReleaseLock
    /\ seenOld' = (seenOld /\ loop # "regreet")
    /\ heard' = IF loop # "ask" /\ state.variant = dialect /\ heard < 2
                THEN heard + 1 ELSE heard
    /\ UNCHANGED <<conn, state, pending, held, messageOld, commandVars,
                   inbox, up, told, owed, dialect, setpoint, reached>>

\* _SessionState.state_wanted
StateWanted ==
    /\ state.latest = None
    /\ state.done
    /\ state.variant = "solix"
    /\ state.asked # "recent"

DropPending == pending' = None /\ UNCHANGED log    \* (mutant) and nobody is told

\* _unconfirmed: the request in flight ends without a confirmation.
Unconfirmed == Told(pending.id, "unconfirmed") /\ pending' = None

OverdueIfAccepted == pending # None /\ pending.due /\ pending.accepted   \* (mutant)

Overdue == pending # None /\ pending.due

\* The condition of the session loop's `while`, negated; and a mutant of it.
LeaveOnDrop == disconnected      \* (mutant) a stop is not looked at while the link stands

Leave == stop \/ disconnected

\* The session loop goes round: _expire_command, then ask for the state or wait for
\* a notification.
LoopAgain ==
    /\ loop = "top"
    /\ ~Leave
    /\ IF Overdue THEN Unconfirmed ELSE UNCHANGED <<pending, log>>
    /\ IF StateWanted
       THEN loop' = "ask" /\ state' = [state EXCEPT !.asked = "recent"]
       ELSE loop' = "wait" /\ UNCHANGED state
    /\ UNCHANGED <<conn, lock, held, timers, phase, asks, via, reply, coolerVars>>

LoopEnds ==
    /\ loop = "top"
    /\ Leave
    /\ loop' = "close"
    /\ UNCHANGED <<linkRest, commandVars, coolerVars>>

\* next_notification returns the oldest in the queue.
Receive ==
    /\ loop = "wait"
    /\ inbox # <<>>
    /\ held' = Head(inbox)
    /\ inbox' = Tail(inbox)
    /\ seenOld' = FALSE /\ messageOld' = FALSE
    /\ loop' = "locking"
    /\ UNCHANGED <<conn, state, pending, lock, commandVars,
                   up, heard, told, owed, dialect, setpoint, reached>>

NeverSilent == FALSE             \* (mutant) no silence is long enough

SilentTooLong == messageOld

\* next_notification times out: the cooler is silent, or has answered no
\* negotiation and is tried with the next variant, or is waited for again.
Silence ==
    /\ loop = "wait"
    /\ inbox = <<>>
    /\ \/ /\ SilentTooLong
          /\ loop' = "close" /\ UNCHANGED state
       \/ /\ ~SilentTooLong /\ (state.done \/ ~seenOld)
          /\ loop' = "top" /\ UNCHANGED state
       \/ /\ ~SilentTooLong /\ ~state.done /\ seenOld
          /\ IF state.seen \/ state.variant = "prime"     \* try_next_variant
             THEN loop' = "close" /\ UNCHANGED state
             ELSE /\ loop' = "regreet"
                  /\ state' = [state EXCEPT !.variant = "prime", !.seen = FALSE]
    /\ UNCHANGED <<conn, pending, lock, held, timers, commandVars, coolerVars>>

\* _follow_command: what a message says about the command in flight.
FollowAck ==
    IF pending # None /\ ~pending.accepted
    THEN Told(pending.id, "accepted") /\ pending' = [pending EXCEPT !.accepted = TRUE]
    ELSE UNCHANGED <<pending, log>>

\* (mutant) a report showing the value is proof enough
ShowsTheValue(v) == pending # None /\ asks[pending.id] = v

\* A report proves the write only once the cooler has taken it.
Proves(v) == pending # None /\ pending.accepted /\ asks[pending.id] = v

FollowReport(v) ==
    IF Proves(v)
    THEN Told(pending.id, "applied") /\ pending' = None
    ELSE UNCHANGED <<pending, log>>

HandleAck ==
    /\ held.kind = "ack"
    /\ FollowAck
    /\ loop' = "top"
    /\ UNCHANGED <<state, lock>>

HandleReport ==
    /\ held.kind = "state"
    /\ state' = [state EXCEPT !.latest = held.value]
    /\ FollowReport(held.value)
    /\ loop' = "top"
    /\ UNCHANGED lock

\* _negotiate: a stage of the variant spoken is answered, holding the lock; one
\* of the other variant fails to be read, and still counts as an answer.
HandleNegotiation ==
    /\ held.kind = "negotiation"
    /\ IF held.variant = state.variant
       THEN /\ state' = [state EXCEPT !.seen = TRUE, !.done = @ \/ held.final]
            /\ loop' = "answer" /\ lock' = "loop"
       ELSE /\ state' = [state EXCEPT !.seen = TRUE]
            /\ loop' = "top" /\ UNCHANGED lock
    /\ UNCHANGED <<pending, log>>

LockIgnored == TRUE              \* (mutant) the lock is not waited for

LockFree == lock = None

\* _handle, under the lock: no command is written while a message is handled.
Handle ==
    /\ loop = "locking"
    /\ LockFree
    /\ HandleAck \/ HandleReport \/ HandleNegotiation
    /\ held' = None
    /\ UNCHANGED <<conn, timers, phase, asks, via, reply, coolerVars>>

ReportPending == IF pending # None THEN Unconfirmed ELSE UNCHANGED <<pending, log>>

\* The session is closed and forgotten (_forget_session), with what its queue still
\* held; the command in flight is reported.
ForgetSession ==
    /\ loop = "close"
    /\ ReportPending
    /\ session' = None /\ state' = None
    /\ up' = FALSE /\ inbox' = <<>> /\ owed' = <<>> /\ heard' = 0 /\ told' = 0
    /\ disconnected' = FALSE /\ seenOld' = FALSE /\ messageOld' = FALSE
    /\ loop' = "pause"
    /\ UNCHANGED <<stop, connections, lock, held, phase, asks, via, reply,
                   dialect, setpoint, reached>>

\* The wait before the next attempt is over.
ScanAgain ==
    /\ loop = "pause"
    /\ ~stop
    /\ loop' = "scan"
    /\ UNCHANGED <<linkRest, commandVars, coolerVars>>

\* The gateway ends: its event loop cancels the requests still under way.
Shutdown ==
    /\ loop = "pause"
    /\ stop
    /\ loop' = "stopped"
    /\ phase' = [c \in Commands |->
                    IF phase[c] \in {"waiting", "writing"} THEN "cancelled" ELSE phase[c]]
    /\ lock' = None
    /\ UNCHANGED <<conn, state, pending, held, timers, asks, via, log, reply, coolerVars>>

-----------------------------------------------------------------------------
(* Link.command: one request. *)

\* The client's line arrives: the request is on the stream before the lock.
Request(c) ==
    /\ phase[c] = "idle"
    /\ loop # "stopped"
    /\ \E v \in Values \cup {Invalid} : asks' = [asks EXCEPT ![c] = v]
    /\ phase' = [phase EXCEPT ![c] = "waiting"]
    /\ Told(c, "requested")
    /\ UNCHANGED <<loop, linkRest, via, reply, coolerVars>>

\* (mutant) a command in flight does not stop the next
AcceptableBusy(c) ==
    /\ asks[c] # Invalid /\ session # None
    /\ state.done /\ state.latest # None

\* _accept: a request well formed, a link, its negotiation over, the display unit
\* known from a state report of this connection, and no command in flight.
Acceptable(c) ==
    /\ asks[c] # Invalid /\ session # None
    /\ state.done /\ state.latest # None
    /\ pending = None

\* The request ends here: its outcome on the stream, its answer to the client.
Answer(c, events, status) ==
    /\ log' = [log EXCEPT ![c] = @ \o events]
    /\ reply' = [reply EXCEPT ![c] = status]
    /\ phase' = [phase EXCEPT ![c] = "done"]

\* _accept raises Rejected.
Reject(c) ==
    /\ phase[c] = "waiting"
    /\ lock = None
    /\ ~Acceptable(c)
    /\ Answer(c, <<"rejected">>, "rejected")
    /\ UNCHANGED <<loop, linkRest, asks, via, coolerVars>>

\* _accept takes the request, and its frame is being written on that session.
Accept(c) ==
    /\ phase[c] = "waiting"
    /\ lock = None
    /\ Acceptable(c)
    /\ lock' = c
    /\ via' = [via EXCEPT ![c] = session]
    /\ phase' = [phase EXCEPT ![c] = "writing"]
    /\ UNCHANGED <<loop, conn, state, pending, held, timers, asks, log, reply, coolerVars>>

SameLink(c) == session = via[c]

\* The write completes: the command is in flight, unless its link dropped meanwhile.
Sent(c) ==
    /\ phase[c] = "writing"
    /\ c \in reached
    /\ lock' = None
    /\ IF SameLink(c)
       THEN /\ pending' = [id |-> c, accepted |-> FALSE, due |-> FALSE]
            /\ Answer(c, <<"sent">>, "accepted")
       ELSE /\ UNCHANGED pending
            /\ Answer(c, <<"sent", "unconfirmed">>, "accepted")
    /\ UNCHANGED <<loop, conn, state, held, timers, asks, via, coolerVars>>

\* The write hangs: whether the frame went is unknown, and the link is given up.
WriteHangs(c) ==
    /\ phase[c] = "writing"
    /\ lock' = None
    /\ Answer(c, <<"unconfirmed">>, "accepted")
    /\ disconnected' = (disconnected \/ session = via[c])
    /\ UNCHANGED <<loop, stop, connections, session, state, pending, held, timers,
                   asks, via, coolerVars>>

\* The write fails by an exception of the stack.  That says nothing of the frame: a
\* link may drop between its delivery and the response to the write.
WriteRefused(c) ==
    /\ phase[c] = "writing"
    /\ lock' = None
    /\ Answer(c, <<"rejected">>, "rejected")
    /\ UNCHANGED <<loop, conn, state, pending, held, timers, asks, via, coolerVars>>

-----------------------------------------------------------------------------
(* The cooler, its radio, the hand on its panel, time and the operator. *)

Notify(m) == Len(inbox) < MaxInbox /\ inbox' = Append(inbox, m)

\* A frame being written gets to the cooler, which takes its value or not.
Reach(c) ==
    /\ phase[c] = "writing"
    /\ up /\ via[c] = session
    /\ c \notin reached
    /\ reached' = reached \cup {c}
    /\ setpoint' \in {setpoint, asks[c]}
    /\ owed' = Append(owed, c)
    /\ UNCHANGED <<loop, linkRest, commandVars, inbox, up, heard, told, dialect>>

\* It acknowledges what it has taken, in order, as late as it likes or not at all.
Acknowledge ==
    /\ up
    /\ owed # <<>>
    /\ Notify(Ack(Head(owed))) \/ UNCHANGED inbox
    /\ owed' = Tail(owed)
    /\ UNCHANGED <<loop, linkRest, commandVars, up, heard, told, dialect, setpoint, reached>>

\* It reports its state once the negotiation is over, asked or not.
SendReport ==
    /\ up /\ told = 2
    /\ Notify(Report(setpoint))
    /\ UNCHANGED <<loop, linkRest, commandVars, up, heard, told, owed, dialect, setpoint,
                   reached>>

\* It answers the frames of its own dialect, one stage at a time.
SendNegotiation ==
    /\ up /\ told < heard
    /\ told' = told + 1
    /\ Notify(Negotiation(dialect, told + 1 = 2))
    /\ UNCHANGED <<loop, linkRest, commandVars, up, heard, owed, dialect, setpoint, reached>>

\* A hand changes the setting on the panel.
Panel ==
    /\ setpoint' \in Values \ {setpoint}
    /\ UNCHANGED <<loop, linkRest, commandVars, radio, dialect, reached>>

\* The radio link drops, and the stack sets the session's flag.
LinkDrops ==
    /\ up
    /\ up' = FALSE
    /\ disconnected' = TRUE
    /\ UNCHANGED <<loop, stop, connections, session, state, pending, lock, held, timers,
                   commandVars, inbox, heard, told, owed, dialect, setpoint, reached>>

\* The command's deadline passes.
DeadlinePasses ==
    /\ pending # None
    /\ ~pending.due
    /\ pending' = [pending EXCEPT !.due = TRUE]
    /\ UNCHANGED <<loop, conn, state, lock, held, timers, commandVars, coolerVars>>

\* The state was asked for long enough ago to be asked for again: longer than the
\* write that asks can take, so it is while waiting that the time comes.
AskGrowsOld ==
    /\ loop = "wait"
    /\ state.asked = "recent"
    /\ state' = [state EXCEPT !.asked = "old"]
    /\ UNCHANGED <<loop, conn, pending, lock, held, timers, commandVars, coolerVars>>

\* A quiet link outlasts the negotiation timeout, then the silence timeout.
QuietGrows ==
    /\ loop \in {"top", "ask", "wait"}
    /\ inbox = <<>>
    /\ ~messageOld
    /\ seenOld' = TRUE
    /\ messageOld' = seenOld
    /\ UNCHANGED <<loop, conn, state, pending, lock, held, commandVars, coolerVars>>

\* systemd stops the gateway.
Stop ==
    /\ ~stop
    /\ stop' = TRUE
    /\ UNCHANGED <<loop, connections, session, disconnected, state, pending, lock, held,
                   timers, commandVars, coolerVars>>

-----------------------------------------------------------------------------

SessionLoop ==
    \/ NotFound \/ Connect \/ WriteFails \/ WriteSucceeds \/ LoopAgain \/ LoopEnds
    \/ Receive \/ Silence \/ Handle \/ ForgetSession \/ ScanAgain \/ Shutdown

Task(c) == Reject(c) \/ Accept(c) \/ Sent(c) \/ WriteHangs(c) \/ WriteRefused(c)

Cooler ==
    \/ \E c \in Commands : Reach(c)
    \/ Acknowledge \/ SendReport \/ SendNegotiation \/ Panel \/ LinkDrops

Time == DeadlinePasses \/ AskGrowsOld \/ QuietGrows

Next ==
    \/ SessionLoop
    \/ \E c \in Commands : Request(c) \/ Task(c)
    \/ Cooler \/ Time \/ Stop

\* The event loop runs its ready tasks, the lock is handed on in the order it
\* was asked for, and time passes.  Nothing is assumed of the cooler, of the
\* radio or of the clients.
Fairness ==
    /\ WF_vars(SessionLoop)
    /\ \A c \in Commands : WF_vars(Task(c))
    /\ WF_vars(DeadlinePasses) /\ WF_vars(QuietGrows)

Spec == Init /\ [][Next]_vars
FairSpec == Spec /\ Fairness

-----------------------------------------------------------------------------
(* Properties. *)

NegotiationState == [variant : {"solix", "prime"}, seen : BOOLEAN, done : BOOLEAN,
                     latest : Values \cup {None}, asked : {"never", "recent", "old"}]
PendingCommand == [id : Commands, accepted : BOOLEAN, due : BOOLEAN]
Notification == [kind : {"negotiation"}, variant : Dialects, final : BOOLEAN]
                    \cup [kind : {"ack"}, of : Commands]
                    \cup [kind : {"state"}, value : Values]
Connection == 1..MaxConnections

\* None is no record of ours.
ASSUME NoRecordAssumption == None \notin NegotiationState \cup PendingCommand \cup Notification

\* The parts of TypeOK: the session loop, the lock, the requests, the cooler.
LoopType ==
    /\ loop \in LoopWrites \cup {"scan", "top", "wait", "locking", "close", "pause", "stopped"}
    /\ stop \in BOOLEAN /\ disconnected \in BOOLEAN
    /\ seenOld \in BOOLEAN /\ messageOld \in BOOLEAN
    /\ connections \in 0..MaxConnections
    /\ session \in Connection \cup {None}
    /\ state \in NegotiationState \cup {None}
    /\ (session = None) <=> (state = None)
    /\ pending \in PendingCommand \cup {None}
    /\ held \in Notification \cup {None}

LockType ==
    /\ lock \in Commands \cup {None, "loop"}
    /\ lock = "loop" <=> loop = "answer"
    /\ \A c \in Commands : lock = c <=> phase[c] = "writing"

RequestType ==
    /\ phase \in [Commands -> {"idle", "waiting", "writing", "done", "cancelled"}]
    /\ asks \in [Commands -> Values \cup {Invalid, None}]
    /\ via \in [Commands -> Connection \cup {None}]
    /\ log \in [Commands -> Seq({"requested", "sent", "accepted", "applied",
                                 "unconfirmed", "rejected"})]
    /\ reply \in [Commands -> {"accepted", "rejected", None}]

CoolerType ==
    /\ inbox \in Seq(Notification) /\ Len(inbox) <= MaxInbox
    /\ up \in BOOLEAN
    /\ dialect \in Dialects
    /\ heard \in 0..2 /\ told \in 0..2
    /\ setpoint \in Values
    /\ owed \in Seq(Commands)
    /\ reached \subseteq Commands

\* Every variable has its type; a session and its state come and go together, and
\* the lock is held by whoever is writing under it and by nobody else.
TypeOK == LoopType /\ LockType /\ RequestType /\ CoolerType

\* What a request may come to, once it is on the stream.
Outcomes == {<<"rejected">>, <<"unconfirmed">>, <<"sent", "unconfirmed">>,
             <<"sent", "accepted", "unconfirmed">>, <<"sent", "accepted", "applied">>}

Ended(c) == \E o \in Outcomes : log[c] = <<"requested">> \o o

\* The stream keeps the order requested, sent, accepted, applied (the comment on
\* Link._lock), with at most one outcome and nothing after it.
StoryInOrder ==
    \A c \in Commands : \E o \in Outcomes : IsPrefix(log[c], <<"requested">> \o o)

\* A request whose client has been answered either is the one in flight or has its
\* outcome on the stream: no path drops a command without saying so.
EveryEndReported ==
    \A c \in Commands :
        phase[c] = "done" => Ended(c) \/ (pending # None /\ pending.id = c)

\* One command at a time (README.md): none is written while another is being
\* written or waits for its outcome.
OneAtATime ==
    LET writing == {c \in Commands : phase[c] = "writing"}
    IN  Cardinality(writing) + (IF pending = None THEN 0 ELSE 1) <= 1

\* The command in flight was written on the connection that is up now: an
\* acknowledgement of another connection is never taken for its own.
InFlightOnThisLink == pending # None => via[pending.id] = session

\* The one command there may be, and the link it is on, survive every await between
\* the checks and the answer (the critical section of Link.command).
CommandInFlight == OneAtATime /\ InFlightOnThisLink

\* An acknowledgement is not handled while the write it answers is still in
\* flight, however early the cooler sends it (the comment on Link._lock).
AckHandledAfterWrite ==
    [][held # None /\ held' = None /\ held.kind = "ack" => phase[held.of] # "writing"]_vars

\* An acknowledgement taken for a command that is not its own is one of the same link,
\* and of a command whose story was over: refused or left unconfirmed while its frame
\* was at the cooler, or ended by an acknowledgement that was not its own either.
\* Nothing older than the link, and nothing still open, is ever misread
\* (_follow_command, which goes by the kind of the message alone).
MisreadAckIsOver ==
    [][\A c \in Commands :
          log'[c] # log[c] /\ log'[c][Len(log'[c])] = "accepted" =>
              held.of = c \/ (via[held.of] = via[c] /\ Ended(held.of))]_vars

\* Every request is eventually answered on the stream with its one outcome, as
\* long as the gateway is not stopped.
EventuallyEnded ==
    \A c \in Commands : phase[c] = "waiting" ~> (Ended(c) \/ stop)

\* A link given up, by the stack or because a write hung on it, is left.
GivenUpLinkCloses ==
    \A k \in Connection : (session = k /\ disconnected) ~> session # k

\* A cooler that says nothing more does not hold the link for ever (SILENCE_TIMEOUT).
SilentLinkCloses ==
    \A k \in Connection : session = k ~> (session # k \/ inbox # <<>> \/ held # None)

\* No link that is dead for one reason or the other keeps the loop from connecting anew.
DeadLinkCloses == GivenUpLinkCloses /\ SilentLinkCloses

\* Told to stop, the gateway ends, whatever the link and the clients are doing.
StopEnds == stop ~> loop = "stopped"

\* What the data contract says of command_accepted: "the cooler acknowledged it".
\* The acknowledgement carries no id, and a late one is taken for the next command.
AcceptedIsItsOwn ==
    [][\A c \in Commands :
          log'[c] # log[c] /\ log'[c][Len(log'[c])] = "accepted" => held.of = c]_vars
=================================================================================
