------------------------------ MODULE Controller ------------------------------
(*****************************************************************************)
(* The controller (controller/run.py): a timer starts it every minute, it    *)
(* compares where the Pi is with the judgment it stored, and asks the        *)
(* gateway for one setpoint when they differ.  Composed with the gateway's   *)
(* command endpoint, where requests wait for one another, an answer may come *)
(* later than the controller waits for it, and the process may stop.         *)
(*                                                                           *)
(* A run that cannot tell where the Pi is does nothing and is no step here.  *)
(*****************************************************************************)
EXTENDS Naturals, Sequences, FiniteSets

CONSTANTS
    None,           \* no state file; no answer yet
    MaxAttempts,    \* Config.max_attempts
    MaxMoves,       \* bound: times the Pi comes home or leaves
    MaxFaults       \* bound: runs cut short, state files lost, gateways stopped

ASSUME NoneAssumption ==
    None \notin BOOLEAN /\ None \notin {"accepted", "rejected", "closed"}
ASSUME MaxAttemptsAssumption == MaxAttempts \in Nat \ {0}
ASSUME BoundsAssumption == MaxMoves \in Nat /\ MaxFaults \in Nat

VARIABLES
    home,           \* whether the Pi is on the home network
    moves,          \* how often that has changed
    faults,         \* how many faults there have been
    file,           \* the stored judgment, None when there is none that can be read
    asking,         \* the run that waits for an answer: the judgment it would store
    answer,         \* what has come back to it
    up,             \* the gateway is listening
    queue,          \* requests at the gateway, in the order of Link's lock
    change,         \* history: judgments stored so far; a request is made for the next one
    writes,         \* history: frames that reached the cooler, by the change they were for
    cutShort,       \* history: the changes for which a run was cut short after it asked
    denied,         \* history: the changes whose frame went and whose run was told "rejected"
    tries           \* history: requests made since the presence last agreed

vars == <<home, moves, faults, file, asking, answer, up, queue, change, writes, cutShort, denied,
          tries>>

Judgment(h, n) == [home |-> h, attempts |-> n]
Judgments == [home : BOOLEAN, attempts : 0..MaxAttempts - 1]
Requests == [home : BOOLEAN, for : Nat, live : BOOLEAN]

Init ==
    /\ home \in BOOLEAN /\ moves = 0 /\ faults = 0
    /\ file = None /\ asking = None /\ answer = None
    /\ up = TRUE /\ queue = <<>>
    /\ change = 0 /\ writes = <<>> /\ cutShort = <<>> /\ denied = <<>> /\ tries = 0

history == <<change, writes, cutShort, denied, tries>>

Fault == faults < MaxFaults /\ faults' = faults + 1

Move ==
    /\ moves < MaxMoves
    /\ moves' = moves + 1
    /\ home' = ~home
    /\ UNCHANGED <<faults, file, asking, answer, up, queue, history>>

-----------------------------------------------------------------------------
(* One run of the controller. *)

Idle == asking = None

\* A judgment is stored and stands until the presence differs from it.
Adopt(h) == file' = Judgment(h, 0) /\ change' = change + 1 /\ tries' = 0

\* The first run, or one that cannot read the state: no command.
FirstRun ==
    /\ Idle
    /\ file = None
    /\ Adopt(home)
    /\ UNCHANGED <<home, moves, faults, asking, answer, up, queue, writes, cutShort, denied>>

FailuresKept == file           \* (mutant) the failures are the next change's to inherit

\* The change undid itself, and takes its failed attempts with it.
FailuresForgotten == Judgment(file.home, 0)

\* The presence is the one stored.
Unchanged ==
    /\ Idle
    /\ file # None /\ file.home = home
    /\ file' = FailuresForgotten
    /\ tries' = 0
    /\ UNCHANGED <<home, moves, faults, asking, answer, up, queue, change, writes, cutShort, denied>>

NotCounted(n) == n             \* (mutant) a failed attempt is not stored

Counted(n) == n + 1

\* The command was not taken: one more attempt, or the judgment is adopted
\* without it.
NotTaken(h) ==
    LET attempts == Counted(file.attempts)
    IN  IF attempts >= MaxAttempts THEN Adopt(h)
        ELSE file' = Judgment(file.home, attempts) /\ UNCHANGED change

\* One request more; the count stops where it has gone wrong already.
Tried == IF tries > MaxAttempts + MaxFaults THEN tries ELSE tries + 1

Differs == Idle /\ file # None /\ file.home # home

InFront(r) == <<r>> \o queue   \* (mutant) whoever comes last goes first

\* asyncio.Lock takes its waiters in order.
InLine(r) == Append(queue, r)

\* send_command, when the gateway listens: the request is out.
Ask ==
    /\ Differs
    /\ up
    /\ asking' = home
    /\ answer' = None
    /\ queue' = InLine([home |-> home, for |-> change, live |-> TRUE])
    /\ tries' = Tried
    /\ UNCHANGED <<home, moves, faults, file, up, change, writes, cutShort, denied>>

\* GatewayUnreachable: the request never went out.
AskNobody ==
    /\ Differs
    /\ ~up
    /\ NotTaken(home)
    /\ tries' = IF change' = change THEN Tried ELSE 0
    /\ UNCHANGED <<home, moves, faults, asking, answer, up, queue, writes, cutShort, denied>>

\* (mutant) the answer to a request goes to whichever run waits
RunEndsConnected == asking' = None /\ answer' = None /\ UNCHANGED queue

\* The run is over; a request of its own that is still queued has nobody waiting.
RunEnds ==
    /\ asking' = None
    /\ answer' = None
    /\ queue' = [i \in DOMAIN queue |-> [queue[i] EXCEPT !.live = FALSE]]

Rejected ==
    /\ ~Idle /\ answer = "rejected"
    /\ NotTaken(asking)
    /\ tries' = IF change' = change THEN tries ELSE 0
    /\ RunEnds
    /\ UNCHANGED <<home, moves, faults, up, writes, cutShort, denied>>

Accepted ==
    /\ ~Idle /\ answer = "accepted"
    /\ Adopt(asking)
    /\ RunEnds
    /\ UNCHANGED <<home, moves, faults, up, writes, cutShort, denied>>

\* (mutant) an answer that did not come counts as a refusal
UnknownIsNo(h) == NotTaken(h) /\ tries' = IF change' = change THEN tries ELSE 0

\* What became of the request is unknown, and the judgment stands.
UnknownIsTaken(h) == Adopt(h)

\* GatewayError: TIMEOUT_SECONDS are over, or the connection ended without an answer.
NoAnswer ==
    /\ ~Idle /\ answer \in {None, "closed"}
    /\ UnknownIsTaken(asking)
    /\ RunEnds
    /\ UNCHANGED <<home, moves, faults, up, writes, cutShort, denied>>

\* The run is killed, or the power cut, before it stores anything.
CutShort ==
    /\ ~Idle
    /\ Fault
    /\ cutShort' = Append(cutShort, change)
    /\ RunEnds
    /\ UNCHANGED <<home, moves, file, up, change, writes, denied, tries>>

\* The state file cannot be read any more.
FileLost ==
    /\ Idle /\ file # None
    /\ Fault
    /\ file' = None
    /\ UNCHANGED <<home, moves, asking, answer, up, queue, history>>

-----------------------------------------------------------------------------
(* The gateway, as the endpoint shows it (Link has the whole of it). *)

Tell(what) == answer' = IF Head(queue).live THEN what ELSE answer

Served == up /\ queue # <<>> /\ queue' = Tail(queue)

\* _accept raises: no link, no unit, or another command in flight.  Nothing is written.
Reject ==
    /\ Served
    /\ Tell("rejected")
    /\ UNCHANGED <<home, moves, faults, file, asking, up, history>>

\* The write fails by an exception, which is answered as a refusal whether the frame
\* went before it or not.
WriteFails ==
    /\ Served
    /\ Tell("rejected")
    /\ \/ UNCHANGED <<writes, denied>>
       \/ /\ writes' = Append(writes, Head(queue).for)
          /\ denied' = IF Head(queue).live THEN Append(denied, Head(queue).for) ELSE denied
    /\ UNCHANGED <<home, moves, faults, file, asking, up, change, cutShort, tries>>

\* The frame is written.  A write that hangs (link.py 266-275) is answered the same
\* way, and may have reached the cooler or not.
Take ==
    /\ Served
    /\ Tell("accepted")
    /\ writes' \in {writes, Append(writes, Head(queue).for)}
    /\ UNCHANGED <<home, moves, faults, file, asking, up, change, cutShort, denied, tries>>

\* The gateway stops: requests and their connections end with it, and the frame
\* being written may have gone.
Stop ==
    /\ up
    /\ Fault
    /\ up' = FALSE
    /\ queue' = <<>>
    /\ answer' = IF Idle \/ answer # None THEN answer ELSE "closed"
    /\ writes' \in {writes} \union {Append(writes, Head(q).for) : q \in {queue} \ {<<>>}}
    /\ UNCHANGED <<home, moves, file, asking, change, cutShort, denied, tries>>

Start ==
    /\ ~up
    /\ up' = TRUE
    /\ UNCHANGED <<home, moves, faults, file, asking, answer, queue, history>>

Run == FirstRun \/ Unchanged \/ Ask \/ AskNobody \/ Rejected \/ Accepted \/ NoAnswer

Next == Move \/ Run \/ CutShort \/ FileLost \/ Reject \/ WriteFails \/ Take \/ Stop \/ Start

\* The timer starts run after run, and send_command never waits for ever.
\* Nothing makes the gateway answer or start again.
Fairness == WF_vars(Run)

Spec == Init /\ [][Next]_vars
FairSpec == Spec /\ Fairness

-----------------------------------------------------------------------------
(* Properties. *)

\* Every variable has its type; at most one request has somebody waiting for its
\* answer, the one made last.
TypeOK ==
    /\ home \in BOOLEAN /\ up \in BOOLEAN
    /\ moves \in 0..MaxMoves /\ faults \in 0..MaxFaults
    /\ file \in Judgments \union {None}
    /\ asking \in BOOLEAN \union {None}
    /\ answer \in {None, "accepted", "rejected", "closed"}
    /\ queue \in Seq(Requests)
    /\ \A i \in DOMAIN queue : queue[i].live => ~Idle /\ answer = None /\ i = Len(queue)
    /\ change \in Nat /\ writes \in Seq(Nat) /\ cutShort \in Seq(Nat) /\ denied \in Seq(Nat)
    /\ tries \in Nat

Times(c, s) == Cardinality({i \in DOMAIN s : s[i] = c})

\* "1 回だけ送る" (the README), as far as it holds: however late or lost the answer, one
\* change of presence reaches the cooler once, so that a hand's setting is not undone.
\* It is made once more only for a run cut short between asking and storing, and for
\* a refusal the run was told of a frame that had gone (link.py answers so).
WrittenOnce ==
    \A c \in 0..change : Times(c, writes) <= 1 + Times(c, cutShort) + Times(c, denied)

\* A setpoint of an older change is never written after that of a newer one: what
\* the cooler is left with is the latest change that reached it, even when the
\* controller stopped waiting while its request was queued.
LatestWins == \A i \in 1..Len(writes) - 1 : writes[i] <= writes[i + 1]

\* A change is given up after max_attempts requests of its own and not earlier;
\* the failures of a change that undid itself are not counted (run's comment).
GivenUpInFull ==
    [][(Differs \/ answer = "rejected") /\ file # None /\ change' = change + 1 =>
           tries + (IF Differs THEN 1 ELSE 0) \in
               MaxAttempts..MaxAttempts + Times(change, cutShort)]_vars

\* A presence that stays becomes the judgment, even with the gateway gone for good.
Settles == \A h \in BOOLEAN : <>[](home = h) => <>[](file # None /\ file.home = h)
=================================================================================
