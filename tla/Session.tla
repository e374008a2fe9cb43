--------------------------------- MODULE Session ---------------------------------
(*****************************************************************************)
(* What one connection hears (gateway: protocol.py, handshake.py and         *)
(* Link._handle).  A message longer than the MTU comes as numbered fragments *)
(* and is joined, for each pattern and command apart; the answers of the     *)
(* negotiation change the MTU and the cipher and are answered in turn.       *)
(* Notifications may be lost, and a fragment may come twice.                 *)
(*                                                                           *)
(* _SessionState is made anew for every connection, so one is enough.  The   *)
(* cooler is the environment: it answers what it is asked in its own         *)
(* dialect, and sends each kind of message always whole or always in the     *)
(* same number of fragments.  A body is readable under the cipher it was     *)
(* sent in and under no other.                                               *)
(*****************************************************************************)
EXTENDS Naturals, Sequences, FiniteSets

CONSTANTS
    Keys,           \* kinds of messages the cooler sends by itself (pattern and command)
    Fragments,      \* [Keys -> 2..15]: how many fragments a message of the kind has
    Filling,        \* the kinds whose last fragment fills the MTU like the others
    MaxMessages,    \* bound: messages of one kind
    MaxLost,        \* bound: notifications lost
    MaxTwice        \* bound: fragments that come twice

ASSUME FragmentsAssumption == Fragments \in [Keys -> Nat \ {0, 1}]

VARIABLES
    negotiation,    \* _SessionState.handshake, negotiation_seen and _untried
    pending,        \* Reassembler._pending, empty for a key that is not in it
    phase,          \* "open"; "left", the loop ended; "raised", a call of it raised
    cooler,         \* its dialect, MTU and the cipher it uses
    asked,          \* requests the cooler has not answered
    lost,           \* how many notifications were lost
    sent,           \* how many fragments of each kind have been sent
    twice,          \* how many fragments came twice
    handled,        \* history: the fragments that came in
    told            \* history: the message events made of them

vars == <<negotiation, pending, phase, cooler, asked, lost, sent, twice, handled, told>>

Dialects == {"solix", "prime"}

\* The stages by number: 0801, 0803, 0829, 0805, 0821 and 4801, 4803, 4829,
\* 4805, 4821, 4822, 4827.  The second names an MTU, the fifth the cooler's key.
MtuStage == 2
KeyStage == 5
LastStage(dialect) == IF dialect = "solix" THEN 5 ELSE 7

\* A handshake begins with a cipher of its own and the default MTU.
Handshake(variant) ==
    [variant |-> variant, cipher |-> IF variant = "solix" THEN "none" ELSE "static",
     mtu |-> "default", done |-> FALSE, seen |-> FALSE]

Request(h, n) == [dialect |-> h.variant, stage |-> n, cipher |-> h.cipher]

Init ==
    /\ negotiation = Handshake("solix")
    /\ asked = {Request(Handshake("solix"), 1)}
    /\ cooler \in {[dialect |-> d, cipher |-> Handshake(d).cipher, mtu |-> "default", agrees |-> m] :
                       d \in Dialects, m \in {"default", "other"}}
    /\ pending = [k \in Keys |-> <<>>] /\ phase = "open"
    /\ lost = 0 /\ twice = 0 /\ sent = [k \in Keys |-> 0]
    /\ handled = {} /\ told = {}

-----------------------------------------------------------------------------
(* The negotiation. *)

\* handle: what an answer of stage n does.  The key takes effect before the
\* reply to it is built.
Advance(h, n) ==
    [h EXCEPT !.mtu = IF n = MtuStage THEN cooler.agrees ELSE @,
              !.cipher = IF n = KeyStage THEN "session" ELSE @,
              !.done = @ \/ n = LastStage(h.variant),
              !.seen = TRUE]

\* (mutant) the reply is built before the key takes effect
ReplyFirst(h, n) == {Request(h, n + 1)}

Reply(h, n) == {Request(Advance(h, n), n + 1)}

\* _negotiate, with its write: the answers of another dialect cannot be read
\* or mean nothing to this one.
Negotiate(answered) ==
    LET understood == answered.dialect = negotiation.variant
    IN  /\ negotiation' = IF understood THEN Advance(negotiation, answered.stage)
                          ELSE [negotiation EXCEPT !.seen = TRUE]
        /\ asked' = (asked \ {answered})
                        \union IF understood THEN Reply(negotiation, answered.stage) ELSE {}

Lose == lost < MaxLost /\ lost' = lost + 1

\* The cooler answers what it can read, and goes over to the session's cipher
\* after the answer that carries its key.
Answer(r) ==
    /\ phase = "open"
    /\ r.dialect = cooler.dialect /\ r.cipher = cooler.cipher
    /\ r.stage <= LastStage(r.dialect)
    /\ cooler' = [cooler EXCEPT !.mtu = IF r.stage = MtuStage THEN cooler.agrees ELSE @,
                                !.cipher = IF r.stage = KeyStage THEN "session" ELSE @]
    /\ \/ Negotiate(r) /\ UNCHANGED lost
       \/ /\ Lose
          /\ asked' = asked \ {r}
          /\ UNCHANGED negotiation
    /\ UNCHANGED <<pending, phase, sent, twice, handled, told>>

NextVariant == Handshake("prime")

\* try_next_variant: nothing of a negotiation has been heard.
TryNextVariant ==
    /\ phase = "open"
    /\ negotiation.variant = "solix" /\ ~negotiation.done /\ ~negotiation.seen
    /\ negotiation' = NextVariant
    /\ asked' = asked \union {Request(NextVariant, 1)}
    /\ UNCHANGED <<pending, phase, cooler, lost, sent, twice, handled, told>>

-----------------------------------------------------------------------------
(* Messages the cooler sends by itself, in fragments. *)

\* A fragment is its kind and its number, counted over the messages of the kind.
Message(n) == n.number \div Fragments[n.key]
Index(n) == (n.number % Fragments[n.key]) + 1
IsLast(n) == Index(n) = Fragments[n.key]

\* is_fragment.  The cooler cuts messages for its MTU, which the gateway does not
\* know when the answer that names it was lost.
FillsMtu(n) == (IsLast(n) => n.key \in Filling) /\ negotiation.mtu = cooler.mtu
IsFragment(n) == FillsMtu(n) \/ pending[n.key] # <<>>

Event(frames, error) == [frames |-> frames, error |-> error]

\* (mutant) the notifications collected before are forgotten with the message
OnlyTheLast(n) == <<n>>

\* FragmentError.notifications
Collected(n) == Append(pending[n.key], n)

InOrder(n) == Index(n) = Len(pending[n.key]) + 1

\* (mutant) what follows a fragment out of order is added to what there was
KeepGoing(n) == IF InOrder(n) THEN <<>> ELSE pending[n.key]

\* A fragment out of order, like the last one, ends the message.
AfterLast(n) == <<>>

\* _handle with Reassembler.add
Handle(n) ==
    LET ends == ~InOrder(n) \/ IsLast(n)
    IN  /\ handled' = handled \union {n}
        /\ IF ~IsFragment(n) THEN told' = told \union {Event(<<n>>, "none")} /\ UNCHANGED pending
           ELSE /\ told' = told \union
                       CASE ~InOrder(n) -> {Event(Collected(n), "out of order")}
                         [] InOrder(n) /\ ends -> {Event(Append(pending[n.key], n), "none")}
                         [] OTHER -> {}
                /\ pending' = [pending EXCEPT ![n.key] = IF ends THEN AfterLast(n) ELSE Append(@, n)]

Lost(k) == sent[k] - Cardinality({n \in handled : n.key = k /\ n.copy = 0})

Send(k) ==
    /\ phase = "open"
    /\ sent[k] < MaxMessages * Fragments[k]
    /\ sent' = [sent EXCEPT ![k] = @ + 1]
    /\ \/ Handle([key |-> k, number |-> sent[k], copy |-> 0]) /\ UNCHANGED lost
       \/ Lose /\ UNCHANGED <<pending, handled, told>>
    /\ UNCHANGED <<negotiation, phase, cooler, asked, twice>>

\* A fragment that came comes once more before the next one of its kind.
Repeat(k) ==
    /\ phase = "open"
    /\ twice < MaxTwice
    /\ twice' = twice + 1
    /\ \E n \in handled :
           /\ n.key = k /\ n.number = sent[k] - 1 /\ n.copy = 0
           /\ Handle([n EXCEPT !.copy = twice + 1])
    /\ UNCHANGED <<negotiation, phase, cooler, asked, lost, sent>>

\* The last lines of _run_session.
Flushed == {Event(pending[k], "incomplete") : k \in {k \in Keys : pending[k] # <<>>}}

\* The loop is left: the link is down, silent, or not to be negotiated, or a stop.
Leave ==
    /\ phase = "open"
    /\ phase' = "left"
    /\ told' = told \union Flushed
    /\ UNCHANGED <<negotiation, pending, cooler, asked, lost, sent, twice, handled>>

\* A write of the loop raises, and with it _run_session.
Raise ==
    /\ phase = "open"
    /\ phase' = "raised"
    /\ UNCHANGED <<negotiation, pending, cooler, asked, lost, sent, twice, handled, told>>

Next ==
    \/ \E r \in asked : Answer(r)
    \/ TryNextVariant
    \/ \E k \in Keys : Send(k) \/ Repeat(k)
    \/ Leave \/ Raise

Spec == Init /\ [][Next]_vars

-----------------------------------------------------------------------------
(* Properties. *)

Frames(e) == {e.frames[i] : i \in DOMAIN e.frames}

\* A message event without an error that joins several notifications joins those
\* of one message, unless as many fragments of the kind were lost as a message
\* has: whatever else was lost, repeated or interleaved, the count of what was
\* collected does not let two messages be welded together (Reassembler.add).
\* Under CBC a welded one would decrypt, and could be decoded as a state.
JoinedIsOneMessage ==
    \A e \in told : e.error = "none" /\ Len(e.frames) > 1 =>
        LET k == e.frames[1].key
        IN  /\ \A i \in DOMAIN e.frames : e.frames[i].key = k /\ Index(e.frames[i]) = i
            /\ Len(e.frames) = Fragments[k]
            /\ Cardinality({Message(n) : n \in Frames(e)}) > 1 => Lost(k) >= Fragments[k]

\* "Every notification becomes one message event (fragments are joined first)
\* carrying the bytes as they arrived" (link.py): each is in exactly one event, or
\* collected for one; a session that is left in order leaves none collected.
EveryNotificationKept ==
    \A n \in handled :
        Cardinality({e \in told : n \in Frames(e)})
            + Cardinality({k \in Keys : phase # "left" /\ \E i \in DOMAIN pending[k] : pending[k][i] = n}) = 1

\* Whatever is lost and however late an answer to the first dialect comes, what the
\* gateway asks is written in the cipher the cooler reads with, and a negotiation it
\* takes for done is one the cooler has finished, with the same key and MTU.
Understood ==
    /\ \A r \in asked : r.dialect = cooler.dialect => r.cipher = cooler.cipher
    /\ negotiation.done => /\ negotiation.variant = cooler.dialect
                           /\ negotiation.cipher = "session" /\ cooler.cipher = "session"
                           /\ negotiation.mtu = cooler.mtu
==================================================================================
