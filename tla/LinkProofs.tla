-------------------------------- MODULE LinkProofs --------------------------------
(*****************************************************************************)
(* Proofs about Link: its type invariant, that one command is in flight and   *)
(* on the link that is up, that every request has one story with one end,     *)
(* that no acknowledgement is handled while a command is being written, and   *)
(* whose one that is taken for another command's may be.                      *)
(*****************************************************************************)
EXTENDS Link, FiniteSetTheorems, SequenceTheorems, TLAPS

-----------------------------------------------------------------------------
(* The stories a request may be at.  The proofs use them by name. *)

Events == {"requested", "sent", "accepted", "applied", "unconfirmed", "rejected"}

Unasked == <<>>
Requested == <<"requested">>
Written == <<"requested", "sent">>
Taken == <<"requested", "sent", "accepted">>

Refused == <<"requested", "rejected">>
Unknown == <<"requested", "unconfirmed">>
Unproved == <<"requested", "sent", "unconfirmed">>
OnlyTaken == <<"requested", "sent", "accepted", "unconfirmed">>
Applied == <<"requested", "sent", "accepted", "applied">>

Ends == {Refused, Unknown, Unproved, OnlyTaken, Applied}
Stories == {Unasked, Requested, Written, Taken} \cup Ends

\* What a short sequence becomes with one more element.
LEMMA Longer ==
    /\ \A v \in Events : Append(<<>>, v) = <<v>>
    /\ \A v, w \in Events : Append(<<v>>, w) = <<v, w>>
    /\ \A v, w, x \in Events : Append(<<v, w>>, x) = <<v, w, x>>
    /\ \A v, w, x, y \in Events : Append(<<v, w, x>>, y) = <<v, w, x, y>>
<1>1. ASSUME NEW v \in Events PROVE Append(<<>>, v) = <<v>>
  <2> DEFINE s == Append(<<>>, v)
  <2>1. s \in Seq(Events) /\ Len(s) = 1 /\ s[1] = v
      OBVIOUS
  <2> HIDE DEF s
  <2>2. s = <<v>>
      BY <2>1
  <2> QED BY <2>2 DEF s
<1>2. ASSUME NEW v \in Events, NEW w \in Events PROVE Append(<<v>>, w) = <<v, w>>
  <2> DEFINE s == Append(<<v>>, w)
  <2>1. s \in Seq(Events) /\ Len(s) = 2 /\ s[1] = v /\ s[2] = w
      OBVIOUS
  <2> HIDE DEF s
  <2>2. s = <<v, w>>
      BY <2>1
  <2> QED BY <2>2 DEF s
<1>3. ASSUME NEW v \in Events, NEW w \in Events, NEW x \in Events
      PROVE  Append(<<v, w>>, x) = <<v, w, x>>
  <2> DEFINE s == Append(<<v, w>>, x)
  <2>1. s \in Seq(Events) /\ Len(s) = 3 /\ s[1] = v /\ s[2] = w /\ s[3] = x
      OBVIOUS
  <2> HIDE DEF s
  <2>2. s = <<v, w, x>>
      BY <2>1
  <2> QED BY <2>2 DEF s
<1>4. ASSUME NEW v \in Events, NEW w \in Events, NEW x \in Events, NEW y \in Events
      PROVE  Append(<<v, w, x>>, y) = <<v, w, x, y>>
  <2> DEFINE s == Append(<<v, w, x>>, y)
  <2>1. s \in Seq(Events) /\ Len(s) = 4 /\ s[1] = v /\ s[2] = w /\ s[3] = x /\ s[4] = y
      OBVIOUS
  <2> HIDE DEF s
  <2>2. s = <<v, w, x, y>>
      BY <2>1
  <2> QED BY <2>2 DEF s
<1> QED BY <1>1, <1>2, <1>3, <1>4, Zenon

\* Every story is a sequence of events.
LEMMA StoriesType == Stories \subseteq Seq(Events)
<1> DEFINE a == "requested"  b == "sent"  c == "accepted"
<1>1. ASSUME NEW S, NEW u \in S, NEW v \in S, NEW w \in S, NEW x \in S
      PROVE  {<<>>, <<u>>, <<u, v>>, <<u, v, w>>, <<u, v, w, x>>} \subseteq Seq(S)
    OBVIOUS
<1>2. ASSUME NEW v \in Events, NEW w \in Events, NEW x \in Events
      PROVE  {<<>>, <<a>>, <<a, v>>, <<a, v, w>>, <<a, v, w, x>>} \subseteq Seq(Events)
    BY <1>1 DEF Events
<1>3. {"sent", "accepted", "applied", "unconfirmed", "rejected"} \subseteq Events
    BY DEF Events
<1> QED BY <1>2, <1>3 DEF Stories, Ends, Unasked, Requested, Written, Taken, Refused, Unknown,
                          Unproved, OnlyTaken, Applied

\* How an event takes a story on.
LEMMA StoriesGoOn ==
    /\ Append(Unasked, "requested") = Requested
    /\ Append(Requested, "sent") = Written
    /\ Append(Requested, "rejected") = Refused
    /\ Append(Requested, "unconfirmed") = Unknown
    /\ Append(Written, "accepted") = Taken
    /\ Append(Written, "unconfirmed") = Unproved
    /\ Append(Taken, "unconfirmed") = OnlyTaken
    /\ Append(Taken, "applied") = Applied
<1>1. /\ "requested" \in Events /\ "sent" \in Events /\ "accepted" \in Events
      /\ "applied" \in Events /\ "unconfirmed" \in Events /\ "rejected" \in Events
    BY DEF Events
<1>3. Append(Unasked, "requested") = Requested
    BY <1>1, Longer, Zenon DEF Unasked, Requested
<1>4. /\ Append(Requested, "sent") = Written
      /\ Append(Requested, "rejected") = Refused
      /\ Append(Requested, "unconfirmed") = Unknown
    BY <1>1, Longer, Zenon DEF Requested, Written, Refused, Unknown
<1>5. Append(Written, "accepted") = Taken /\ Append(Written, "unconfirmed") = Unproved
  <2>1. \A x \in Events : Append(<<"requested", "sent">>, x) = <<"requested", "sent", x>>
      BY <1>1, Longer, Zenon
  <2> QED BY <1>1, <2>1, Zenon DEF Written, Taken, Unproved
<1>6. Append(Taken, "unconfirmed") = OnlyTaken /\ Append(Taken, "applied") = Applied
  <2>1. \A x \in Events : Append(<<"requested", "sent", "accepted">>, x)
                              = <<"requested", "sent", "accepted", x>>
      BY <1>1, Longer, ZenonT(60)
  <2> QED BY <1>1, <2>1, Zenon DEF Taken, OnlyTaken, Applied
<1> QED BY <1>3, <1>4, <1>5, <1>6

\* The same with what Link joins at once.
LEMMA StoriesJoined ==
    /\ Requested \o <<"sent">> = Written
    /\ Requested \o <<"rejected">> = Refused
    /\ Requested \o <<"unconfirmed">> = Unknown
    /\ Requested \o <<"sent", "unconfirmed">> = Unproved
    /\ Requested \o <<"sent", "accepted", "unconfirmed">> = OnlyTaken
    /\ Requested \o <<"sent", "accepted", "applied">> = Applied
<1>1. \A s \in Stories, e \in Events : s \o <<e>> = Append(s, e)
    BY StoriesType, AppendIsConcat
<1>2. /\ "sent" \in Events /\ "accepted" \in Events
      /\ "applied" \in Events /\ "unconfirmed" \in Events /\ "rejected" \in Events
    BY DEF Events
<1>3. {Requested, Written, Taken} \subseteq Stories
    BY DEF Stories
<1>4. /\ Requested \o <<"sent">> = Written
      /\ Requested \o <<"rejected">> = Refused
      /\ Requested \o <<"unconfirmed">> = Unknown
    BY <1>1, <1>2, <1>3, StoriesGoOn
<1>5. ASSUME NEW v \in Events, NEW w \in Events
      PROVE  Requested \o <<v, w>> = Append(Requested \o <<v>>, w)
  <2>1. <<v>> \in Seq(Events) /\ <<w>> \in Seq(Events) /\ Requested \in Seq(Events)
      BY StoriesType, <1>3
  <2>2. <<v>> \o <<w>> = <<v, w>>
    <3>1. Append(<<v>>, w) = <<v, w>>
        BY Longer, Zenon
    <3> QED BY <2>1, <3>1, AppendIsConcat
  <2>3. (Requested \o <<v>>) \o <<w>> = Requested \o (<<v>> \o <<w>>)
      BY <2>1, ConcatAssociative
  <2>4. Requested \o <<v>> \in Seq(Events)
      BY <2>1, ConcatProperties
  <2> QED BY <2>2, <2>3, <2>4, AppendIsConcat
<1>6. ASSUME NEW v \in Events, NEW w \in Events, NEW x \in Events
      PROVE  Requested \o <<v, w, x>> = Append(Requested \o <<v, w>>, x)
  <2>1. <<v, w>> \in Seq(Events) /\ <<x>> \in Seq(Events) /\ Requested \in Seq(Events)
      BY StoriesType, <1>3
  <2>2. <<v, w>> \o <<x>> = <<v, w, x>>
    <3>1. Append(<<v, w>>, x) = <<v, w, x>>
        BY Longer, Zenon
    <3> QED BY <2>1, <3>1, AppendIsConcat
  <2>3. (Requested \o <<v, w>>) \o <<x>> = Requested \o (<<v, w>> \o <<x>>)
      BY <2>1, ConcatAssociative
  <2>4. Requested \o <<v, w>> \in Seq(Events)
      BY <2>1, ConcatProperties
  <2> QED BY <2>2, <2>3, <2>4, AppendIsConcat
<1>7. Requested \o <<"sent", "unconfirmed">> = Unproved
    BY <1>2, <1>4, <1>5, StoriesGoOn, ZenonT(60)
<1>8. Requested \o <<"sent", "accepted">> = Taken
    BY <1>2, <1>4, <1>5, StoriesGoOn, ZenonT(60)
<1>9. Requested \o <<"sent", "accepted", "unconfirmed">> = OnlyTaken
  <2>1. Requested \o <<"sent", "accepted", "unconfirmed">>
            = Append(Requested \o <<"sent", "accepted">>, "unconfirmed")
      BY <1>2, <1>6, Zenon
  <2> QED BY <2>1, <1>8, StoriesGoOn
<1>10. Requested \o <<"sent", "accepted", "applied">> = Applied
  <2>1. Requested \o <<"sent", "accepted", "applied">>
            = Append(Requested \o <<"sent", "accepted">>, "applied")
      BY <1>2, <1>6, Zenon
  <2> QED BY <2>1, <1>8, StoriesGoOn
<1> QED BY <1>4, <1>7, <1>9, <1>10

\* An end is one of the outcomes, and every story is the beginning of one.
LEMMA EndsAreOutcomes ==
    ASSUME NEW s \in Ends PROVE \E o \in Outcomes : s = <<"requested">> \o o
BY StoriesJoined DEF Ends, Outcomes, Requested

LEMMA StoriesBegin ==
    ASSUME NEW s \in Stories
    PROVE  \E o \in Outcomes : IsPrefix(s, <<"requested">> \o o)
<1>1. ASSUME NEW t \in Seq(Events), NEW e \in Events
      PROVE  IsPrefix(t, t) /\ IsPrefix(t, Append(t, e)) /\ IsPrefix(<<>>, t)
  <2>1. Append(t, e) \in Seq(Events) /\ Len(Append(t, e)) = Len(t) + 1
      OBVIOUS
  <2>2. SubSeq(Append(t, e), 1, Len(t)) = SubSeq(t, 1, Len(t))
    <3>1. CASE Len(t) = 0
        BY <3>1, SubSeqEmpty
    <3>2. CASE Len(t) > 0
        BY <3>2, AppendIsConcat, SubSeqOfConcat1
    <3> QED BY <3>1, <3>2
  <2>3. SubSeq(<<>>, 1, 0) = <<>> /\ SubSeq(t, 1, 0) = <<>>
      BY SubSeqEmpty
  <2> QED BY <2>1, <2>2, <2>3 DEF IsPrefix
<1>2. \E t \in Ends : IsPrefix(s, t)
  <2>1. "unconfirmed" \in Events /\ "applied" \in Events /\ "rejected" \in Events
      BY DEF Events
  <2>2. Stories \subseteq Seq(Events)
      BY StoriesType
  <2>3. CASE s \in Ends
      BY <1>1, <2>1, <2>2, <2>3
  <2>4. CASE s = Unasked
      BY <1>1, <2>1, <2>2, <2>4 DEF Unasked, Ends, Stories
  <2>5. CASE s = Requested
      BY <1>1, <2>1, <2>2, <2>5, StoriesGoOn DEF Ends
  <2>6. CASE s = Written
      BY <1>1, <2>1, <2>2, <2>6, StoriesGoOn DEF Ends
  <2>7. CASE s = Taken
      BY <1>1, <2>1, <2>2, <2>7, StoriesGoOn DEF Ends
  <2> QED BY <2>3, <2>4, <2>5, <2>6, <2>7 DEF Stories
<1> QED BY <1>2, EndsAreOutcomes

-----------------------------------------------------------------------------
(* The inductive invariant. *)

\* There is a session exactly while the loop is at one, and a message is held
\* while it waits for the lock.
LoopInv ==
    /\ session = None <=> loop \in {"scan", "pause", "stopped"}
    /\ loop = "locking" <=> held # None

\* The command in flight was answered, is on the link that is up, has no end yet,
\* and no other is being written.
PendingInv ==
    pending # None =>
        /\ session # None /\ via[pending.id] = session
        /\ phase[pending.id] = "done" /\ reply[pending.id] = "accepted"
        /\ log[pending.id] = IF pending.accepted THEN Taken ELSE Written
        /\ lock \notin Commands

\* Where each request's task is tells its story, and what the cooler may have had.
TaskAt(c) ==
    /\ log[c] \in Stories
    /\ phase[c] = "idle" => log[c] = Unasked
    /\ phase[c] \in {"waiting", "writing", "cancelled"} => log[c] = Requested
    /\ phase[c] = "done" => (pending # None /\ pending.id = c) \/ log[c] \in Ends
    /\ phase[c] \in {"waiting", "writing"} => asks[c] \in Values \cup {Invalid}
    /\ phase[c] = "writing" => asks[c] \in Values /\ via[c] \in Connection
    /\ c \in reached => phase[c] \notin {"idle", "waiting"}
    /\ reply[c] # None => phase[c] = "done"

TaskInv == \A c \in Commands : TaskAt(c)

IInv == TypeOK /\ LoopInv /\ PendingInv /\ TaskInv

\* None is no session, no record, no string of ours.
LEMMA NoneIsApart ==
    /\ \A k \in Connection : k # None
    /\ \A r \in NegotiationState : r # None
    /\ \A r \in PendingCommand : r # None
    /\ \A m \in Notification : m # None
    /\ \A c \in Commands : c # None /\ c # "loop"
    /\ \A v \in Values : v # None
    /\ None # "loop" /\ None # "rejected" /\ None # "accepted"
BY NoneAssumption, CommandsAssumption, NoRecordAssumption, LinkBoundsAssumption DEF Connection

LEMMA InitIInv == Init => IInv
<1> SUFFICES ASSUME Init PROVE IInv
    OBVIOUS
<1>1. LoopType
  <2>1. stop \in BOOLEAN /\ disconnected \in BOOLEAN /\ seenOld \in BOOLEAN /\ messageOld \in BOOLEAN
      BY Zenon DEF Init
  <2>2. connections \in 0..MaxConnections
      BY LinkBoundsAssumption DEF Init
  <2>3. loop \in LoopWrites \cup {"scan", "top", "wait", "locking", "close", "pause", "stopped"}
      BY DEF Init
  <2> QED BY <2>1, <2>2, <2>3, Zenon DEF Init, LoopType
<1>2. LockType
    BY NoneIsApart DEF Init, LockType
<1>3. RequestType
  <2>1. <<>> \in Seq(Events)
      OBVIOUS
  <2> QED BY <2>1 DEF Init, RequestType, Events
<1>4. CoolerType
  <2>1. up \in BOOLEAN
      BY Zenon DEF Init
  <2>2. inbox \in Seq(Notification) /\ owed \in Seq(Commands) /\ Len(inbox) <= MaxInbox
      BY LinkBoundsAssumption DEF Init
  <2> QED BY <2>1, <2>2 DEF Init, CoolerType
<1>5. LoopInv /\ PendingInv
    BY DEF Init, LoopInv, PendingInv
<1>6. TaskInv
  <2> SUFFICES ASSUME NEW c \in Commands
               PROVE  log[c] = Unasked /\ phase[c] = "idle" /\ c \notin reached /\ reply[c] = None
      BY NoneIsApart DEF TaskInv, TaskAt, Stories
  <2> QED BY DEF Init, Unasked
<1> QED BY <1>1, <1>2, <1>3, <1>4, <1>5, <1>6 DEF IInv, TypeOK

-----------------------------------------------------------------------------
(* What several actions do to the stories. *)

LEMMA EndsType == Ends \subseteq Stories /\ Stories \subseteq Seq(Events)
BY StoriesType DEF Stories

\* The command in flight comes to an end.
LEMMA PendingEnds ==
    ASSUME IInv, pending # None, pending' = None,
           NEW s \in Ends, log' = [log EXCEPT ![pending.id] = s],
           UNCHANGED <<phase, asks, via, reply, reached>>
    PROVE  RequestType' /\ TaskInv'
<1>1. pending.id \in Commands
    BY DEF IInv, TypeOK, LoopType, PendingCommand
<1>2. s \in Stories /\ s \in Seq(Events)
    BY EndsType
<1>3. RequestType'
    BY <1>2 DEF IInv, TypeOK, RequestType, Events
<1>4. TaskInv'
  <2> SUFFICES ASSUME NEW d \in Commands PROVE TaskAt(d)'
      BY DEF TaskInv
  <2>1. CASE d = pending.id
      BY <1>2, <2>1, NoneIsApart
         DEF IInv, TypeOK, RequestType, PendingInv, TaskInv, TaskAt
  <2>2. CASE d # pending.id
      BY <2>2 DEF IInv, TypeOK, RequestType, TaskInv, TaskAt
  <2> QED BY <2>1, <2>2
<1> QED BY <1>3, <1>4

LEMMA UnconfirmedEnds ==
    ASSUME IInv, pending # None, Unconfirmed
    PROVE  pending' = None /\ \E s \in Ends : log' = [log EXCEPT ![pending.id] = s]
<1>1. log' = [log EXCEPT ![pending.id] = Append(log[pending.id], "unconfirmed")] /\ pending' = None
    BY DEF Unconfirmed, Told, IInv, TypeOK, LoopType, PendingCommand
<1>2. log[pending.id] \in {Written, Taken}
    BY DEF IInv, PendingInv
<1>3. Append(log[pending.id], "unconfirmed") \in Ends
    BY <1>2, StoriesGoOn DEF Ends
<1> QED BY <1>1, <1>3

\* A request is answered and its story has an end.
LEMMA AnswerEnds ==
    ASSUME IInv, NEW c \in Commands, phase[c] \in {"waiting", "writing"},
           NEW events, NEW status \in {"accepted", "rejected"},
           Answer(c, events, status), Requested \o events \in Ends,
           UNCHANGED <<pending, asks, via, reached>>
    PROVE  /\ RequestType' /\ TaskInv'
           /\ phase' = [phase EXCEPT ![c] = "done"]
           /\ pending # None => pending.id # c
<1> DEFINE story == Requested \o events
<1>1. log[c] = Requested
    BY DEF IInv, TaskInv, TaskAt
<1>2. /\ log' = [log EXCEPT ![c] = story] /\ phase' = [phase EXCEPT ![c] = "done"]
      /\ reply' = [reply EXCEPT ![c] = status]
    BY <1>1 DEF Answer, IInv, TypeOK, RequestType
<1>3. story \in Ends /\ story \in Stories /\ story \in Seq(Events)
    BY EndsType
<1> HIDE DEF story
<1>4. RequestType'
    BY <1>2, <1>3 DEF IInv, TypeOK, RequestType, Events
<1>5. pending # None => pending.id # c
    BY DEF IInv, PendingInv
<1>6. TaskInv'
  <2> SUFFICES ASSUME NEW d \in Commands PROVE TaskAt(d)'
      BY DEF TaskInv
  <2>1. CASE d = c
    <3>1. /\ log'[d] = story /\ phase'[d] = "done" /\ reply'[d] = status
        BY <1>2, <2>1 DEF IInv, TypeOK, RequestType
    <3> QED BY <1>3, <3>1 DEF IInv, TaskInv, TaskAt
  <2>2. CASE d # c
    <3>1. log'[d] = log[d] /\ phase'[d] = phase[d] /\ reply'[d] = reply[d]
        BY <1>2, <2>2 DEF IInv, TypeOK, RequestType
    <3> QED BY <3>1 DEF IInv, TaskInv, TaskAt
  <2> QED BY <2>1, <2>2
<1> QED BY <1>2, <1>4, <1>5, <1>6

\* A notification that fits is in the queue.
LEMMA NotifyType ==
    ASSUME CoolerType, NEW m \in Notification, Notify(m)
    PROVE  inbox' \in Seq(Notification) /\ Len(inbox') <= MaxInbox
BY LinkBoundsAssumption DEF CoolerType, Notify

-----------------------------------------------------------------------------
(* Each action keeps the invariant: one lemma per action of Link, with one step  *)
(* per part the action can disturb and one for the parts it leaves alone.       *)

LEMMA NotFoundStep == ASSUME IInv, NotFound PROVE IInv'
<1>1. LoopType'
    BY NoneIsApart DEF IInv, TypeOK, LoopType, NotFound, linkRest, conn, timers, commandVars,
        coolerVars, radio
<1>2. LockType'
    BY NoneIsApart DEF IInv, TypeOK, LockType, NotFound, linkRest, conn, timers, commandVars,
        coolerVars, radio
<1>3. LoopInv'
    BY NoneIsApart DEF IInv, TypeOK, LoopInv, NotFound, linkRest, conn, timers, commandVars,
        coolerVars, radio
<1>4. RequestType' /\ CoolerType' /\ PendingInv' /\ TaskInv'
    BY DEF IInv, TypeOK, RequestType, CoolerType, PendingInv, TaskInv, TaskAt, NotFound,
        linkRest, conn, timers, commandVars, coolerVars, radio
<1> QED BY <1>1, <1>2, <1>3, <1>4 DEF IInv, TypeOK

LEMMA ConnectStep == ASSUME IInv, Connect PROVE IInv'
<1>1. LoopType'
  <2>1. connections' \in 0..MaxConnections /\ session' \in Connection
      BY LinkBoundsAssumption DEF Connect, IInv, TypeOK, LoopType, Connection
  <2>2. state' \in NegotiationState
      BY DEF Connect, NewState, NegotiationState
  <2>3. /\ stop' \in BOOLEAN /\ disconnected' \in BOOLEAN
        /\ seenOld' \in BOOLEAN /\ messageOld' \in BOOLEAN
      BY Zenon DEF Connect, IInv, TypeOK, LoopType
  <2>4. loop' \in LoopWrites
      BY DEF Connect, LoopWrites
  <2> QED BY <2>1, <2>2, <2>3, <2>4, NoneIsApart DEF Connect, IInv, TypeOK, LoopType
<1>2. LockType'
    BY NoneIsApart DEF IInv, TypeOK, LockType, Connect, NewState, commandVars
<1>3. CoolerType'
  <2>1. up' \in BOOLEAN
      BY Zenon DEF Connect
  <2>2. inbox' \in Seq(Notification) /\ owed' \in Seq(Commands) /\ Len(inbox') <= MaxInbox
      BY LinkBoundsAssumption DEF Connect
  <2> QED BY <2>1, <2>2 DEF Connect, IInv, TypeOK, CoolerType
<1>4. LoopInv'
  <2>1. connections + 1 \in Connection
      BY LinkBoundsAssumption DEF Connect, IInv, TypeOK, LoopType, Connection
  <2> QED BY <2>1, NoneIsApart DEF Connect, IInv, LoopInv
<1>5. PendingInv'
    BY DEF IInv, LoopInv, PendingInv, Connect
<1>6. RequestType' /\ TaskInv'
    BY DEF IInv, TypeOK, RequestType, TaskInv, TaskAt, Connect, commandVars
<1> QED BY <1>1, <1>2, <1>3, <1>4, <1>5, <1>6 DEF IInv, TypeOK

LEMMA WriteFailsStep == ASSUME IInv, WriteFails PROVE IInv'
<1>1. LoopType'
    BY NoneIsApart DEF IInv, TypeOK, LoopType, WriteFails, ReleaseLock, LoopWrites, conn,
        timers, commandVars, coolerVars, radio
<1>2. LockType'
    BY NoneIsApart DEF IInv, TypeOK, LockType, WriteFails, ReleaseLock, LoopWrites, conn,
        timers, commandVars, coolerVars, radio
<1>3. LoopInv'
    BY NoneIsApart DEF IInv, TypeOK, LoopInv, WriteFails, ReleaseLock, LoopWrites, conn, timers,
        commandVars, coolerVars, radio
<1>4. PendingInv'
    BY NoneIsApart DEF IInv, TypeOK, PendingInv, WriteFails, ReleaseLock, LoopWrites, conn,
        timers, commandVars, coolerVars, radio
<1>5. RequestType' /\ CoolerType' /\ TaskInv'
    BY DEF IInv, TypeOK, RequestType, CoolerType, TaskInv, TaskAt, WriteFails, ReleaseLock,
        conn, timers, commandVars, coolerVars, radio
<1> QED BY <1>1, <1>2, <1>3, <1>4, <1>5 DEF IInv, TypeOK

LEMMA WriteSucceedsStep == ASSUME IInv, WriteSucceeds PROVE IInv'
<1>1. LoopType'
    BY NoneIsApart DEF IInv, TypeOK, LoopType, WriteSucceeds, ReleaseLock, LoopWrites, conn,
        commandVars
<1>2. LockType'
    BY NoneIsApart DEF IInv, TypeOK, LockType, WriteSucceeds, ReleaseLock, LoopWrites, conn,
        commandVars
<1>3. CoolerType'
    BY NoneIsApart DEF IInv, TypeOK, CoolerType, WriteSucceeds, ReleaseLock, LoopWrites, conn,
        commandVars
<1>4. LoopInv'
    BY NoneIsApart DEF IInv, TypeOK, LoopInv, WriteSucceeds, ReleaseLock, LoopWrites, conn,
        commandVars
<1>5. PendingInv'
    BY NoneIsApart DEF IInv, TypeOK, PendingInv, WriteSucceeds, ReleaseLock, LoopWrites, conn,
        commandVars
<1>6. RequestType' /\ TaskInv'
    BY DEF IInv, TypeOK, RequestType, TaskInv, TaskAt, WriteSucceeds, ReleaseLock, conn,
        commandVars
<1> QED BY <1>1, <1>2, <1>3, <1>4, <1>5, <1>6 DEF IInv, TypeOK

LEMMA LoopAgainStep == ASSUME IInv, LoopAgain PROVE IInv'
<1>1. LoopType'
  <2>1. pending' \in PendingCommand \cup {None}
      BY DEF LoopAgain, Unconfirmed, IInv, TypeOK, LoopType
  <2>2. state \in NegotiationState
      BY DEF LoopAgain, IInv, TypeOK, LoopType, LoopInv
  <2>3. state' \in NegotiationState /\ loop' \in {"ask", "wait"}
      BY <2>2 DEF LoopAgain, NegotiationState
  <2> QED BY <2>1, <2>2, <2>3, NoneIsApart DEF LoopAgain, IInv, TypeOK, LoopType, LoopWrites, conn, timers
<1>2. LockType'
    BY NoneIsApart DEF IInv, TypeOK, LockType, LoopAgain, Overdue, Unconfirmed, Told,
        StateWanted, conn, timers, coolerVars, radio
<1>3. RequestType'
  <2>1. CASE Overdue
    <3>1. pending # None /\ Unconfirmed
        BY <2>1 DEF LoopAgain, Overdue
    <3> QED BY <3>1, UnconfirmedEnds, PendingEnds DEF LoopAgain, coolerVars
  <2>2. CASE ~Overdue
      BY <2>2 DEF LoopAgain, IInv, TypeOK, RequestType, TaskInv, TaskAt, coolerVars
  <2> QED BY <2>1, <2>2
<1>4. LoopInv'
    BY NoneIsApart DEF IInv, TypeOK, LoopInv, LoopAgain, Overdue, Unconfirmed, Told,
        StateWanted, conn, timers, coolerVars, radio
<1>5. PendingInv'
    BY NoneIsApart DEF IInv, TypeOK, PendingInv, LoopAgain, Overdue, Unconfirmed, Told,
        StateWanted, conn, timers, coolerVars, radio
<1>6. TaskInv'
  <2>1. CASE Overdue
    <3>1. pending # None /\ Unconfirmed
        BY <2>1 DEF LoopAgain, Overdue
    <3> QED BY <3>1, UnconfirmedEnds, PendingEnds DEF LoopAgain, coolerVars
  <2>2. CASE ~Overdue
      BY <2>2 DEF LoopAgain, IInv, TypeOK, RequestType, TaskInv, TaskAt, coolerVars
  <2> QED BY <2>1, <2>2
<1>7. CoolerType'
    BY DEF IInv, TypeOK, CoolerType, LoopAgain, conn, timers, coolerVars, radio
<1> QED BY <1>1, <1>2, <1>3, <1>4, <1>5, <1>6, <1>7 DEF IInv, TypeOK

LEMMA LoopEndsStep == ASSUME IInv, LoopEnds PROVE IInv'
<1>1. LoopType'
    BY NoneIsApart DEF IInv, TypeOK, LoopType, LoopEnds, linkRest, conn, timers, commandVars,
        coolerVars, radio
<1>2. LockType'
    BY NoneIsApart DEF IInv, TypeOK, LockType, LoopEnds, linkRest, conn, timers, commandVars,
        coolerVars, radio
<1>3. LoopInv'
    BY NoneIsApart DEF IInv, TypeOK, LoopInv, LoopEnds, linkRest, conn, timers, commandVars,
        coolerVars, radio
<1>4. RequestType' /\ CoolerType' /\ PendingInv' /\ TaskInv'
    BY DEF IInv, TypeOK, RequestType, CoolerType, PendingInv, TaskInv, TaskAt, LoopEnds,
        linkRest, conn, timers, commandVars, coolerVars, radio
<1> QED BY <1>1, <1>2, <1>3, <1>4 DEF IInv, TypeOK

LEMMA ReceiveStep == ASSUME IInv, Receive PROVE IInv'
<1>1. LoopType'
  <2>1. held' \in Notification
      BY DEF Receive, IInv, TypeOK, CoolerType
  <2>2. seenOld' \in BOOLEAN /\ messageOld' \in BOOLEAN
      BY Zenon DEF Receive
  <2> QED BY <2>1, <2>2 DEF Receive, IInv, TypeOK, LoopType, conn
<1>2. LockType'
    BY NoneIsApart DEF IInv, TypeOK, LockType, Receive, conn, commandVars
<1>3. CoolerType'
  <2>1. inbox' \in Seq(Notification) /\ Len(inbox') <= MaxInbox
      BY LinkBoundsAssumption DEF Receive, IInv, TypeOK, CoolerType
  <2> QED BY <2>1 DEF Receive, IInv, TypeOK, CoolerType
<1>4. LoopInv'
  <2>1. held' \in Notification
      BY DEF Receive, IInv, TypeOK, CoolerType
  <2> QED BY <2>1, NoneIsApart DEF Receive, IInv, LoopInv, conn
<1>5. RequestType' /\ PendingInv' /\ TaskInv'
    BY DEF IInv, TypeOK, RequestType, PendingInv, TaskInv, TaskAt, Receive, conn, commandVars
<1> QED BY <1>1, <1>2, <1>3, <1>4, <1>5 DEF IInv, TypeOK

LEMMA SilenceStep == ASSUME IInv, Silence PROVE IInv'
<1>1. LoopType'
  <2>1. state \in NegotiationState
      BY DEF Silence, IInv, TypeOK, LoopType, LoopInv
  <2>2. state' \in NegotiationState /\ loop' \in LoopWrites \cup {"top", "close"}
      BY <2>1 DEF Silence, NegotiationState, LoopWrites
  <2> QED BY <2>1, <2>2, NoneIsApart DEF Silence, IInv, TypeOK, LoopType, conn, timers
<1>2. LockType'
    BY NoneIsApart DEF IInv, TypeOK, LockType, Silence, conn, timers, commandVars, coolerVars,
        radio
<1>3. LoopInv'
    BY NoneIsApart DEF IInv, TypeOK, LoopInv, Silence, conn, timers, commandVars, coolerVars,
        radio
<1>4. RequestType' /\ CoolerType' /\ PendingInv' /\ TaskInv'
    BY DEF IInv, TypeOK, RequestType, CoolerType, PendingInv, TaskInv, TaskAt, Silence, conn,
        timers, commandVars, coolerVars, radio
<1> QED BY <1>1, <1>2, <1>3, <1>4 DEF IInv, TypeOK

LEMMA ForgetSessionStep == ASSUME IInv, ForgetSession PROVE IInv'
<1>1. LoopType'
    BY NoneIsApart DEF IInv, TypeOK, LoopType, ForgetSession, ReportPending, Unconfirmed, Told
<1>2. LockType'
    BY NoneIsApart DEF IInv, TypeOK, LockType, ForgetSession, ReportPending, Unconfirmed, Told
<1>3. RequestType'
  <2>1. CASE pending # None
      BY <2>1, UnconfirmedEnds, PendingEnds DEF ForgetSession, ReportPending
  <2>2. CASE pending = None
      BY <2>2 DEF ForgetSession, ReportPending, IInv, TypeOK, RequestType, TaskInv, TaskAt
  <2> QED BY <2>1, <2>2
<1>4. CoolerType'
  <2>1. up' \in BOOLEAN
      BY Zenon DEF ForgetSession
  <2>2. inbox' \in Seq(Notification) /\ owed' \in Seq(Commands) /\ Len(inbox') <= MaxInbox
      BY LinkBoundsAssumption DEF ForgetSession
  <2> QED BY <2>1, <2>2 DEF ForgetSession, IInv, TypeOK, CoolerType
<1>5. LoopInv'
    BY NoneIsApart DEF IInv, TypeOK, LoopInv, ForgetSession, ReportPending, Unconfirmed, Told
<1>6. PendingInv'
    BY NoneIsApart DEF IInv, TypeOK, PendingInv, ForgetSession, ReportPending, Unconfirmed, Told
<1>7. TaskInv'
  <2>1. CASE pending # None
      BY <2>1, UnconfirmedEnds, PendingEnds DEF ForgetSession, ReportPending
  <2>2. CASE pending = None
      BY <2>2 DEF ForgetSession, ReportPending, IInv, TypeOK, RequestType, TaskInv, TaskAt
  <2> QED BY <2>1, <2>2
<1> QED BY <1>1, <1>2, <1>3, <1>4, <1>5, <1>6, <1>7 DEF IInv, TypeOK

LEMMA ScanAgainStep == ASSUME IInv, ScanAgain PROVE IInv'
<1>1. LoopType'
    BY NoneIsApart DEF IInv, TypeOK, LoopType, ScanAgain, linkRest, conn, timers, commandVars,
        coolerVars, radio
<1>2. LockType'
    BY NoneIsApart DEF IInv, TypeOK, LockType, ScanAgain, linkRest, conn, timers, commandVars,
        coolerVars, radio
<1>3. LoopInv'
    BY NoneIsApart DEF IInv, TypeOK, LoopInv, ScanAgain, linkRest, conn, timers, commandVars,
        coolerVars, radio
<1>4. RequestType' /\ CoolerType' /\ PendingInv' /\ TaskInv'
    BY DEF IInv, TypeOK, RequestType, CoolerType, PendingInv, TaskInv, TaskAt, ScanAgain,
        linkRest, conn, timers, commandVars, coolerVars, radio
<1> QED BY <1>1, <1>2, <1>3, <1>4 DEF IInv, TypeOK

LEMMA ShutdownStep == ASSUME IInv, Shutdown PROVE IInv'
<1>1. LoopType'
    BY NoneIsApart DEF IInv, TypeOK, LoopType, Shutdown, conn, timers, coolerVars, radio
<1>2. LockType'
    BY NoneIsApart DEF IInv, TypeOK, LockType, Shutdown, conn, timers, coolerVars, radio
<1>3. RequestType'
    BY NoneIsApart DEF IInv, TypeOK, RequestType, Shutdown, conn, timers, coolerVars, radio
<1>4. LoopInv'
    BY NoneIsApart DEF IInv, TypeOK, LoopInv, Shutdown, conn, timers, coolerVars, radio
<1>5. PendingInv'
    BY DEF IInv, LoopInv, PendingInv, Shutdown
<1>6. TaskInv'
    BY NoneIsApart DEF IInv, TypeOK, TaskInv, TaskAt, Shutdown, conn, timers, coolerVars, radio
<1>7. CoolerType'
    BY DEF IInv, TypeOK, CoolerType, Shutdown, conn, timers, coolerVars, radio
<1> QED BY <1>1, <1>2, <1>3, <1>4, <1>5, <1>6, <1>7 DEF IInv, TypeOK

LEMMA RequestStep == ASSUME IInv, NEW c \in Commands, Request(c) PROVE IInv'
<1>1. LockType'
    BY NoneIsApart DEF IInv, TypeOK, LockType, Request, Told, linkRest, conn, timers,
        coolerVars, radio
<1>2. RequestType'
    BY NoneIsApart DEF IInv, TypeOK, RequestType, Request, Told, linkRest, conn, timers,
        coolerVars, radio
<1>3. PendingInv'
    BY NoneIsApart DEF IInv, TypeOK, PendingInv, Request, Told, linkRest, conn, timers,
        coolerVars, radio
<1>4. TaskInv'
  <2>1. log[c] = Unasked /\ log' = [log EXCEPT ![c] = Requested]
      BY StoriesGoOn DEF Request, Told, IInv, TaskInv, TaskAt
  <2>2. Requested \in Stories
      BY DEF Stories
  <2>3. pending # None => pending.id # c
      BY DEF Request, IInv, PendingInv
  <2> SUFFICES ASSUME NEW d \in Commands PROVE TaskAt(d)'
      BY DEF TaskInv
  <2>4. CASE d = c
      BY <2>1, <2>2, <2>4, NoneIsApart
         DEF Request, IInv, TypeOK, RequestType, TaskInv, TaskAt, linkRest, coolerVars
  <2>5. CASE d # c
      BY <2>1, <2>5 DEF Request, IInv, TypeOK, RequestType, TaskInv, TaskAt, linkRest, coolerVars
  <2> QED BY <2>4, <2>5
<1>5. LoopType' /\ CoolerType' /\ LoopInv'
    BY DEF IInv, TypeOK, LoopType, CoolerType, LoopInv, Request, linkRest, conn, timers,
        coolerVars, radio
<1> QED BY <1>1, <1>2, <1>3, <1>4, <1>5 DEF IInv, TypeOK

LEMMA RejectStep == ASSUME IInv, NEW c \in Commands, Reject(c) PROVE IInv'
<1>1. LockType'
    BY NoneIsApart DEF IInv, TypeOK, LockType, Reject, Answer, linkRest, conn, timers,
        coolerVars, radio
<1>2. RequestType'
    BY NoneIsApart DEF IInv, TypeOK, RequestType, Reject, Answer, linkRest, conn, timers,
        coolerVars, radio
<1>3. PendingInv'
    BY NoneIsApart DEF IInv, TypeOK, PendingInv, Reject, Answer, linkRest, conn, timers,
        coolerVars, radio
<1>4. TaskInv'
    BY StoriesJoined, AnswerEnds DEF Reject, IInv, TaskInv, TaskAt, linkRest, coolerVars, Ends
<1>5. LoopType' /\ CoolerType' /\ LoopInv'
    BY DEF IInv, TypeOK, LoopType, CoolerType, LoopInv, Reject, linkRest, conn, timers,
        coolerVars, radio
<1> QED BY <1>1, <1>2, <1>3, <1>4, <1>5 DEF IInv, TypeOK

LEMMA AcceptStep == ASSUME IInv, NEW c \in Commands, Accept(c) PROVE IInv'
<1>1. LockType'
    BY NoneIsApart DEF Accept, IInv, TypeOK, LockType, RequestType
<1>2. RequestType'
  <2>1. session \in Connection
      BY DEF Accept, Acceptable, IInv, TypeOK, LoopType
  <2> QED BY <2>1 DEF Accept, IInv, TypeOK, RequestType
<1>3. PendingInv'
    BY NoneIsApart DEF IInv, TypeOK, PendingInv, Accept, Acceptable, conn, timers, coolerVars,
        radio
<1>4. TaskInv'
  <2>1. session \in Connection /\ asks[c] \in Values
      BY DEF Accept, Acceptable, IInv, TypeOK, LoopType, TaskInv, TaskAt
  <2> SUFFICES ASSUME NEW d \in Commands PROVE TaskAt(d)'
      BY DEF TaskInv
  <2>2. CASE d = c
      BY <2>1, <2>2 DEF Accept, IInv, TypeOK, RequestType, TaskInv, TaskAt, coolerVars
  <2>3. CASE d # c
      BY <2>3 DEF Accept, IInv, TypeOK, RequestType, TaskInv, TaskAt, coolerVars
  <2> QED BY <2>2, <2>3
<1>5. LoopType' /\ CoolerType' /\ LoopInv'
    BY DEF IInv, TypeOK, LoopType, CoolerType, LoopInv, Accept, conn, timers, coolerVars, radio
<1> QED BY <1>1, <1>2, <1>3, <1>4, <1>5 DEF IInv, TypeOK

LEMMA SentStep == ASSUME IInv, NEW c \in Commands, Sent(c) PROVE IInv'
<1>1. LoopType'
  <2>1. pending' \in PendingCommand \cup {None}
    <3>1. [id |-> c, accepted |-> FALSE, due |-> FALSE] \in PendingCommand
        BY DEF PendingCommand
    <3> QED BY <3>1 DEF Sent, IInv, TypeOK, LoopType
  <2> QED BY <2>1 DEF Sent, IInv, TypeOK, LoopType, conn, timers
<1>2. LockType'
  <2>1. lock = c /\ c # "loop"
      BY NoneIsApart DEF Sent, IInv, TypeOK, LockType
  <2>2. phase' = [phase EXCEPT ![c] = "done"]
      BY DEF Sent, Answer
  <2> QED BY <2>1, <2>2, NoneIsApart DEF Sent, IInv, TypeOK, LockType, RequestType
<1>3. RequestType'
  <2>1. /\ log[c] = Requested /\ pending = None
      BY NoneIsApart DEF Sent, IInv, TypeOK, LockType, PendingInv, TaskInv, TaskAt
  <2>2. CASE SameLink(c)
    <3>1. /\ pending' = [id |-> c, accepted |-> FALSE, due |-> FALSE]
          /\ log' = [log EXCEPT ![c] = Written] /\ reply' = [reply EXCEPT ![c] = "accepted"]
          /\ phase' = [phase EXCEPT ![c] = "done"]
        BY <2>1, <2>2, StoriesJoined DEF Sent, Answer
    <3>2. Written \in Stories /\ Written \in Seq(Events)
        BY StoriesType DEF Stories
    <3>3. pending' # None
        BY <3>1, NoneIsApart DEF PendingCommand
    <3> QED BY <3>1, <3>2 DEF Sent, IInv, TypeOK, RequestType, Events
  <2>3. CASE ~SameLink(c)
      BY <2>3, StoriesJoined, AnswerEnds DEF Sent, Ends, coolerVars
  <2> QED BY <2>2, <2>3
<1>4. PendingInv'
  <2>1. log[c] = Requested /\ pending = None
      BY NoneIsApart DEF Sent, IInv, TypeOK, LockType, PendingInv, TaskInv, TaskAt
  <2>2. CASE SameLink(c)
    <3>1. /\ pending' = [id |-> c, accepted |-> FALSE, due |-> FALSE]
          /\ log'[c] = Written /\ reply'[c] = "accepted" /\ phase'[c] = "done"
        BY <2>1, <2>2, StoriesJoined DEF Sent, Answer, IInv, TypeOK, RequestType
    <3>2. session # None
        BY <2>2, NoneIsApart DEF Sent, SameLink, IInv, TaskInv, TaskAt
    <3> QED BY <2>2, <3>1, <3>2, NoneIsApart DEF Sent, SameLink, PendingInv, conn
  <2>3. CASE ~SameLink(c)
      BY <2>1, <2>3 DEF Sent, PendingInv
  <2> QED BY <2>2, <2>3
<1>5. TaskInv'
  <2>1. /\ log[c] = Requested /\ pending = None
      BY NoneIsApart DEF Sent, IInv, TypeOK, LockType, PendingInv, TaskInv, TaskAt
  <2>2. CASE SameLink(c)
    <3>1. /\ pending' = [id |-> c, accepted |-> FALSE, due |-> FALSE]
          /\ log' = [log EXCEPT ![c] = Written] /\ reply' = [reply EXCEPT ![c] = "accepted"]
          /\ phase' = [phase EXCEPT ![c] = "done"]
        BY <2>1, <2>2, StoriesJoined DEF Sent, Answer
    <3>2. Written \in Stories /\ Written \in Seq(Events)
        BY StoriesType DEF Stories
    <3>3. pending' # None
        BY <3>1, NoneIsApart DEF PendingCommand
    <3> SUFFICES ASSUME NEW d \in Commands PROVE TaskAt(d)'
        BY DEF TaskInv
    <3>4. CASE d = c
        BY <3>1, <3>2, <3>3, <3>4 DEF Sent, IInv, TypeOK, RequestType, TaskInv, TaskAt, coolerVars
    <3>5. CASE d # c
        BY <2>1, <3>1, <3>5 DEF Sent, IInv, TypeOK, RequestType, TaskInv, TaskAt, coolerVars
    <3> QED BY <3>4, <3>5
  <2>3. CASE ~SameLink(c)
      BY <2>3, StoriesJoined, AnswerEnds DEF Sent, Ends, coolerVars
  <2> QED BY <2>2, <2>3
<1>6. CoolerType' /\ LoopInv'
    BY DEF IInv, TypeOK, CoolerType, LoopInv, Sent, conn, timers, coolerVars, radio
<1> QED BY <1>1, <1>2, <1>3, <1>4, <1>5, <1>6 DEF IInv, TypeOK

LEMMA WriteHangsStep == ASSUME IInv, NEW c \in Commands, WriteHangs(c) PROVE IInv'
<1>1. LoopType'
    BY NoneIsApart DEF IInv, TypeOK, LoopType, WriteHangs, Answer, timers,
        coolerVars, radio
<1>2. LockType'
  <2>1. lock = c /\ c # "loop"
      BY NoneIsApart DEF WriteHangs, IInv, TypeOK, LockType
  <2>2. phase' = [phase EXCEPT ![c] = "done"]
      BY DEF WriteHangs, Answer
  <2> QED BY <2>1, <2>2, NoneIsApart DEF WriteHangs, IInv, TypeOK, LockType, RequestType
<1>3. RequestType'
    BY NoneIsApart DEF IInv, TypeOK, RequestType, WriteHangs, Answer, timers,
        coolerVars, radio
<1>4. PendingInv'
    BY NoneIsApart DEF IInv, TypeOK, PendingInv, WriteHangs, Answer, timers,
        coolerVars, radio
<1>5. TaskInv'
    BY StoriesJoined, AnswerEnds DEF WriteHangs, coolerVars, Ends
<1>6. CoolerType' /\ LoopInv'
    BY DEF IInv, TypeOK, CoolerType, LoopInv, WriteHangs, timers, coolerVars, radio
<1> QED BY <1>1, <1>2, <1>3, <1>4, <1>5, <1>6 DEF IInv, TypeOK

LEMMA WriteRefusedStep == ASSUME IInv, NEW c \in Commands, WriteRefused(c) PROVE IInv'
<1>1. LockType'
  <2>1. lock = c /\ c # "loop"
      BY NoneIsApart DEF WriteRefused, IInv, TypeOK, LockType
  <2>2. phase' = [phase EXCEPT ![c] = "done"]
      BY DEF WriteRefused, Answer
  <2> QED BY <2>1, <2>2, NoneIsApart DEF WriteRefused, IInv, TypeOK, LockType, RequestType
<1>2. RequestType'
    BY NoneIsApart DEF IInv, TypeOK, RequestType, WriteRefused, Answer, conn, timers,
        coolerVars, radio
<1>3. PendingInv'
    BY NoneIsApart DEF IInv, TypeOK, PendingInv, WriteRefused, Answer, conn, timers, coolerVars,
        radio
<1>4. TaskInv'
    BY StoriesJoined, AnswerEnds DEF WriteRefused, coolerVars, Ends
<1>5. LoopType' /\ CoolerType' /\ LoopInv'
    BY DEF IInv, TypeOK, LoopType, CoolerType, LoopInv, WriteRefused, conn, timers, coolerVars,
        radio
<1> QED BY <1>1, <1>2, <1>3, <1>4, <1>5 DEF IInv, TypeOK

LEMMA ReachStep == ASSUME IInv, NEW c \in Commands, Reach(c) PROVE IInv'
<1>1. CoolerType'
  <2>1. asks[c] \in Values
      BY DEF Reach, IInv, TaskInv, TaskAt
  <2>2. owed' \in Seq(Commands)
      BY DEF Reach, IInv, TypeOK, CoolerType
  <2> QED BY <2>1, <2>2 DEF Reach, IInv, TypeOK, CoolerType
<1>2. TaskInv'
    BY NoneIsApart DEF IInv, TypeOK, TaskInv, TaskAt, Reach, linkRest, conn, timers, commandVars
<1>3. LoopType' /\ LockType' /\ RequestType' /\ LoopInv' /\ PendingInv'
    BY DEF IInv, TypeOK, LoopType, LockType, RequestType, LoopInv, PendingInv, Reach, linkRest,
        conn, timers, commandVars
<1> QED BY <1>1, <1>2, <1>3 DEF IInv, TypeOK

LEMMA AcknowledgeStep == ASSUME IInv, Acknowledge PROVE IInv'
<1>1. CoolerType'
  <2>1. Head(owed) \in Commands /\ owed' \in Seq(Commands)
      BY DEF Acknowledge, IInv, TypeOK, CoolerType
  <2>2. Ack(Head(owed)) \in Notification
      BY <2>1 DEF Ack, Notification
  <2>3. inbox' \in Seq(Notification) /\ Len(inbox') <= MaxInbox
      BY <2>2, NotifyType DEF Acknowledge, IInv, TypeOK, CoolerType
  <2> QED BY <2>1, <2>3 DEF Acknowledge, IInv, TypeOK, CoolerType
<1>2. LoopType' /\ LockType' /\ RequestType' /\ LoopInv' /\ PendingInv' /\ TaskInv'
    BY DEF IInv, TypeOK, LoopType, LockType, RequestType, LoopInv, PendingInv, TaskInv, TaskAt,
        Acknowledge, linkRest, conn, timers, commandVars
<1> QED BY <1>1, <1>2 DEF IInv, TypeOK

LEMMA SendReportStep == ASSUME IInv, SendReport PROVE IInv'
<1>1. CoolerType'
  <2>1. Report(setpoint) \in Notification
      BY DEF IInv, TypeOK, CoolerType, Report, Notification
  <2>2. inbox' \in Seq(Notification) /\ Len(inbox') <= MaxInbox
      BY <2>1, NotifyType DEF SendReport, IInv, TypeOK
  <2> QED BY <2>2 DEF SendReport, IInv, TypeOK, CoolerType
<1>2. LoopType' /\ LockType' /\ RequestType' /\ LoopInv' /\ PendingInv' /\ TaskInv'
    BY DEF IInv, TypeOK, LoopType, LockType, RequestType, LoopInv, PendingInv, TaskInv, TaskAt,
        SendReport, linkRest, conn, timers, commandVars
<1> QED BY <1>1, <1>2 DEF IInv, TypeOK

LEMMA SendNegotiationStep == ASSUME IInv, SendNegotiation PROVE IInv'
<1>1. CoolerType'
  <2>1. Negotiation(dialect, told + 1 = 2) \in Notification
      BY DEF IInv, TypeOK, CoolerType, Negotiation, Notification
  <2>2. inbox' \in Seq(Notification) /\ Len(inbox') <= MaxInbox
      BY <2>1, NotifyType DEF SendNegotiation, IInv, TypeOK
  <2>3. told' \in 0..2
      BY DEF SendNegotiation, IInv, TypeOK, CoolerType
  <2> QED BY <2>2, <2>3 DEF SendNegotiation, IInv, TypeOK, CoolerType
<1>2. LoopType' /\ LockType' /\ RequestType' /\ LoopInv' /\ PendingInv' /\ TaskInv'
    BY DEF IInv, TypeOK, LoopType, LockType, RequestType, LoopInv, PendingInv, TaskInv, TaskAt,
        SendNegotiation, linkRest, conn, timers, commandVars
<1> QED BY <1>1, <1>2 DEF IInv, TypeOK

LEMMA PanelStep == ASSUME IInv, Panel PROVE IInv'
<1>1. CoolerType'
    BY NoneIsApart DEF IInv, TypeOK, CoolerType, Panel, linkRest, conn, timers, commandVars,
        radio
<1>2. LoopType' /\ LockType' /\ RequestType' /\ LoopInv' /\ PendingInv' /\ TaskInv'
    BY DEF IInv, TypeOK, LoopType, LockType, RequestType, LoopInv, PendingInv, TaskInv, TaskAt,
        Panel, linkRest, conn, timers, commandVars, radio
<1> QED BY <1>1, <1>2 DEF IInv, TypeOK

LEMMA LinkDropsStep == ASSUME IInv, LinkDrops PROVE IInv'
<1>1. LoopType'
    BY NoneIsApart DEF IInv, TypeOK, LoopType, LinkDrops, timers, commandVars
<1>2. CoolerType'
    BY NoneIsApart DEF IInv, TypeOK, CoolerType, LinkDrops, timers, commandVars
<1>3. LockType' /\ RequestType' /\ LoopInv' /\ PendingInv' /\ TaskInv'
    BY DEF IInv, TypeOK, LockType, RequestType, LoopInv, PendingInv, TaskInv, TaskAt, LinkDrops,
        timers, commandVars
<1> QED BY <1>1, <1>2, <1>3 DEF IInv, TypeOK

LEMMA DeadlinePassesStep == ASSUME IInv, DeadlinePasses PROVE IInv'
<1>1. LoopType'
  <2>1. pending' \in PendingCommand
      BY DEF DeadlinePasses, IInv, TypeOK, LoopType, PendingCommand
  <2> QED BY <2>1 DEF DeadlinePasses, IInv, TypeOK, LoopType, conn, timers
<1>2. PendingInv'
    BY NoneIsApart DEF IInv, TypeOK, PendingInv, DeadlinePasses, conn, timers, commandVars,
        coolerVars, radio
<1>3. TaskInv'
  <2>1. pending' \in PendingCommand /\ pending'.id = pending.id
      BY DEF DeadlinePasses, IInv, TypeOK, LoopType, PendingCommand
  <2> QED BY <2>1, NoneIsApart
          DEF DeadlinePasses, IInv, TaskInv, TaskAt, commandVars, coolerVars
<1>4. LockType' /\ RequestType' /\ CoolerType' /\ LoopInv'
    BY DEF IInv, TypeOK, LockType, RequestType, CoolerType, LoopInv, DeadlinePasses, conn,
        timers, commandVars, coolerVars, radio
<1> QED BY <1>1, <1>2, <1>3, <1>4 DEF IInv, TypeOK

LEMMA AskGrowsOldStep == ASSUME IInv, AskGrowsOld PROVE IInv'
<1>1. LoopType'
  <2>1. state \in NegotiationState
      BY DEF AskGrowsOld, IInv, TypeOK, LoopType, LoopInv
  <2>2. state' \in NegotiationState
      BY <2>1 DEF AskGrowsOld, NegotiationState
  <2> QED BY <2>1, <2>2, NoneIsApart DEF AskGrowsOld, IInv, TypeOK, LoopType, conn, timers
<1>2. LockType' /\ RequestType' /\ CoolerType' /\ LoopInv' /\ PendingInv' /\ TaskInv'
    BY DEF IInv, TypeOK, LockType, RequestType, CoolerType, LoopInv, PendingInv, TaskInv,
        TaskAt, AskGrowsOld, conn, timers, commandVars, coolerVars, radio
<1> QED BY <1>1, <1>2 DEF IInv, TypeOK

LEMMA QuietGrowsStep == ASSUME IInv, QuietGrows PROVE IInv'
<1>1. LoopType'
    BY NoneIsApart DEF IInv, TypeOK, LoopType, QuietGrows, conn, commandVars, coolerVars, radio
<1>2. LockType' /\ RequestType' /\ CoolerType' /\ LoopInv' /\ PendingInv' /\ TaskInv'
    BY DEF IInv, TypeOK, LockType, RequestType, CoolerType, LoopInv, PendingInv, TaskInv,
        TaskAt, QuietGrows, conn, commandVars, coolerVars, radio
<1> QED BY <1>1, <1>2 DEF IInv, TypeOK

LEMMA StopStep == ASSUME IInv, Stop PROVE IInv'
<1>1. LoopType'
    BY NoneIsApart DEF IInv, TypeOK, LoopType, Stop, timers, commandVars, coolerVars, radio
<1>2. LockType' /\ RequestType' /\ CoolerType' /\ LoopInv' /\ PendingInv' /\ TaskInv'
    BY DEF IInv, TypeOK, LockType, RequestType, CoolerType, LoopInv, PendingInv, TaskInv,
        TaskAt, Stop, timers, commandVars, coolerVars, radio
<1> QED BY <1>1, <1>2 DEF IInv, TypeOK

\* A message handled under the lock: an acknowledgement or a report may take the
\* command in flight on, and a stage of the negotiation keeps the lock.
LEMMA HandleAckStep == ASSUME IInv, Handle, HandleAck PROVE IInv'
<1>1. CASE pending # None /\ ~pending.accepted
  <2>1. /\ pending.id \in Commands
        /\ pending' \in PendingCommand /\ pending'.id = pending.id /\ pending'.accepted
      BY <1>1 DEF HandleAck, FollowAck, IInv, TypeOK, LoopType, PendingCommand
  <2>2. log' = [log EXCEPT ![pending.id] = Taken]
    <3>1. log[pending.id] = Written
        BY <1>1 DEF IInv, PendingInv
    <3> QED BY <1>1, <3>1, StoriesGoOn DEF HandleAck, FollowAck, Told
  <2>3. Taken \in Stories /\ Taken \in Seq(Events)
      BY StoriesType DEF Stories
  <2>4. LoopType'
      BY <2>1, NoneIsApart DEF Handle, HandleAck, IInv, TypeOK, LoopType, conn, timers
  <2>5. LockType'
      BY NoneIsApart DEF Handle, HandleAck, LockFree, IInv, TypeOK, LockType
  <2>6. RequestType'
      BY <2>2, <2>3 DEF Handle, IInv, TypeOK, RequestType, Events
  <2>7. LoopInv'
      BY DEF Handle, HandleAck, conn, IInv, LoopInv
  <2>8. PendingInv'
      BY <2>1, <2>2, <1>1 DEF Handle, HandleAck, conn, IInv, TypeOK, RequestType, PendingInv
  <2>9. TaskInv'
    <3> SUFFICES ASSUME NEW d \in Commands PROVE TaskAt(d)'
        BY DEF TaskInv
    <3>1. pending' # None
        BY <2>1, NoneIsApart
    <3>2. CASE d = pending.id
        BY <1>1, <2>1, <2>2, <2>3, <3>1, <3>2, NoneIsApart
           DEF Handle, IInv, TypeOK, RequestType, PendingInv, TaskInv, TaskAt, coolerVars
    <3>3. CASE d # pending.id
        BY <2>1, <2>2, <3>1, <3>3
           DEF Handle, IInv, TypeOK, RequestType, TaskInv, TaskAt, coolerVars
    <3> QED BY <3>2, <3>3
  <2>10. CoolerType'
      BY DEF Handle, IInv, TypeOK, CoolerType, coolerVars, radio
  <2> QED BY <2>4, <2>5, <2>6, <2>7, <2>8, <2>9, <2>10 DEF IInv, TypeOK
<1>2. CASE ~(pending # None /\ ~pending.accepted)
  <2>1. UNCHANGED <<pending, log>>
      BY <1>2 DEF HandleAck, FollowAck
  <2>2. LoopType' /\ LoopInv'
      BY <2>1, NoneIsApart
         DEF Handle, HandleAck, IInv, TypeOK, LoopType, LoopInv, conn, timers
  <2>3. LockType'
      BY NoneIsApart DEF Handle, HandleAck, LockFree, IInv, TypeOK, LockType
  <2>4. RequestType' /\ CoolerType' /\ PendingInv' /\ TaskInv'
      BY <2>1 DEF Handle, HandleAck, IInv, TypeOK, RequestType, CoolerType, PendingInv,
                  TaskInv, TaskAt, conn, coolerVars, radio
  <2> QED BY <2>2, <2>3, <2>4 DEF IInv, TypeOK
<1> QED BY <1>1, <1>2

LEMMA HandleReportStep == ASSUME IInv, Handle, HandleReport PROVE IInv'
<1>1. held \in Notification /\ held.kind = "state" /\ state \in NegotiationState
    BY DEF Handle, HandleReport, IInv, TypeOK, LoopType, LoopInv
<1>2. held.value \in Values
    BY <1>1 DEF Notification
<1>3. state' \in NegotiationState
    BY <1>1, <1>2 DEF HandleReport, NegotiationState
<1>4. pending' \in PendingCommand \cup {None}
    BY DEF HandleReport, FollowReport, IInv, TypeOK, LoopType
<1>5. LoopType'
  <2>1. state' # None /\ state # None
      BY <1>1, <1>3, NoneIsApart
  <2>2. loop' \in {"top"}
      BY DEF HandleReport
  <2> QED BY <1>3, <1>4, <2>1, <2>2 DEF Handle, IInv, TypeOK, LoopType, conn, timers
<1>6. LoopInv'
    BY DEF Handle, HandleReport, conn, IInv, LoopInv
<1>7. LockType'
    BY NoneIsApart DEF Handle, HandleReport, LockFree, IInv, TypeOK, LockType
<1>8. CoolerType'
    BY DEF Handle, IInv, TypeOK, CoolerType, coolerVars, radio
<1>9. PendingInv' /\ RequestType' /\ TaskInv'
  <2>1. CASE Proves(held.value)
    <3>1. pending # None /\ pending.accepted /\ pending' = None
        BY <2>1 DEF HandleReport, FollowReport, Proves
    <3>2. log' = [log EXCEPT ![pending.id] = Applied]
      <4>1. log[pending.id] = Taken
          BY <3>1 DEF IInv, PendingInv
      <4> QED BY <2>1, <4>1, StoriesGoOn DEF HandleReport, FollowReport, Told
    <3>3. Applied \in Ends
        BY DEF Ends
    <3>4. UNCHANGED <<phase, asks, via, reply, reached>>
        BY DEF Handle, coolerVars
    <3> QED BY <3>1, <3>2, <3>3, <3>4, PendingEnds DEF PendingInv
  <2>2. CASE ~Proves(held.value)
    <3>1. UNCHANGED <<pending, log>>
        BY <2>2 DEF HandleReport, FollowReport
    <3> QED BY <3>1 DEF Handle, HandleReport, IInv, TypeOK, RequestType, PendingInv,
                        TaskInv, TaskAt, conn, coolerVars
  <2> QED BY <2>1, <2>2
<1> QED BY <1>5, <1>6, <1>7, <1>8, <1>9 DEF IInv, TypeOK

LEMMA HandleNegotiationStep == ASSUME IInv, Handle, HandleNegotiation PROVE IInv'
<1>1. held \in Notification /\ held.kind = "negotiation" /\ state \in NegotiationState
    BY DEF Handle, HandleNegotiation, IInv, TypeOK, LoopType, LoopInv
<1>2. held.final \in BOOLEAN
    BY <1>1, Zenon DEF Notification
<1>3. state' \in NegotiationState
    BY <1>1, <1>2 DEF HandleNegotiation, NegotiationState
<1>4. LoopType'
  <2>1. state' # None /\ state # None
      BY <1>1, <1>3, NoneIsApart
  <2>2. loop' \in LoopWrites \cup {"top"} /\ pending' = pending
      BY DEF HandleNegotiation, LoopWrites
  <2> QED BY <1>3, <2>1, <2>2 DEF Handle, IInv, TypeOK, LoopType, conn, timers
<1>5. LoopInv'
    BY DEF Handle, HandleNegotiation, conn, IInv, LoopInv
<1>6. LockType'
    BY NoneIsApart DEF Handle, HandleNegotiation, LockFree, IInv, TypeOK, LockType
<1>7. PendingInv'
    BY NoneIsApart, CommandsAssumption DEF Handle, HandleNegotiation, IInv, PendingInv, conn
<1>8. RequestType' /\ CoolerType' /\ TaskInv'
    BY DEF Handle, HandleNegotiation, IInv, TypeOK, RequestType, CoolerType, TaskInv, TaskAt,
           conn, coolerVars, radio
<1> QED BY <1>4, <1>5, <1>6, <1>7, <1>8 DEF IInv, TypeOK

LEMMA StutterStep == ASSUME IInv, UNCHANGED vars PROVE IInv'
BY DEF IInv, TypeOK, LoopType, LockType, RequestType, CoolerType, LoopInv, PendingInv, TaskInv,
       TaskAt, vars, linkRest, conn, timers, commandVars, coolerVars, radio

\* Every step keeps the invariant.
LEMMA NextIInv == IInv /\ [Next]_vars => IInv'
<1> SUFFICES ASSUME IInv, [Next]_vars PROVE IInv'
    OBVIOUS
<1>1. CASE SessionLoop
  <2>1. CASE Handle
      BY <2>1, HandleAckStep, HandleReportStep, HandleNegotiationStep DEF Handle
  <2> QED BY <1>1, <2>1, NotFoundStep, ConnectStep, WriteFailsStep, WriteSucceedsStep,
             LoopAgainStep, LoopEndsStep, ReceiveStep, SilenceStep, ForgetSessionStep,
             ScanAgainStep, ShutdownStep DEF SessionLoop
<1>2. CASE \E c \in Commands : Request(c) \/ Task(c)
    BY <1>2, RequestStep, RejectStep, AcceptStep, SentStep, WriteHangsStep, WriteRefusedStep
       DEF Task
<1>3. CASE Cooler
    BY <1>3, ReachStep, AcknowledgeStep, SendReportStep, SendNegotiationStep, PanelStep,
       LinkDropsStep DEF Cooler
<1>4. CASE Time
    BY <1>4, DeadlinePassesStep, AskGrowsOldStep, QuietGrowsStep DEF Time
<1>5. CASE Stop
    BY <1>5, StopStep
<1>6. CASE UNCHANGED vars
    BY <1>6, StutterStep
<1> QED BY <1>1, <1>2, <1>3, <1>4, <1>5, <1>6 DEF Next

-----------------------------------------------------------------------------
(* The acknowledgements under way. *)

\* An acknowledgement under way is for a command whose frame got to the cooler on the
\* link that is up.
OnThisLink(c) == c \in reached /\ via[c] = session

AckInv ==
    /\ \A i \in 1..Len(inbox) : inbox[i].kind = "ack" => OnThisLink(inbox[i].of)
    /\ \A i \in 1..Len(owed) : OnThisLink(owed[i])
    /\ held # None /\ held.kind = "ack" => OnThisLink(held.of)

\* Only the end of the gateway cancels a request.
CancelInv == \A c \in Commands : phase[c] = "cancelled" => loop = "stopped"

\* What most actions leave alone.
LEMMA AcksAlone ==
    ASSUME AckInv, UNCHANGED <<inbox, owed, held, via, session, reached>>
    PROVE  AckInv'
BY DEF AckInv, OnThisLink

\* A notification that is no acknowledgement joins the queue.
LEMMA AcksNotified ==
    ASSUME IInv, AckInv, NEW m \in Notification, m.kind = "ack" => OnThisLink(m.of),
           inbox' = Append(inbox, m), UNCHANGED <<held, via, session, reached>>,
           \A i \in 1..Len(owed') : OnThisLink(owed'[i])
    PROVE  AckInv'
<1>1. ASSUME NEW i \in 1..Len(inbox') PROVE inbox'[i] = m \/ (i \in 1..Len(inbox) /\ inbox'[i] = inbox[i])
    BY <1>1 DEF IInv, TypeOK, CoolerType
<1> QED BY <1>1 DEF AckInv, OnThisLink

LEMMA AckStep == IInv /\ AckInv /\ [Next]_vars => AckInv'
<1> SUFFICES ASSUME IInv, AckInv, [Next]_vars PROVE AckInv'
    OBVIOUS
<1>1. CASE ForgetSession \/ Connect
  <2>1. held' = None
      BY <1>1 DEF ForgetSession, Connect, IInv, LoopInv
  <2>2. inbox' = <<>> /\ owed' = <<>>
      BY <1>1 DEF ForgetSession, Connect
  <2> QED BY <2>1, <2>2 DEF AckInv
<1>2. CASE Receive
  <2>1. inbox \in Seq(Notification) /\ inbox # <<>>
      BY <1>2 DEF Receive, IInv, TypeOK, CoolerType
  <2>2. /\ held' = inbox[1] /\ 1 \in 1..Len(inbox)
        /\ \A i \in 1..Len(inbox') : inbox'[i] = inbox[i + 1] /\ i + 1 \in 1..Len(inbox)
      BY <1>2, <2>1 DEF Receive
  <2> QED BY <1>2, <2>2 DEF Receive, AckInv, OnThisLink, conn, commandVars
<1>3. CASE Handle
    BY <1>3 DEF Handle, AckInv, OnThisLink, conn, coolerVars, radio
<1>4. ASSUME NEW c \in Commands, Accept(c) PROVE AckInv'
  <2>1. c \notin reached
      BY <1>4 DEF Accept, IInv, TaskInv, TaskAt
  <2>2. \A d : d \in reached => d \in Commands /\ via'[d] = via[d]
      BY <1>4, <2>1 DEF Accept, IInv, TypeOK, CoolerType, RequestType
  <2>3. UNCHANGED <<inbox, owed, held, session, reached>>
      BY <1>4 DEF Accept, conn, coolerVars, radio
  <2> QED BY <2>2, <2>3 DEF AckInv, OnThisLink
<1>5. ASSUME NEW c \in Commands, Reach(c) PROVE AckInv'
  <2>1. \A i \in 1..Len(owed') : owed'[i] = c \/ (i \in 1..Len(owed) /\ owed'[i] = owed[i])
      BY <1>5 DEF Reach, IInv, TypeOK, CoolerType
  <2> QED BY <1>5, <2>1 DEF Reach, AckInv, OnThisLink, linkRest, conn, commandVars
<1>6. CASE Acknowledge
  <2>1. owed \in Seq(Commands) /\ owed # <<>>
      BY <1>6 DEF Acknowledge, IInv, TypeOK, CoolerType
  <2>2. /\ Head(owed) = owed[1] /\ 1 \in 1..Len(owed) /\ Head(owed) \in Commands
        /\ \A i \in 1..Len(owed') : owed'[i] = owed[i + 1] /\ i + 1 \in 1..Len(owed)
      BY <1>6, <2>1 DEF Acknowledge
  <2>3. OnThisLink(Head(owed)) /\ \A i \in 1..Len(owed') : OnThisLink(owed'[i])
      BY <2>2 DEF AckInv
  <2>4. UNCHANGED <<held, via, session, reached>>
      BY <1>6 DEF Acknowledge, linkRest, conn, commandVars
  <2>5. Ack(Head(owed)) \in Notification /\ Ack(Head(owed)).of = Head(owed)
      BY <2>2 DEF Ack, Notification
  <2>6. CASE inbox' = inbox
      BY <2>3, <2>4, <2>6 DEF AckInv, OnThisLink
  <2>7. CASE inbox' = Append(inbox, Ack(Head(owed)))
      BY <2>3, <2>4, <2>5, <2>7, AcksNotified
  <2> QED BY <1>6, <2>6, <2>7 DEF Acknowledge, Notify
<1>7. CASE SendReport
  <2>1. Report(setpoint) \in Notification /\ Report(setpoint).kind # "ack"
      BY DEF IInv, TypeOK, CoolerType, Report, Notification
  <2>2. inbox' = Append(inbox, Report(setpoint)) /\ UNCHANGED <<owed, held, via, session, reached>>
      BY <1>7 DEF SendReport, Notify, linkRest, conn, commandVars
  <2> QED BY <2>1, <2>2, AcksNotified DEF AckInv
<1>8. CASE SendNegotiation
  <2> DEFINE m == Negotiation(dialect, told + 1 = 2)
  <2>1. m \in Notification /\ m.kind # "ack"
      BY DEF IInv, TypeOK, CoolerType, Negotiation, Notification
  <2>2. inbox' = Append(inbox, m) /\ UNCHANGED <<owed, held, via, session, reached>>
      BY <1>8 DEF SendNegotiation, Notify, linkRest, conn, commandVars
  <2> QED BY <2>1, <2>2, AcksNotified DEF AckInv
<1>9. CASE NotFound \/ WriteFails \/ WriteSucceeds \/ LoopAgain \/ LoopEnds \/ Silence
           \/ ScanAgain \/ Shutdown
  <2>1. UNCHANGED <<inbox, owed, held, via, session, reached>>
      BY <1>9 DEF NotFound, WriteFails, WriteSucceeds, LoopAgain, LoopEnds, Silence, ScanAgain,
                  Shutdown, linkRest, conn, commandVars, coolerVars, radio
  <2> QED BY <2>1, AcksAlone
<1>10. ASSUME NEW c \in Commands,
              Request(c) \/ Reject(c) \/ Sent(c) \/ WriteHangs(c) \/ WriteRefused(c)
       PROVE  AckInv'
  <2>1. UNCHANGED <<inbox, owed, held, via, session, reached>>
      BY <1>10 DEF Request, Reject, Sent, WriteHangs, WriteRefused, linkRest, conn, coolerVars,
                   radio
  <2> QED BY <2>1, AcksAlone
<1>11. CASE Panel \/ LinkDrops \/ Time \/ Stop \/ UNCHANGED vars
  <2>1. UNCHANGED <<inbox, owed, held, via, session, reached>>
      BY <1>11 DEF Panel, LinkDrops, Time, DeadlinePasses, AskGrowsOld, QuietGrows, Stop, vars,
                   linkRest, conn, commandVars, coolerVars, radio
  <2> QED BY <2>1, AcksAlone
<1> QED BY <1>1, <1>2, <1>3, <1>4, <1>5, <1>6, <1>7, <1>8, <1>9, <1>10, <1>11
        DEF Next, SessionLoop, Task, Cooler

LEMMA CancelStep == IInv /\ CancelInv /\ [Next]_vars => CancelInv'
<1> SUFFICES ASSUME IInv, CancelInv, [Next]_vars, NEW c \in Commands, phase'[c] = "cancelled"
             PROVE  loop' = "stopped"
    BY DEF CancelInv
<1>1. CASE Shutdown
    BY <1>1 DEF Shutdown
<1>2. CASE phase' = phase
  <2>1. loop = "stopped"
      BY <1>2 DEF CancelInv
  <2> QED BY <2>1, <1>2 DEF Next, SessionLoop, Task, Cooler, Time, NotFound, Connect, WriteFails,
               WriteSucceeds, LoopAgain, LoopEnds, Receive, Silence, Handle, ForgetSession,
               ScanAgain, Shutdown, LoopWrites,
               Request, Reject, Accept, Sent, WriteHangs, WriteRefused, Reach, Acknowledge,
               SendReport, SendNegotiation, Panel, LinkDrops, DeadlinePasses, AskGrowsOld,
               QuietGrows, Stop, vars
<1>3. ASSUME NEW d \in Commands, Request(d) \/ Task(d) PROVE loop' = "stopped"
  <2>1. loop' = loop /\ \E p \in {"waiting", "writing", "done"} : phase' = [phase EXCEPT ![d] = p]
      BY <1>3 DEF Request, Task, Reject, Accept, Sent, WriteHangs, WriteRefused, Answer
  <2>2. phase[c] = "cancelled"
      BY <2>1 DEF IInv, TypeOK, RequestType
  <2> QED BY <2>1, <2>2 DEF CancelInv
<1>4. Shutdown \/ phase' = phase \/ \E d \in Commands : Request(d) \/ Task(d)
    BY DEF Next, SessionLoop, Cooler, Time, NotFound, Connect, WriteFails,
           WriteSucceeds, LoopAgain, LoopEnds, Receive, Silence, Handle, ForgetSession, ScanAgain,
           Reach, Acknowledge, SendReport, SendNegotiation, Panel, LinkDrops, DeadlinePasses,
           AskGrowsOld, QuietGrows, Stop, vars, linkRest, commandVars
<1> QED BY <1>1, <1>2, <1>3, <1>4

\* No story but Taken ends with "accepted".
LEMMA LastEvents == \A s \in Ends \cup {Requested, Written} : s[Len(s)] # "accepted"
<1>1. Requested[Len(Requested)] # "accepted" /\ Written[Len(Written)] # "accepted"
    BY DEF Requested, Written
<1>2. Refused[Len(Refused)] # "accepted" /\ Unknown[Len(Unknown)] # "accepted"
    BY DEF Refused, Unknown
<1>3. Unproved[Len(Unproved)] # "accepted"
    BY DEF Unproved
<1>4. OnlyTaken[Len(OnlyTaken)] # "accepted"
    BY DEF OnlyTaken
<1>5. Applied[Len(Applied)] # "accepted"
    BY DEF Applied
<1> QED BY <1>1, <1>2, <1>3, <1>4, <1>5 DEF Ends

\* Who writes on the stream, and what: an acknowledgement handled, or a step after which
\* the story of its one command is at a point other than Taken.
LEMMA WhoWrites ==
    ASSUME IInv, Next, NEW c \in Commands, log'[c] # log[c]
    PROVE  \/ Handle /\ HandleAck /\ pending # None /\ pending.id = c
           \/ \E s \in Ends \cup {Requested, Written} : log' = [log EXCEPT ![c] = s]
<1> DEFINE Writes(d) == \E s \in Ends \cup {Requested, Written} : log' = [log EXCEPT ![d] = s]
<1>1. ASSUME NEW d, Writes(d) PROVE d = c
  <2> PICK s \in Ends \cup {Requested, Written} : log' = [log EXCEPT ![d] = s]
      BY <1>1
  <2> QED BY DEF IInv, TypeOK, RequestType
<1>2. CASE LoopAgain \/ ForgetSession
  <2>1. pending # None /\ Unconfirmed
      BY <1>2 DEF LoopAgain, Overdue, ForgetSession, ReportPending
  <2>2. Writes(pending.id)
      BY <2>1, UnconfirmedEnds
  <2> QED BY <1>1, <2>2
<1>3. CASE Handle /\ HandleReport
  <2>1. Proves(held.value) /\ Told(pending.id, "applied")
      BY <1>3 DEF HandleReport, FollowReport
  <2>2. log[pending.id] = Taken
      BY <2>1 DEF Proves, IInv, PendingInv
  <2>3. log' = [log EXCEPT ![pending.id] = Applied] /\ Applied \in Ends
      BY <2>1, <2>2, StoriesGoOn DEF Told, Ends
  <2> QED BY <1>1, <2>3
<1>4. CASE Handle /\ HandleAck
  <2>1. pending # None /\ Told(pending.id, "accepted")
      BY <1>4 DEF HandleAck, FollowAck
  <2>2. pending.id = c
      BY <2>1 DEF Told, IInv, TypeOK, LoopType, RequestType, PendingCommand
  <2> QED BY <1>4, <2>1, <2>2
<1>5. ASSUME NEW d \in Commands, Request(d) PROVE Writes(d)
  <2>1. log[d] = Unasked
      BY <1>5 DEF Request, IInv, TaskInv, TaskAt
  <2> QED BY <1>5, <2>1, StoriesGoOn DEF Request, Told
<1>6. ASSUME NEW d \in Commands, Task(d) PROVE Writes(d) \/ log' = log
  <2>1. CASE Accept(d)
      BY <2>1 DEF Accept
  <2>2. CASE ~Accept(d)
    <3>1. log[d] = Requested
        BY <1>6, <2>2 DEF Task, Reject, Sent, WriteHangs, WriteRefused, IInv, TaskInv, TaskAt
    <3>2. \E events \in {<<"rejected">>, <<"unconfirmed">>, <<"sent">>, <<"sent", "unconfirmed">>} :
              log' = [log EXCEPT ![d] = log[d] \o events]
        BY <1>6, <2>2 DEF Task, Reject, Sent, WriteHangs, WriteRefused, Answer
    <3> QED BY <3>1, <3>2, StoriesJoined DEF Ends
  <2> QED BY <2>1, <2>2
<1>7. \/ Handle \/ LoopAgain \/ ForgetSession \/ (\E d \in Commands : Request(d) \/ Task(d))
      \/ log' = log
    BY DEF Next, SessionLoop, Cooler, Time, NotFound, Connect, WriteFails, WriteSucceeds, LoopEnds,
           Receive, Silence, ScanAgain, Shutdown, Reach, Acknowledge, SendReport, SendNegotiation,
           Panel, LinkDrops, DeadlinePasses, AskGrowsOld, QuietGrows, Stop, linkRest, commandVars
<1>8. HandleNegotiation => log' = log
    BY DEF HandleNegotiation
<1> QED BY <1>1, <1>2, <1>3, <1>4, <1>5, <1>6, <1>7, <1>8 DEF Handle

-----------------------------------------------------------------------------
(* The theorems. *)

THEOREM Invariance == Spec => []IInv
BY InitIInv, NextIInv, PTL DEF Spec

\* Link.run and Link.command keep every variable in its type, and the lock is held
\* by whoever is writing under it and by nobody else, for any number of requests,
\* values, connections and notifications.
THEOREM TypeCorrect == Spec => []TypeOK
<1>1. IInv => TypeOK
    BY DEF IInv
<1> QED BY <1>1, Invariance, PTL

\* Link.command's critical section: one command at a time, on the link that is up.
THEOREM OneInFlight == Spec => []CommandInFlight
<1>1. IInv => CommandInFlight
  <2> SUFFICES ASSUME IInv PROVE OneAtATime /\ InFlightOnThisLink
      BY DEF CommandInFlight
  <2> DEFINE writing == {c \in Commands : phase[c] = "writing"}
  <2>1. \A c \in writing : lock = c
      BY DEF IInv, TypeOK, LockType
  <2>2. pending # None => writing = {}
      BY <2>1 DEF IInv, PendingInv
  <2>3. writing = {} \/ \E c \in writing : writing = {c}
      BY <2>1
  <2> HIDE DEF writing
  <2>4. Cardinality(writing) \in {0, 1} /\ (writing = {} => Cardinality(writing) = 0)
      BY <2>3, FS_EmptySet, FS_Singleton
  <2>5. OneAtATime
      BY <2>2, <2>4 DEF OneAtATime, writing
  <2>6. InFlightOnThisLink
      BY DEF IInv, PendingInv, InFlightOnThisLink
  <2> QED BY <2>5, <2>6
<1> QED BY <1>1, Invariance, PTL

\* The stream keeps requested, sent, accepted, applied in order, with one outcome.
THEOREM StoriesKept == Spec => []StoryInOrder
<1>1. IInv => StoryInOrder
    BY StoriesBegin DEF IInv, TaskInv, TaskAt, StoryInOrder
<1> QED BY <1>1, Invariance, PTL

\* No path of Link drops a request whose client was answered without its outcome.
THEOREM EndsReported == Spec => []EveryEndReported
<1>1. IInv => EveryEndReported
    BY EndsAreOutcomes DEF IInv, TaskInv, TaskAt, EveryEndReported, Ended
<1> QED BY <1>1, Invariance, PTL

\* The lock keeps _handle from an acknowledgement while the write it answers is in
\* flight, however early the cooler sends it.
THEOREM AckAfterWrite == Spec => AckHandledAfterWrite
<1> DEFINE A == held # None /\ held' = None /\ held.kind = "ack" => phase[held.of] # "writing"
<1>1. IInv /\ [Next]_vars => [A]_vars
  <2> SUFFICES ASSUME IInv, Next, held # None, held' = None, held.kind = "ack"
               PROVE  phase[held.of] # "writing"
      OBVIOUS
  <2>1. held.of \in Commands
      BY DEF IInv, TypeOK, LoopType, Notification
  <2>2. lock = None
    <3>1. CASE Handle
        BY <3>1 DEF Handle, LockFree
    <3>2. CASE held' = held
        BY <3>2
    <3>3. CASE Receive
      <4>1. held' \in Notification
          BY <3>3 DEF Receive, IInv, TypeOK, CoolerType
      <4> QED BY <4>1, NoneIsApart
    <3>4. Handle \/ Receive \/ held' = held
        BY DEF Next, SessionLoop, Task, Cooler, Time, NotFound, Connect, WriteFails,
               WriteSucceeds, LoopAgain, LoopEnds, Silence, ForgetSession, ScanAgain, Shutdown,
               Request, Reject, Accept, Sent, WriteHangs, WriteRefused, Reach, Acknowledge,
               SendReport, SendNegotiation, Panel, LinkDrops, DeadlinePasses, AskGrowsOld,
               QuietGrows, Stop, linkRest
    <3> QED BY <3>1, <3>2, <3>3, <3>4
  <2> QED BY <2>1, <2>2, NoneIsApart DEF IInv, TypeOK, LockType
<1> QED BY <1>1, Invariance, PTL DEF Spec, AckHandledAfterWrite

\* An acknowledgement that is taken for a command not its own is of the same link, and
\* of a command whose story was over.
THEOREM MisreadsAreOver == Spec => MisreadAckIsOver
<1> DEFINE A == \A c \in Commands :
                    log'[c] # log[c] /\ log'[c][Len(log'[c])] = "accepted" =>
                        held.of = c \/ (via[held.of] = via[c] /\ Ended(held.of))
<1>1. Init => AckInv /\ CancelInv
    BY NoneIsApart DEF Init, AckInv, CancelInv
<1>2. Spec => [](IInv /\ AckInv /\ CancelInv)
    BY <1>1, InitIInv, NextIInv, AckStep, CancelStep, PTL DEF Spec
<1>3. IInv /\ AckInv /\ CancelInv /\ IInv' /\ [Next]_vars => [A]_vars
  <2> SUFFICES ASSUME IInv, AckInv, CancelInv, IInv', Next, NEW c \in Commands,
                      log'[c] # log[c], log'[c][Len(log'[c])] = "accepted"
               PROVE  held.of = c \/ (via[held.of] = via[c] /\ Ended(held.of))
      OBVIOUS
  <2>1. \A s \in Ends \cup {Requested, Written} : ~(log' = [log EXCEPT ![c] = s])
    <3> SUFFICES ASSUME NEW s \in Ends \cup {Requested, Written}, log' = [log EXCEPT ![c] = s]
                 PROVE  FALSE
        OBVIOUS
    <3>1. log'[c] = s
        BY DEF IInv, TypeOK, RequestType
    <3> QED BY <3>1, LastEvents
  <2>2. Handle /\ HandleAck /\ pending # None /\ pending.id = c
      BY <2>1, WhoWrites
  <2> DEFINE d == held.of
  <2>3. d \in reached /\ via[d] = session /\ session # None /\ via[c] = session
      BY <2>2 DEF Handle, HandleAck, AckInv, OnThisLink, IInv, PendingInv, LoopInv
  <2>4. d \in Commands /\ lock = None
      BY <2>2, <2>3 DEF Handle, LockFree, IInv, TypeOK, CoolerType
  <2>5. phase[d] = "done"
    <3>1. phase[d] # "writing"
        BY <2>4, NoneIsApart DEF IInv, TypeOK, LockType
    <3>2. phase[d] \notin {"idle", "waiting"}
        BY <2>3, <2>4 DEF IInv, TaskInv, TaskAt
    <3>3. phase[d] # "cancelled"
        BY <2>2, <2>4 DEF Handle, CancelInv
    <3> QED BY <2>4, <3>1, <3>2, <3>3 DEF IInv, TypeOK, RequestType
  <2>6. d = c \/ log[d] \in Ends
      BY <2>2, <2>4, <2>5 DEF IInv, TaskInv, TaskAt
  <2>7. log[d] \in Ends => Ended(d)
      BY EndsAreOutcomes DEF Ended
  <2> QED BY <2>3, <2>6, <2>7
<1> QED BY <1>2, <1>3, Invariance, PTL DEF Spec, MisreadAckIsOver
===================================================================================
