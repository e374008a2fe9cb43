----------------------------- MODULE RecorderProofs -----------------------------
(*****************************************************************************)
(* Proofs about EventStream, and about Recorder, which composes it with the  *)
(* collector, for any readers, any queue limit and any bound.  The queue and *)
(* the loss count of every reader account for every event, and each reader's *)
(* view implements Feed.  What the collector writes down of one gateway      *)
(* process is what that process emitted, once, in order and with every hole  *)
(* measured, and every lost stream is a row, said once, whatever restarts    *)
(* and whenever.                                                             *)
(*****************************************************************************)
EXTENDS Recorder, SequenceTheorems, TLAPS

-----------------------------------------------------------------------------
(* The event stream. *)

\* The inductive invariant: Accounting needs the types of what it counts, and
\* the lost numbers stay within the stream's because of Accounting.
IInv == TypeOK /\ Accounting

-----------------------------------------------------------------------------
(* One queue. *)

\* Without its oldest event a queue starts one number later.
LEMMA TilesTail ==
    ASSUME NEW q \in Seq(Nat), NEW base \in Nat, NEW last \in Nat,
           Tiles(q, base, last), q # <<>>
    PROVE  Head(q) = base + 1 /\ Tiles(Tail(q), base + 1, last)
<1>1. Len(q) \in Nat /\ Len(q) > 0
  BY EmptySeq, LenProperties
<1>2. /\ Len(Tail(q)) = Len(q) - 1
      /\ \A i \in 1..Len(Tail(q)) : Tail(q)[i] = q[i + 1]
  BY HeadTailProperties
<1>3. Head(q) = q[1] /\ q[1] = base + 1
  BY <1>1 DEF Tiles
<1>4. ASSUME NEW i \in 1..Len(Tail(q)) PROVE Tail(q)[i] = base + 1 + i
  <2>1. i + 1 \in 1..Len(q) /\ Tail(q)[i] = q[i + 1]
    BY <1>1, <1>2
  <2>2. q[i + 1] = base + (i + 1)
    BY <2>1 DEF Tiles
  <2>3. i \in Nat
    BY <1>1, <1>2
  <2>4. QED BY <2>1, <2>2, <2>3
<1>5. base + 1 <= last /\ Len(Tail(q)) = last - (base + 1)
  BY <1>1, <1>2 DEF Tiles
<1>6. QED BY <1>3, <1>4, <1>5 DEF Tiles

\* The next event extends a queue by its number.
LEMMA TilesAppend ==
    ASSUME NEW q \in Seq(Nat), NEW base \in Nat, NEW last \in Nat,
           Tiles(q, base, last)
    PROVE  Tiles(Append(q, last + 1), base, last + 1)
<1>1. Len(q) \in Nat
  BY LenProperties
<1>2. /\ Len(Append(q, last + 1)) = Len(q) + 1
      /\ \A i \in 1..Len(q) : Append(q, last + 1)[i] = q[i]
      /\ Append(q, last + 1)[Len(q) + 1] = last + 1
  BY AppendProperties
<1>3. ASSUME NEW i \in 1..(Len(q) + 1) PROVE Append(q, last + 1)[i] = base + i
  <2>1. CASE i = Len(q) + 1
    BY <1>1, <1>2, <2>1 DEF Tiles
  <2>2. CASE i # Len(q) + 1
    <3>1. i \in 1..Len(q)
      BY <1>1, <2>2
    <3>2. QED BY <1>2, <3>1 DEF Tiles
  <2>3. QED BY <2>1, <2>2
<1>4. base <= last + 1 /\ Len(q) + 1 = last + 1 - base
  BY <1>1 DEF Tiles
<1>5. QED BY <1>2, <1>3, <1>4 DEF Tiles

\* Subscriber.put keeps a queue within its limit and of event numbers.
LEMMA PutQueueType ==
    ASSUME NEW r \in Readers, NEW S, NEW n \in S,
           queue[r] \in Seq(S), Len(queue[r]) <= QueueLimit
    PROVE  /\ PutQueue(r, n) \in Seq(S)
           /\ Full(r) => Len(PutQueue(r, n)) = QueueLimit
           /\ Len(PutQueue(r, n)) <= QueueLimit
<1> USE QueueLimitAssumption
<1>1. Len(queue[r]) \in Nat
  BY LenProperties
<1>2. CASE Full(r)
  <2>1. queue[r] # <<>> /\ Len(queue[r]) = QueueLimit
    BY <1>1, <1>2, EmptySeq DEF Full
  <2>2. Tail(queue[r]) \in Seq(S) /\ Len(Tail(queue[r])) = QueueLimit - 1
    BY <2>1, HeadTailProperties
  <2>3. QED BY <1>2, <2>2, AppendProperties DEF PutQueue
<1>3. CASE ~Full(r)
  BY <1>1, <1>3, AppendProperties DEF PutQueue, Full
<1>4. QED BY <1>2, <1>3

\* One more event on a queue that accounts for everything: the count absorbs
\* what the queue lets go of.
LEMMA PutAccounts ==
    ASSUME NEW r \in Readers, Subscribed(r), TypeOK, Accounted(r), seq < MaxSeq
    PROVE  LET base == pos[r] + PutLostCount(r)
           IN  /\ PutLostCount(r) \in Nat
               /\ PutLost(r) \in 0..MaxSeq
               /\ Tiles(PutQueue(r, seq + 1), base, seq + 1)
               /\ PutLost(r) = IF PutLostCount(r) = 0 THEN 0 ELSE base
               /\ PutLostCount(r) > 0 => Len(PutQueue(r, seq + 1)) = QueueLimit
<1> USE QueueLimitAssumption, BoundsAssumption
<1>1. /\ queue[r] \in Seq(Nat) /\ Len(queue[r]) <= QueueLimit
      /\ Len(queue[r]) \in Nat
      /\ pos[r] \in Nat /\ lostCount[r] \in Nat /\ seq \in Nat
      /\ lost[r] \in 0..MaxSeq
  <2>1. queue[r] \in Seq(1..MaxSeq)
    BY DEF TypeOK
  <2>2. queue[r] \in Seq(Nat)
    BY <2>1, SeqMonotonic
  <2>3. QED BY <2>2, LenProperties DEF TypeOK
<1>2. Tiles(queue[r], pos[r] + lostCount[r], seq)
  BY DEF Accounted
<1>3. CASE Full(r)
  <2>1. queue[r] # <<>>
    BY <1>1, <1>3, EmptySeq DEF Full
  <2>2. /\ Head(queue[r]) = pos[r] + lostCount[r] + 1
        /\ Tiles(Tail(queue[r]), pos[r] + lostCount[r] + 1, seq)
    BY <1>1, <1>2, <2>1, TilesTail
  <2>3. Tail(queue[r]) \in Seq(Nat)
    BY <1>1, <2>1, HeadTailProperties
  <2>4. Tiles(PutQueue(r, seq + 1), pos[r] + lostCount[r] + 1, seq + 1)
    <3>1. PutQueue(r, seq + 1) = Append(Tail(queue[r]), seq + 1)
      BY <1>3 DEF PutQueue
    <3>2. pos[r] + lostCount[r] + 1 \in Nat
      BY <1>1
    <3>3. QED BY <1>1, <2>2, <2>3, <3>1, <3>2, TilesAppend
  <2>5. /\ PutLostCount(r) = lostCount[r] + 1
        /\ PutLost(r) = pos[r] + lostCount[r] + 1
    BY <1>3, <2>2 DEF PutLostCount, PutLost
  <2>6. Len(PutQueue(r, seq + 1)) = QueueLimit
    BY <1>1, <1>3, PutQueueType
  <2>7. pos[r] + lostCount[r] + 1 <= seq
    BY <2>2 DEF Tiles
  <2>8. seq <= MaxSeq
    BY <1>1
  <2>9. pos[r] + (lostCount[r] + 1) = pos[r] + lostCount[r] + 1
    BY <1>1
  <2> QED BY <1>1, <2>4, <2>5, <2>6, <2>7, <2>8, <2>9, SMTT(30)
<1>4. CASE ~Full(r)
  <2>1. PutLostCount(r) = 0 /\ lostCount[r] = 0 /\ PutLost(r) = 0
    BY <1>1, <1>4 DEF Full, PutLostCount, PutLost, Accounted
  <2>2. Tiles(PutQueue(r, seq + 1), pos[r] + lostCount[r], seq + 1)
    BY <1>1, <1>2, <1>4, TilesAppend DEF PutQueue
  <2>3. QED BY <1>1, <2>1, <2>2
<1>5. QED BY <1>3, <1>4

-----------------------------------------------------------------------------
(* The invariant. *)

\* A line for the peer keeps the types of what it changes.
LEMMA WriteType ==
    ASSUME NEW r \in Readers, NEW line \in Line, TypeOK, line.seq \in 0..MaxSeq,
           Write(r, line)
    PROVE  /\ wire' \in [Readers -> Seq(Line)]
           /\ pos' \in [Readers -> 0..MaxSeq]
           /\ phase' \in [Readers -> {"off", "waiting", "draining"}]
<1>1. Append(wire[r], line) \in Seq(Line)
  BY AppendProperties DEF TypeOK
<1>2. QED BY <1>1 DEF Write, TypeOK

\* What is kept of a socket is a socket's worth of lines.
LEMMA KeptType ==
    ASSUME TypeOK, NEW r \in Readers, NEW n \in Nat
    PROVE  Kept(r, n) \in Seq(Line)
<1>1. wire[r] \in Seq(Line)
  BY DEF TypeOK
<1>2. Len(wire[r]) \in Nat
  BY <1>1, LenProperties
<1>3. \A i \in 1..(IF n < Len(wire[r]) THEN n ELSE Len(wire[r])) : wire[r][i] \in Line
  BY <1>1, <1>2, ElementOfSeq
<1>4. QED BY <1>1, <1>2, <1>3, SubSeqProperties DEF Kept

\* The gateway starts with nobody listening and nothing to account for.
LEMMA InitIInv == Init => IInv
BY QueueLimitAssumption, BoundsAssumption, EmptySeq
   DEF Init, IInv, TypeOK, Accounting, Subscribed

LEMMA NextIInv == IInv /\ [Next]_vars => IInv'
<1> SUFFICES ASSUME TypeOK, Accounting, [Next]_vars
             PROVE  TypeOK' /\ Accounting'
  BY DEF IInv
<1> USE QueueLimitAssumption, BoundsAssumption
<1>1. CASE Emit
  <2> USE <1>1 DEF Emit
  <2>1. \A r \in Readers : Subscribed(r) =>
            /\ PutQueue(r, seq + 1) \in Seq(1..MaxSeq)
            /\ Len(PutQueue(r, seq + 1)) <= QueueLimit
    <3> SUFFICES ASSUME NEW r \in Readers
                 PROVE  /\ PutQueue(r, seq + 1) \in Seq(1..MaxSeq)
                        /\ Len(PutQueue(r, seq + 1)) <= QueueLimit
      OBVIOUS
    <3>1. seq + 1 \in 1..MaxSeq /\ queue[r] \in Seq(1..MaxSeq) /\ Len(queue[r]) <= QueueLimit
      BY DEF TypeOK
    <3>2. QED BY <3>1, PutQueueType
  <2>2. \A r \in Readers : Subscribed(r) =>
            PutLost(r) \in 0..MaxSeq /\ PutLostCount(r) \in Nat
    BY PutAccounts DEF Accounting
  <2>3. TypeOK'
    BY <2>1, <2>2 DEF TypeOK
  <2>4. ASSUME NEW r \in Readers, Subscribed(r)'
        PROVE  Accounted(r)'
    <3>1. Subscribed(r) /\ Accounted(r)
      BY <2>4 DEF Subscribed, Accounting
    <3>2. /\ queue'[r] = PutQueue(r, seq + 1)
          /\ lost'[r] = PutLost(r)
          /\ lostCount'[r] = PutLostCount(r)
          /\ seq' = seq + 1
          /\ pos'[r] = pos[r]
      BY <3>1
    <3> HIDE DEF Emit
    <3>3. seq < MaxSeq
      BY DEF Emit
    <3>4. LET base == pos[r] + PutLostCount(r)
          IN  /\ Tiles(PutQueue(r, seq + 1), base, seq + 1)
              /\ PutLost(r) = IF PutLostCount(r) = 0 THEN 0 ELSE base
              /\ PutLostCount(r) > 0 => Len(PutQueue(r, seq + 1)) = QueueLimit
      BY <3>1, <3>3, PutAccounts
    <3>5. QED
      BY <3>2, <3>4 DEF Accounted, Tiles
  <2>5. QED BY <2>3, <2>4 DEF Accounting
<1>2. CASE Restart
  <2> USE <1>2 DEF Restart
  <2>1. wire' \in [Readers -> Seq(Line)]
    <3>1. PICK n \in [Readers -> 0..HighWater + 1] : wire' = [r \in Readers |-> Kept(r, n[r])]
      OBVIOUS
    <3>2. \A r \in Readers : Kept(r, n[r]) \in Seq(Line)
      BY KeptType
    <3>3. QED BY <3>1, <3>2
  <2>2. QED BY <2>1, EmptySeq DEF TypeOK, Accounting, Subscribed
<1>3. ASSUME NEW r \in Readers, Subscribe(r)
      PROVE  TypeOK' /\ Accounting'
  <2>1. TypeOK'
    BY <1>3, EmptySeq DEF Subscribe, TypeOK
  <2>2. ASSUME NEW x \in Readers, Subscribed(x)' PROVE Accounted(x)'
    BY <1>3, <2>2, EmptySeq, SMTT(30) DEF Subscribe, TypeOK, Accounting, Accounted, Subscribed, Tiles
  <2>3. QED BY <2>1, <2>2 DEF Accounting
<1>4. ASSUME NEW r \in Readers, NextDropped(r)
      PROVE  TypeOK' /\ Accounting'
  <2>1. /\ lost[r] \in 0..MaxSeq /\ lostCount[r] \in Nat /\ pos[r] \in 0..MaxSeq
        /\ seq \in 0..MaxSeq
    BY DEF TypeOK
  <2>2. Subscribed(r) /\ Accounted(r) /\ lost[r] = pos[r] + lostCount[r]
    BY <1>4, <2>1 DEF NextDropped, TakeLoss, Subscribed, Accounting, Accounted
  <2>3. DroppedLine(lost[r], lostCount[r]) \in Line
        /\ DroppedLine(lost[r], lostCount[r]).seq = lost[r]
    BY <2>1 DEF DroppedLine, Line
  <2>4. TypeOK'
    <3>1. Write(r, DroppedLine(lost[r], lostCount[r]))
      BY <1>4 DEF NextDropped, TakeLoss
    <3>2. /\ wire' \in [Readers -> Seq(Line)]
          /\ pos' \in [Readers -> 0..MaxSeq]
          /\ phase' \in [Readers -> {"off", "waiting", "draining"}]
      BY <2>1, <2>3, <3>1, WriteType
    <3>3. lost' \in [Readers -> 0..MaxSeq] /\ lostCount' \in [Readers -> Nat]
      BY <1>4 DEF NextDropped, TakeLoss, TypeOK
    <3>4. UNCHANGED <<seq, queue, gone>>
      BY <1>4 DEF NextDropped, TakeLoss
    <3>5. QED BY <3>2, <3>3, <3>4 DEF TypeOK
  <2>5. ASSUME NEW x \in Readers, Subscribed(x)' PROVE Accounted(x)'
    <3>1. CASE x = r
      <4>1. /\ pos'[r] = lost[r] /\ lost'[r] = 0 /\ lostCount'[r] = 0
            /\ queue' = queue /\ seq' = seq
        BY <1>4, <2>3 DEF NextDropped, TakeLoss, Write, TypeOK
      <4>2. QED BY <2>1, <2>2, <3>1, <4>1 DEF Accounted
    <3>2. CASE x # r
      BY <1>4, <2>5, <3>2 DEF NextDropped, TakeLoss, Write, TypeOK, Accounting, Accounted, Subscribed
    <3>3. QED BY <3>1, <3>2
  <2>6. QED BY <2>4, <2>5 DEF Accounting
<1>5. ASSUME NEW r \in Readers, NextEvent(r)
      PROVE  TypeOK' /\ Accounting'
  <2>1. /\ lost[r] = 0 /\ lostCount[r] \in Nat /\ pos[r] \in 0..MaxSeq
        /\ seq \in 0..MaxSeq /\ queue[r] \in Seq(1..MaxSeq) /\ queue[r] # <<>>
        /\ Len(queue[r]) \in Nat /\ Len(queue[r]) <= QueueLimit
    BY <1>5, LenProperties DEF TypeOK, NextEvent
  <2>2. Subscribed(r) /\ Accounted(r) /\ lostCount[r] = 0
    BY <1>5, <2>1 DEF NextEvent, Subscribed, Accounting, Accounted
  <2>3. /\ Head(queue[r]) \in 1..MaxSeq
        /\ Tail(queue[r]) \in Seq(1..MaxSeq)
        /\ Len(Tail(queue[r])) = Len(queue[r]) - 1
    BY <2>1, HeadTailProperties
  <2>4. Head(queue[r]) = pos[r] + 1 /\ Tiles(Tail(queue[r]), pos[r] + 1, seq)
    <3>1. Tiles(queue[r], pos[r], seq)
      BY <2>1, <2>2 DEF Accounted
    <3>2. queue[r] \in Seq(Nat)
      BY <2>1, SeqMonotonic
    <3>3. pos[r] \in Nat /\ seq \in Nat
      BY <2>1
    <3>4. QED BY <2>1, <3>1, <3>2, <3>3, TilesTail
  <2>5. EventLine(Head(queue[r])) \in Line /\ EventLine(Head(queue[r])).seq = Head(queue[r])
    BY <2>3 DEF EventLine, Line
  <2>6. TypeOK'
    <3>1. Write(r, EventLine(Head(queue[r])))
      BY <1>5 DEF NextEvent
    <3>2. /\ wire' \in [Readers -> Seq(Line)]
          /\ pos' \in [Readers -> 0..MaxSeq]
          /\ phase' \in [Readers -> {"off", "waiting", "draining"}]
      BY <2>3, <2>5, <3>1, WriteType
    <3>3. /\ queue' \in [Readers -> Seq(1..MaxSeq)]
          /\ \A x \in Readers : Len(queue'[x]) <= QueueLimit
      BY <1>5, <2>1, <2>3 DEF NextEvent, TypeOK
    <3>4. UNCHANGED <<seq, lost, lostCount, gone>>
      BY <1>5 DEF NextEvent
    <3>5. QED BY <3>2, <3>3, <3>4 DEF TypeOK
  <2>7. ASSUME NEW x \in Readers, Subscribed(x)' PROVE Accounted(x)'
    <3>1. CASE x = r
      <4>1. /\ pos'[r] = pos[r] + 1 /\ queue'[r] = Tail(queue[r])
            /\ lost' = lost /\ lostCount' = lostCount /\ seq' = seq
        BY <1>5, <2>4, <2>5 DEF NextEvent, Write, TypeOK
      <4>2. pos'[r] + lostCount'[r] = pos[r] + 1 /\ lostCount'[r] = 0 /\ lost'[r] = 0
        BY <2>1, <2>2, <4>1
      <4>3. Tiles(queue'[r], pos[r] + 1, seq')
        BY <2>4, <4>1
      <4>4. QED BY <3>1, <4>2, <4>3 DEF Accounted, Tiles
    <3>2. CASE x # r
      BY <1>5, <2>7, <3>2 DEF NextEvent, Write, TypeOK, Accounting, Accounted, Subscribed
    <3>3. QED BY <3>1, <3>2
  <2>8. QED BY <2>6, <2>7 DEF Accounting
<1>6. ASSUME NEW r \in Readers, Drained(r) \/ Unsubscribe(r)
      PROVE  TypeOK' /\ Accounting'
  <2>1. phase' \in [Readers -> {"off", "waiting", "draining"}]
    BY <1>6 DEF Drained, Unsubscribe, TypeOK
  <2>2. UNCHANGED <<seq, queue, lost, lostCount, wire, gone, pos>>
    BY <1>6 DEF Drained, Unsubscribe
  <2>3. \A x \in Readers : Subscribed(x)' => Subscribed(x)
    BY <1>6 DEF Drained, Unsubscribe, HangupSeen, Subscribed, TypeOK
  <2>4. QED BY <2>1, <2>2, <2>3 DEF TypeOK, Accounting, Accounted
<1>7. ASSUME NEW r \in Readers, Receive(r) \/ HangUp(r)
      PROVE  TypeOK' /\ Accounting'
  <2>1. wire' \in [Readers -> Seq(Line)] /\ gone' \in [Readers -> BOOLEAN]
    <3>1. CASE Receive(r)
      <4>1. wire[r] \in Seq(Line) /\ wire[r] # <<>>
        BY <3>1 DEF Receive, TypeOK
      <4>2. Tail(wire[r]) \in Seq(Line)
        BY <4>1, HeadTailProperties
      <4>3. QED BY <3>1, <4>2 DEF Receive, TypeOK
    <3>2. CASE HangUp(r)
      BY <3>2, EmptySeq DEF HangUp, TypeOK
    <3>3. QED BY <1>7, <3>1, <3>2
  <2>2. UNCHANGED <<seq, phase, queue, lost, lostCount, pos>>
    BY <1>7 DEF Receive, HangUp
  <2>3. QED BY <2>1, <2>2 DEF TypeOK, Accounting, Accounted, Subscribed
<1>8. CASE UNCHANGED vars
  BY <1>8 DEF vars, TypeOK, Accounting, Accounted, Subscribed
<1>9. QED
  BY <1>1, <1>2, <1>3, <1>4, <1>5, <1>6, <1>7, <1>8 DEF Next, Hand

\* Every variable keeps its type and no queue outgrows its limit (Subscriber.put).
THEOREM TypeCorrect == Spec => []TypeOK
<1>1. Spec => []IInv
  BY InitIInv, NextIInv, PTL DEF Spec
<1>2. IInv => TypeOK
  BY DEF IInv
<1>3. QED BY <1>1, <1>2, PTL

\* What every subscribed reader was told of, lost and has queued tile the
\* numbers up to the last event: no event is unaccounted for and none is
\* accounted for twice (Subscriber.put, next and _dropped).
THEOREM AccountingCorrect == Spec => []Accounting
<1>1. Spec => []IInv
  BY InitIInv, NextIInv, PTL DEF Spec
<1>2. IInv => Accounting
  BY DEF IInv
<1>3. QED BY <1>1, <1>2, PTL

-----------------------------------------------------------------------------
(* Each reader's view of the stream implements Feed. *)

\* What the invariant says of a reader about to be told of its losses: they are
\* all but the newest QueueLimit.
LEMMA DroppedSkips ==
    ASSUME IInv, NEW r \in Readers, NextDropped(r)
    PROVE  /\ Subscribed(r) /\ Subscribed(r)' /\ seq' = seq
           /\ seq - pos[r] > QueueLimit
           /\ pos'[r] = seq - QueueLimit
<1> USE QueueLimitAssumption, BoundsAssumption
<1>1. /\ seq \in Nat /\ pos[r] \in Nat /\ lostCount[r] \in Nat
      /\ lost[r] # 0 /\ r \in DOMAIN pos /\ r \in DOMAIN phase
  BY DEF IInv, TypeOK, NextDropped, TakeLoss
<1>2. Subscribed(r) /\ Subscribed(r)' /\ seq' = seq /\ pos'[r] = lost[r]
  BY <1>1 DEF NextDropped, TakeLoss, Write, Subscribed, DroppedLine, IInv, TypeOK
<1>3. Accounted(r)
  BY <1>2 DEF IInv, Accounting
<1>4. lost[r] = pos[r] + lostCount[r] /\ lostCount[r] > 0
  BY <1>1, <1>3 DEF Accounted
<1>5. Len(queue[r]) = QueueLimit /\ Len(queue[r]) = seq - lost[r]
  BY <1>3, <1>4 DEF Accounted, Tiles
<1>6. QED BY <1>1, <1>2, <1>4, <1>5

\* What it says of a reader about to be handed an event: it is the next one.
LEMMA EventFollows ==
    ASSUME IInv, NEW r \in Readers, NextEvent(r)
    PROVE  /\ Subscribed(r) /\ Subscribed(r)' /\ seq' = seq
           /\ pos[r] < seq /\ seq - pos[r] <= QueueLimit
           /\ pos'[r] = pos[r] + 1
<1> USE QueueLimitAssumption, BoundsAssumption
<1>1. /\ seq \in Nat /\ pos[r] \in Nat /\ lostCount[r] \in Nat
      /\ lost[r] = 0 /\ queue[r] # <<>> /\ queue[r] \in Seq(1..MaxSeq)
      /\ Len(queue[r]) <= QueueLimit
  BY DEF IInv, TypeOK, NextEvent
<1>2. /\ Subscribed(r) /\ Subscribed(r)' /\ seq' = seq
      /\ pos'[r] = Head(queue[r])
  BY <1>1 DEF NextEvent, Write, Subscribed, EventLine, IInv, TypeOK
<1>3. Accounted(r)
  BY <1>2 DEF IInv, Accounting
<1>4. Tiles(queue[r], pos[r], seq)
  BY <1>1, <1>3 DEF Accounted
<1>5. Head(queue[r]) = pos[r] + 1 /\ pos[r] + 1 <= seq
  <2>1. queue[r] \in Seq(Nat)
    BY <1>1, SeqMonotonic
  <2>2. QED BY <1>1, <1>4, <2>1, TilesTail DEF Tiles
<1>6. seq - pos[r] <= QueueLimit
  BY <1>1, <1>4 DEF Tiles
<1>7. QED BY <1>1, <1>2, <1>5, <1>6

\* Every step of the stream is, for each reader, a step of its Feed or none.
LEMMA StepFeed ==
    ASSUME IInv, [Next]_vars, NEW x \in Readers
    PROVE  [ReaderFeed(x)!Next]_(ReaderFeed(x)!vars)
<1> USE DEF ReaderFeed!Next, ReaderFeed!vars
<1>1. CASE Emit
  BY <1>1 DEF Emit, Subscribed, ReaderFeed!Emit
<1>2. CASE Restart
  BY <1>2 DEF Restart, Subscribed, ReaderFeed!Restart
<1>3. ASSUME NEW r \in Readers, Subscribe(r)
      PROVE  ReaderFeed(x)!Subscribe \/ UNCHANGED ReaderFeed(x)!vars
  BY <1>3 DEF Subscribe, Subscribed, IInv, TypeOK, ReaderFeed!Subscribe
<1>4. ASSUME NEW r \in Readers, NextDropped(r)
      PROVE  ReaderFeed(x)!Skip \/ UNCHANGED ReaderFeed(x)!vars
  <2>1. CASE x = r
    BY <1>4, <2>1, DroppedSkips DEF ReaderFeed!Skip, Subscribed
  <2>2. CASE x # r
    BY <1>4, <2>2 DEF NextDropped, TakeLoss, Write, Subscribed, IInv, TypeOK
  <2>3. QED BY <2>1, <2>2
<1>5. ASSUME NEW r \in Readers, NextEvent(r)
      PROVE  ReaderFeed(x)!Next1 \/ UNCHANGED ReaderFeed(x)!vars
  <2>1. CASE x = r
    BY <1>5, <2>1, EventFollows DEF ReaderFeed!Next1, Subscribed
  <2>2. CASE x # r
    BY <1>5, <2>2 DEF NextEvent, Write, Subscribed, IInv, TypeOK
  <2>3. QED BY <2>1, <2>2
<1>6. ASSUME NEW r \in Readers, Unsubscribe(r)
      PROVE  ReaderFeed(x)!Unsubscribe \/ UNCHANGED ReaderFeed(x)!vars
  BY <1>6 DEF Unsubscribe, HangupSeen, Subscribed, IInv, TypeOK, ReaderFeed!Unsubscribe
<1>7. ASSUME NEW r \in Readers, Drained(r) \/ Receive(r) \/ HangUp(r)
      PROVE  UNCHANGED ReaderFeed(x)!vars
  BY <1>7 DEF Drained, Receive, HangUp, Subscribed, IInv, TypeOK
<1>8. CASE UNCHANGED vars
  BY <1>8 DEF vars, Subscribed
<1>9. QED
  BY <1>1, <1>2, <1>3, <1>4, <1>5, <1>6, <1>7, <1>8 DEF Next, Hand

\* The stream implements Feed for every one of its readers: whatever the other
\* readers do, each is told of the events in order, and is told of a count only
\* in place of all but the newest QueueLimit (the comment of Subscriber._dropped).
THEOREM ImplementsFeed == Spec => FeedPromise
<1>1. Init => \A r \in Readers : ReaderFeed(r)!Init
  BY DEF Init, Subscribed, ReaderFeed!Init
<1>2. IInv /\ [Next]_vars =>
        [\A r \in Readers : [ReaderFeed(r)!Next]_(ReaderFeed(r)!vars)]_vars
  BY StepFeed
<1>3. QED BY <1>1, <1>2, InitIInv, NextIInv, PTL DEF Spec, FeedPromise

-----------------------------------------------------------------------------
(* The recorder. *)

\* The lines of w follow each other and the event numbered base: each goes as
\* far as it counts.
Chained(w, base) ==
    /\ \A k \in 1..Len(w) :
           /\ w[k].seq \in 1..MaxSeq
           /\ w[k].count \in 1..w[k].seq
           /\ w[k].kind = "event" => w[k].count = 1
    /\ w # <<>> => w[1].seq = base + w[1].count
    /\ \A k \in 1..Len(w) - 1 : w[k + 1].seq = w[k].seq + w[k + 1].count

\* The last event the lines of w tell of, base when there is none.
EndOf(w, base) == IF w = <<>> THEN base ELSE w[Len(w)].seq

\* The last event before what a connection has still to tell.
Before(next, w, p) ==
    IF next # 0 THEN next - 1 ELSE IF w # <<>> THEN w[1].seq - w[1].count ELSE p

From == Before(nextSeq, wire[conn], pos[conn])

\* More can come through the collector's connection.
Flowing == conn # None /\ (wire[conn] # <<>> \/ Subscribed(conn))

\* How the collector's connection and the gateway's processes go together.
Processes ==
    /\ ~up => \A r \in Readers : ~Subscribed(r)
    /\ conn # None => server # 0 /\ ~reportedDown
    /\ conn # None /\ ~accepted => wire[conn] = <<>> /\ ~Subscribed(conn) /\ nextSeq = 0
    /\ conn # None /\ accepted /\ up /\ server = life => Subscribed(conn)

\* The lines on the collector's socket go on from what it has read, and the
\* gateway goes on from them.
ToCome ==
    conn # None =>
        /\ Chained(wire[conn], From)
        /\ Subscribed(conn) => pos[conn] = EndOf(wire[conn], From)
        /\ up /\ server = life => \A k \in 1..Len(wire[conn]) : wire[conn][k].seq <= seq

\* No row tells of a process or an event that is still to come.
SoFar ==
    \A i \in 1..Len(rows) :
        /\ rows[i].run <= run
        /\ Told(i) =>
               /\ rows[i].life <= life
               /\ up /\ rows[i].life = life => rows[i].seq <= seq
               /\ conn # None => rows[i].life <= server
               /\ Flowing /\ rows[i].life = server => rows[i].seq <= From

\* What a connection told last is what the numbering goes on from.
LastTold ==
    conn # None /\ rows # <<>> /\ Told(Len(rows)) =>
        /\ rows[Len(rows)].life = server
        /\ nextSeq = rows[Len(rows)].seq + 1

\* What this run said last of the connection, with only what it was told after it.
Latest(i) == rows[i].run = run /\ \A k \in i + 1..Len(rows) : Told(k)

\* It is still so.
LastSaid ==
    \A i \in 1..Len(rows) :
        Latest(i) =>
            /\ rows[i].kind = "connected" => conn # None
            /\ rows[i].kind = "disconnected" => conn = None /\ reportedDown

\* The inductive invariant: the properties hold of the rows written so far
\* because of how the state they are continued from hangs together.
RecorderIInv ==
    /\ RecorderTypeOK /\ Accounting
    /\ Processes /\ ToCome
    /\ SoFar /\ LastTold /\ LastSaid
    /\ RowsAreTheStream /\ OutagesAreRows

-----------------------------------------------------------------------------
(* Lines that follow each other. *)

LEMMA EndOfType ==
    ASSUME NEW w \in Seq(Line), NEW base \in Nat, Chained(w, base)
    PROVE  EndOf(w, base) \in Nat
<1>1. CASE w = <<>>
  BY <1>1 DEF EndOf
<1>2. CASE w # <<>>
  <2>1. Len(w) \in 1..Len(w)
    BY <1>2, EmptySeq
  <2>2. w[Len(w)].seq \in 1..MaxSeq
    BY <2>1 DEF Chained
  <2>3. QED BY <1>2, <2>2, BoundsAssumption DEF EndOf
<1>3. QED BY <1>1, <1>2

\* What a connection goes on from is a number.
LEMMA BeforeType ==
    ASSUME NEW next \in Nat, NEW w \in Seq(Line), NEW p \in Nat, NEW base, Chained(w, base)
    PROVE  Before(next, w, p) \in Nat
<1>1. CASE next # 0
  BY <1>1 DEF Before
<1>2. CASE next = 0 /\ w # <<>>
  <2>1. 1 \in 1..Len(w)
    BY <1>2, EmptySeq
  <2>2. w[1].seq \in 1..MaxSeq /\ w[1].count \in 1..w[1].seq
    BY <2>1 DEF Chained
  <2>3. w[1].seq - w[1].count \in Nat
    BY <2>2, BoundsAssumption
  <2>4. QED BY <1>2, <2>3 DEF Before
<1>3. CASE next = 0 /\ w = <<>>
  BY <1>3 DEF Before
<1>4. QED BY <1>1, <1>2, <1>3

\* A line that starts where the others end goes after them.
LEMMA ChainedAppend ==
    ASSUME NEW w \in Seq(Line), NEW base \in Nat, Chained(w, base),
           NEW line \in Line, line.seq \in 1..MaxSeq, line.count \in 1..line.seq,
           line.kind = "event" => line.count = 1,
           line.seq = EndOf(w, base) + line.count
    PROVE  /\ Append(w, line) \in Seq(Line) /\ Append(w, line) # <<>>
           /\ Append(w, line)[1] = IF w = <<>> THEN line ELSE w[1]
           /\ Chained(Append(w, line), base)
           /\ EndOf(Append(w, line), base) = line.seq
<1> DEFINE v == Append(w, line)
<1>1. /\ v \in Seq(Line) /\ v # <<>>
      /\ Len(w) \in Nat /\ Len(v) = Len(w) + 1
      /\ \A k \in 1..Len(w) : v[k] = w[k]
      /\ v[Len(w) + 1] = line
  BY AppendProperties, LenProperties
<1>2. v[1] = IF w = <<>> THEN line ELSE w[1]
  <2>1. CASE w = <<>>
    BY <1>1, <2>1, EmptySeq
  <2>2. CASE w # <<>>
    <3>1. 1 \in 1..Len(w)
      BY <2>2, EmptySeq
    <3>2. QED BY <1>1, <2>2, <3>1
  <2>3. QED BY <2>1, <2>2
<1> HIDE DEF v
<1>3. ASSUME NEW k \in 1..Len(v)
      PROVE  /\ v[k].seq \in 1..MaxSeq
             /\ v[k].count \in 1..v[k].seq
             /\ v[k].kind = "event" => v[k].count = 1
  <2>1. CASE k = Len(w) + 1
    BY <1>1, <2>1
  <2>2. CASE k # Len(w) + 1
    <3>1. k \in 1..Len(w)
      BY <1>1, <2>2
    <3>2. QED BY <1>1, <3>1 DEF Chained
  <2>3. QED BY <2>1, <2>2
<1>4. v[1].seq = base + v[1].count
  BY <1>2 DEF Chained, EndOf
<1>5. ASSUME NEW k \in 1..Len(v) - 1 PROVE v[k + 1].seq = v[k].seq + v[k + 1].count
  <2>1. CASE k = Len(w)
    <3>1. w # <<>> /\ v[k] = w[Len(w)] /\ v[k + 1] = line
      BY <1>1, <2>1, EmptySeq
    <3>2. QED BY <3>1 DEF EndOf
  <2>2. CASE k # Len(w)
    <3>1. k \in 1..Len(w) - 1 /\ k \in 1..Len(w) /\ k + 1 \in 1..Len(w)
      BY <1>1, <2>2
    <3>2. v[k] = w[k] /\ v[k + 1] = w[k + 1]
      BY <1>1, <3>1
    <3>3. QED BY <3>1, <3>2 DEF Chained
  <2>3. QED BY <2>1, <2>2
<1>6. v[Len(v)] = line
  BY <1>1
<1>7. QED
  BY <1>1, <1>2, <1>3, <1>4, <1>5, <1>6 DEF Chained, EndOf, v

\* What is left without the first line goes on from it.
LEMMA ChainedTail ==
    ASSUME NEW w \in Seq(Line), NEW base \in Nat, Chained(w, base), w # <<>>
    PROVE  /\ Head(w).seq \in 1..MaxSeq /\ Head(w).count \in 1..Head(w).seq
           /\ Head(w).kind = "event" => Head(w).count = 1
           /\ Head(w).seq = base + Head(w).count
           /\ Tail(w) \in Seq(Line)
           /\ Chained(Tail(w), Head(w).seq)
           /\ EndOf(Tail(w), Head(w).seq) = EndOf(w, base)
           /\ \A k \in 1..Len(Tail(w)) : k + 1 \in 1..Len(w) /\ Tail(w)[k] = w[k + 1]
<1> DEFINE v == Tail(w)
<1>1. /\ v \in Seq(Line)
      /\ Len(w) \in Nat \ {0} /\ Len(v) = Len(w) - 1
      /\ \A k \in 1..Len(v) : v[k] = w[k + 1]
  BY HeadTailProperties, EmptySeq
<1>2. Head(w) = w[1] /\ 1 \in 1..Len(w)
  BY <1>1
<1>3. /\ Head(w).seq \in 1..MaxSeq /\ Head(w).count \in 1..Head(w).seq
      /\ Head(w).kind = "event" => Head(w).count = 1
      /\ Head(w).seq = base + Head(w).count
  BY <1>2 DEF Chained
<1> HIDE DEF v
<1>4. \A k \in 1..Len(v) : k + 1 \in 1..Len(w) /\ v[k] = w[k + 1]
  BY <1>1
<1>5. ASSUME NEW k \in 1..Len(v)
      PROVE  /\ v[k].seq \in 1..MaxSeq
             /\ v[k].count \in 1..v[k].seq
             /\ v[k].kind = "event" => v[k].count = 1
  BY <1>4 DEF Chained
<1>6. v # <<>> => v[1].seq = Head(w).seq + v[1].count
  <2>1. SUFFICES ASSUME v # <<>> PROVE w[2].seq = w[1].seq + w[2].count /\ v[1] = w[2]
    BY <1>2
  <2>2. 1 \in 1..Len(v) /\ 1 \in 1..Len(w) - 1
    BY <1>1, <2>1, EmptySeq
  <2>3. QED BY <1>1, <2>2 DEF Chained
<1>7. ASSUME NEW k \in 1..Len(v) - 1 PROVE v[k + 1].seq = v[k].seq + v[k + 1].count
  <2>1. k \in 1..Len(v) /\ k + 1 \in 1..Len(v) /\ k + 1 \in 1..Len(w) - 1
    BY <1>1
  <2>2. v[k] = w[k + 1] /\ v[k + 1] = w[(k + 1) + 1]
    BY <1>1, <2>1
  <2>3. QED BY <2>1, <2>2 DEF Chained
<1>8. EndOf(v, Head(w).seq) = EndOf(w, base)
  <2>1. CASE v = <<>>
    <3>1. Len(w) = 1
      BY <1>1, <2>1, EmptySeq
    <3>2. QED BY <1>2, <2>1, <3>1 DEF EndOf
  <2>2. CASE v # <<>>
    <3>1. Len(v) \in 1..Len(v) /\ Len(v) + 1 = Len(w)
      BY <1>1, <2>2, EmptySeq
    <3>2. v[Len(v)] = w[Len(w)]
      BY <1>1, <3>1
    <3>3. QED BY <2>2, <3>2 DEF EndOf
  <2>3. QED BY <2>1, <2>2
<1>9. QED BY <1>1, <1>3, <1>4, <1>5, <1>6, <1>7, <1>8 DEF Chained, v

\* The first lines follow each other as they did.
LEMMA ChainedPrefix ==
    ASSUME NEW w \in Seq(Line), NEW base \in Nat, Chained(w, base), NEW n \in 0..Len(w)
    PROVE  /\ SubSeq(w, 1, n) \in Seq(Line)
           /\ SubSeq(w, 1, n) # <<>> => w # <<>> /\ SubSeq(w, 1, n)[1] = w[1]
           /\ Chained(SubSeq(w, 1, n), base)
<1> DEFINE v == SubSeq(w, 1, n)
<1>1. /\ v \in Seq(Line) /\ Len(v) = n /\ Len(w) \in Nat
      /\ \A k \in 1..n : k \in 1..Len(w) /\ v[k] = w[k]
  <2>1. Len(w) \in Nat /\ 1 \in Int /\ n \in Int
    BY LenProperties
  <2>2. \A k \in 1..n : k \in 1..Len(w)
    BY <2>1
  <2>3. \A k \in 1..n : w[k] \in Line
    BY <2>2, ElementOfSeq
  <2>4. /\ v \in Seq(Line)
        /\ Len(v) = IF 1 <= n THEN n - 1 + 1 ELSE 0
        /\ \A k \in 1..(n - 1 + 1) : v[k] = w[1 + k - 1]
    BY <2>1, <2>3, SubSeqProperties
  <2>5. Len(v) = n
    BY <2>1, <2>4
  <2>6. \A k \in 1..n : v[k] = w[k]
    BY <2>1, <2>4
  <2>7. QED BY <2>1, <2>2, <2>4, <2>5, <2>6
<1> HIDE DEF v
<1>2. v # <<>> => w # <<>> /\ v[1] = w[1]
  <2>1. SUFFICES ASSUME v # <<>> PROVE w # <<>> /\ v[1] = w[1]
    OBVIOUS
  <2>2. 1 \in 1..n /\ Len(w) # 0
    BY <1>1, <2>1, EmptySeq
  <2>3. QED BY <1>1, <2>2, EmptySeq
<1>3. ASSUME NEW k \in 1..Len(v) - 1 PROVE v[k + 1].seq = v[k].seq + v[k + 1].count
  <2>1. k \in 1..n /\ k + 1 \in 1..n /\ k \in 1..Len(w) - 1
    BY <1>1
  <2>2. v[k] = w[k] /\ v[k + 1] = w[k + 1]
    BY <1>1, <2>1
  <2>3. QED BY <2>1, <2>2 DEF Chained
<1>4. QED BY <1>1, <1>2, <1>3 DEF Chained, v

-----------------------------------------------------------------------------
(* The stream's invariant in the composed system. *)

\* What the stream accounts for does not depend on the sockets' contents.
LEMMA SocketFrame ==
    ASSUME IInv, UNCHANGED <<seq, phase, queue, lost, lostCount, pos>>,
           wire' \in [Readers -> Seq(Line)], gone' \in [Readers -> BOOLEAN]
    PROVE  IInv'
BY DEF IInv, TypeOK, Accounting, Accounted, Subscribed

\* A new socket is a reader that nobody is.
LEMMA ConnectPicks ==
    ASSUME Connect
    PROVE  conn' \in Readers /\ ~Subscribed(conn')
BY DEF Connect

\* Every step of the collector and of the gateway's processes keeps it.
LEMMA StreamIInv ==
    ASSUME IInv, conn \in Readers \union {None}, [RecorderNext]_recorderVars
    PROVE  IInv'
<1>1. CASE GatewayEmits
  BY <1>1, NextIInv DEF GatewayEmits, Next
<1>2. CASE GatewayServes
  BY <1>2, NextIInv DEF GatewayServes, Next
<1>3. CASE GatewayStops
  BY <1>3, NextIInv DEF GatewayStops, Next
<1>4. CASE GatewayStarts
  BY <1>4, NextIInv DEF GatewayStarts
<1>5. CASE GatewayAccepts
  BY <1>5, NextIInv DEF GatewayAccepts, Next
<1>6. CASE Connect
  <2>1. conn' \in Readers /\ ~Subscribed(conn')
    BY <1>6, ConnectPicks
  <2>2. wire' \in [Readers -> Seq(Line)] /\ gone' \in [Readers -> BOOLEAN]
    BY <1>6, <2>1, EmptySeq DEF Connect, IInv, TypeOK
  <2>3. QED BY <1>6, <2>2, SocketFrame DEF Connect
<1>7. CASE ConnectFails
  BY <1>7, NextIInv DEF ConnectFails
<1>8. CASE Read
  BY <1>8, NextIInv DEF Read, ToRead, Next
<1>9. CASE StreamEnds
  <2>1. wire' \in [Readers -> Seq(Line)] /\ gone' \in [Readers -> BOOLEAN]
    BY <1>9 DEF StreamEnds, Close, IInv, TypeOK
  <2>2. QED BY <1>9, <2>1, SocketFrame DEF StreamEnds
<1>10. CASE CollectorRestarts
  <2>1. CASE conn = None
    BY <1>10, <2>1, NextIInv DEF CollectorRestarts
  <2>2. CASE conn # None
    BY <1>10, <2>2, NextIInv DEF CollectorRestarts, Next
  <2>3. QED BY <2>1, <2>2
<1>11. CASE UNCHANGED recorderVars
  BY <1>11, NextIInv DEF recorderVars
<1>12. QED
  BY <1>1, <1>2, <1>3, <1>4, <1>5, <1>6, <1>7, <1>8, <1>9, <1>10, <1>11 DEF RecorderNext

-----------------------------------------------------------------------------
(* Rows. *)

\* What is written already is said of it again.
LEMMA RowsFrame ==
    ASSUME RowsAreTheStream, OutagesAreRows, rows' = rows
    PROVE  RowsAreTheStream' /\ OutagesAreRows'
BY DEF RowsAreTheStream, HolesAreMeasured, NothingTwice, OutagesAreRows, Told

LEMMA RowAppended ==
    ASSUME rows \in Seq(Row), NEW row \in Row, rows' = Append(rows, row)
    PROVE  /\ rows' \in Seq(Row) /\ rows' # <<>>
           /\ Len(rows) \in Nat /\ Len(rows') = Len(rows) + 1
           /\ DOMAIN rows = 1..Len(rows) /\ DOMAIN rows' = 1..Len(rows')
           /\ \A i \in 1..Len(rows) : rows'[i] = rows[i] /\ (Told(i)' <=> Told(i))
           /\ rows'[Len(rows')] = row
           /\ \A i \in 1..Len(rows') :
                  (i \in 1..Len(rows) \/ i = Len(rows'))
                  /\ (i = Len(rows') => (Told(i)' <=> row.kind \in {"event", "dropped"}))
<1>1. /\ Append(rows, row) \in Seq(Row) /\ Append(rows, row) # <<>>
      /\ Len(rows) \in Nat /\ Len(Append(rows, row)) = Len(rows) + 1
      /\ \A i \in 1..Len(rows) : Append(rows, row)[i] = rows[i]
      /\ Append(rows, row)[Len(rows) + 1] = row
  BY AppendProperties, LenProperties
<1>2. DOMAIN rows = 1..Len(rows) /\ DOMAIN rows' = 1..Len(rows')
  BY <1>1, LenProperties
<1>3. \A i \in 1..Len(rows) : rows'[i] = rows[i] /\ (Told(i)' <=> Told(i))
  BY <1>1 DEF Told
<1>4. rows'[Len(rows')] = row
  BY <1>1
<1>5. ASSUME NEW i \in 1..Len(rows')
      PROVE  /\ i \in 1..Len(rows) \/ i = Len(rows')
             /\ i = Len(rows') => (Told(i)' <=> row.kind \in {"event", "dropped"})
  <2>1. i \in 1..Len(rows) \/ i = Len(rows')
    BY <1>1
  <2>2. i = Len(rows') => (Told(i)' <=> row.kind \in {"event", "dropped"})
    BY <1>4 DEF Told
  <2>3. QED BY <2>1, <2>2
<1>6. QED BY <1>1, <1>2, <1>3, <1>4, <1>5

\* A row about the connection is no part of the stream.
LEMMA OwnRowKeepsStream ==
    ASSUME rows \in Seq(Row), NEW row \in Row, rows' = Append(rows, row),
           row.kind \in {"connected", "disconnected"}, RowsAreTheStream
    PROVE  RowsAreTheStream'
<1>1. /\ Len(rows) \in Nat /\ Len(rows') = Len(rows) + 1
      /\ DOMAIN rows = 1..Len(rows) /\ DOMAIN rows' = 1..Len(rows')
      /\ \A i \in 1..Len(rows) : rows'[i] = rows[i] /\ (Told(i)' <=> Told(i))
      /\ rows'[Len(rows')] = row
  BY RowAppended
<1>2. ASSUME NEW i \in 1..Len(rows'), i # Len(rows') \/ Told(i)'
      PROVE  i \in 1..Len(rows)
  BY <1>2, RowAppended
<1>3. \A i \in DOMAIN rows' : rows'[i].kind # "gap"
  BY <1>1, <1>2 DEF RowsAreTheStream, HolesAreMeasured
<1>4. ASSUME NEW i \in 1..Len(rows') - 1, Told(i)', Told(i + 1)'
      PROVE  /\ rows'[i + 1].life = rows'[i].life
             /\ rows'[i + 1].seq = rows'[i].seq + rows'[i + 1].count
  <2>1. i + 1 \in 1..Len(rows)
    BY <1>1, <1>2, <1>4
  <2>2. i \in 1..Len(rows) - 1 /\ i \in 1..Len(rows)
    BY <1>1, <2>1
  <2>3. rows'[i] = rows[i] /\ rows'[i + 1] = rows[i + 1] /\ Told(i) /\ Told(i + 1)
    BY <1>1, <1>4, <2>1, <2>2
  <2>4. QED BY <2>2, <2>3 DEF RowsAreTheStream, HolesAreMeasured
<1>5. ASSUME NEW i \in DOMAIN rows', NEW j \in DOMAIN rows', i < j, Told(i)', Told(j)'
      PROVE  \/ rows'[i].life < rows'[j].life
             \/ rows'[i].life = rows'[j].life /\ rows'[i].seq <= rows'[j].seq - rows'[j].count
  <2>2. i \in 1..Len(rows) /\ j \in 1..Len(rows)
    BY <1>1, <1>2, <1>5
  <2>3. rows'[i] = rows[i] /\ rows'[j] = rows[j] /\ Told(i) /\ Told(j)
    BY <1>1, <1>5, <2>2
  <2>4. QED BY <1>1, <1>5, <2>2, <2>3 DEF RowsAreTheStream, NothingTwice
<1>6. QED BY <1>3, <1>4, <1>5 DEF RowsAreTheStream, HolesAreMeasured, NothingTwice

\* A row about the connection that does not repeat the last one of its run.
LEMMA OwnRowKeepsOutages ==
    ASSUME rows \in Seq(Row), NEW row \in Row, rows' = Append(rows, row),
           row.kind \in {"connected", "disconnected"}, row.run = run,
           \A i \in 1..Len(rows) : Latest(i) => rows[i].kind # row.kind,
           OutagesAreRows
    PROVE  OutagesAreRows'
<1>1. /\ Len(rows) \in Nat /\ Len(rows') = Len(rows) + 1
      /\ DOMAIN rows = 1..Len(rows) /\ DOMAIN rows' = 1..Len(rows')
      /\ \A i \in 1..Len(rows) : rows'[i] = rows[i] /\ (Told(i)' <=> Told(i))
      /\ rows'[Len(rows')] = row
  BY RowAppended
<1>2. ASSUME NEW i \in DOMAIN rows', NEW j \in DOMAIN rows',
             i < j, rows'[i].run = rows'[j].run, \A k \in i + 1..j - 1 : Told(k)'
      PROVE  /\ rows'[i].kind = "connected" => rows'[j].kind # "connected"
             /\ rows'[i].kind = "disconnected" => rows'[j].kind = "connected"
  <2>1. i \in 1..Len(rows) /\ rows'[i] = rows[i]
    BY <1>1, <1>2
  <2>2. CASE j = Len(rows')
    <3>1. \A k \in i + 1..Len(rows) : k \in i + 1..j - 1 /\ k \in 1..Len(rows)
      BY <1>1, <2>1, <2>2
    <3>2. \A k \in i + 1..Len(rows) : Told(k)
      BY <1>1, <1>2, <3>1
    <3>3. rows[i].run = run
      BY <1>1, <1>2, <2>1, <2>2
    <3>4. rows[i].kind # row.kind
      BY <2>1, <3>2, <3>3 DEF Latest
    <3>5. QED BY <1>1, <2>1, <2>2, <3>4
  <2>3. CASE j # Len(rows')
    <3>1. j \in 1..Len(rows) /\ rows'[j] = rows[j]
      BY <1>1, <2>3
    <3>2. \A k \in i + 1..j - 1 : k \in 1..Len(rows)
      BY <1>1, <2>1, <3>1
    <3>3. \A k \in i + 1..j - 1 : Told(k)
      BY <1>1, <1>2, <3>2
    <3>4. QED BY <1>1, <1>2, <2>1, <3>1, <3>3 DEF OutagesAreRows
  <2>4. QED BY <2>2, <2>3
<1>3. QED BY <1>2 DEF OutagesAreRows

\* A row of the stream that goes on from the rows before it.
LEMMA ToldRowKeepsStream ==
    ASSUME rows \in Seq(Row), NEW row \in Row, rows' = Append(rows, row),
           row.kind \in {"event", "dropped"}, RowsAreTheStream,
           \A i \in 1..Len(rows) : Told(i) =>
               \/ rows[i].life < row.life
               \/ rows[i].life = row.life /\ rows[i].seq <= row.seq - row.count,
           rows # <<>> /\ Told(Len(rows)) =>
               /\ row.life = rows[Len(rows)].life
               /\ row.seq = rows[Len(rows)].seq + row.count
    PROVE  RowsAreTheStream'
<1>1. /\ Len(rows) \in Nat /\ Len(rows') = Len(rows) + 1
      /\ DOMAIN rows = 1..Len(rows) /\ DOMAIN rows' = 1..Len(rows')
      /\ \A i \in 1..Len(rows) : rows'[i] = rows[i] /\ (Told(i)' <=> Told(i))
      /\ rows'[Len(rows')] = row
      /\ \A i \in 1..Len(rows') : i \in 1..Len(rows) \/ i = Len(rows')
  BY RowAppended
<1>2. \A i \in DOMAIN rows' : rows'[i].kind # "gap"
  BY <1>1 DEF RowsAreTheStream, HolesAreMeasured
<1>3. ASSUME NEW i \in 1..Len(rows') - 1, Told(i)', Told(i + 1)'
      PROVE  /\ rows'[i + 1].life = rows'[i].life
             /\ rows'[i + 1].seq = rows'[i].seq + rows'[i + 1].count
  <2>1. i \in 1..Len(rows) /\ rows'[i] = rows[i] /\ Told(i)
    BY <1>1, <1>3
  <2>2. CASE i = Len(rows)
    <3>1. i + 1 = Len(rows') /\ rows # <<>>
      BY <1>1, <2>1, <2>2, EmptySeq
    <3>2. QED BY <1>1, <2>1, <2>2, <3>1
  <2>3. CASE i # Len(rows)
    <3>1. i \in 1..Len(rows) - 1 /\ i + 1 \in 1..Len(rows)
      BY <1>1, <2>1, <2>3
    <3>2. rows'[i + 1] = rows[i + 1] /\ Told(i + 1)
      BY <1>1, <1>3, <3>1
    <3>3. QED BY <2>1, <3>1, <3>2 DEF RowsAreTheStream, HolesAreMeasured
  <2>4. QED BY <2>2, <2>3
<1>4. ASSUME NEW i \in DOMAIN rows', NEW j \in DOMAIN rows', i < j, Told(i)', Told(j)'
      PROVE  \/ rows'[i].life < rows'[j].life
             \/ rows'[i].life = rows'[j].life /\ rows'[i].seq <= rows'[j].seq - rows'[j].count
  <2>1. i \in 1..Len(rows) /\ rows'[i] = rows[i] /\ Told(i)
    BY <1>1, <1>4
  <2>2. CASE j = Len(rows')
    BY <1>1, <2>1, <2>2
  <2>3. CASE j # Len(rows')
    <3>1. j \in 1..Len(rows) /\ rows'[j] = rows[j] /\ Told(j)
      BY <1>1, <1>4, <2>3
    <3>2. QED BY <1>1, <1>4, <2>1, <3>1 DEF RowsAreTheStream, NothingTwice
  <2>4. QED BY <2>2, <2>3
<1>5. QED BY <1>2, <1>3, <1>4 DEF RowsAreTheStream, HolesAreMeasured, NothingTwice

\* A row of the stream in a run that has not said the stream is lost.
LEMMA ToldRowKeepsOutages ==
    ASSUME rows \in Seq(Row), NEW row \in Row, rows' = Append(rows, row),
           row.kind \in {"event", "dropped"}, row.run = run,
           \A i \in 1..Len(rows) : Latest(i) => rows[i].kind # "disconnected",
           OutagesAreRows
    PROVE  OutagesAreRows'
<1>1. /\ Len(rows) \in Nat /\ Len(rows') = Len(rows) + 1
      /\ DOMAIN rows = 1..Len(rows) /\ DOMAIN rows' = 1..Len(rows')
      /\ \A i \in 1..Len(rows) : rows'[i] = rows[i] /\ (Told(i)' <=> Told(i))
      /\ rows'[Len(rows')] = row
  BY RowAppended
<1>2. ASSUME NEW i \in DOMAIN rows', NEW j \in DOMAIN rows',
             i < j, rows'[i].run = rows'[j].run, \A k \in i + 1..j - 1 : Told(k)'
      PROVE  /\ rows'[i].kind = "connected" => rows'[j].kind # "connected"
             /\ rows'[i].kind = "disconnected" => rows'[j].kind = "connected"
  <2>1. i \in 1..Len(rows) /\ rows'[i] = rows[i]
    BY <1>1, <1>2
  <2>2. CASE j = Len(rows')
    <3>1. \A k \in i + 1..Len(rows) : k \in i + 1..j - 1 /\ k \in 1..Len(rows)
      BY <1>1, <2>1, <2>2
    <3>2. \A k \in i + 1..Len(rows) : Told(k)
      BY <1>1, <1>2, <3>1
    <3>3. rows[i].run = run
      BY <1>1, <1>2, <2>1, <2>2
    <3>4. rows[i].kind # "disconnected"
      BY <2>1, <3>2, <3>3 DEF Latest
    <3>5. QED BY <1>1, <2>1, <2>2, <3>4
  <2>3. CASE j # Len(rows')
    <3>1. j \in 1..Len(rows) /\ rows'[j] = rows[j]
      BY <1>1, <2>3
    <3>2. \A k \in i + 1..j - 1 : k \in 1..Len(rows)
      BY <1>1, <2>1, <3>1
    <3>3. \A k \in i + 1..j - 1 : Told(k)
      BY <1>1, <1>2, <3>2
    <3>4. QED BY <1>1, <1>2, <2>1, <3>1, <3>3 DEF OutagesAreRows
  <2>4. QED BY <2>2, <2>3
<1>3. QED BY <1>2 DEF OutagesAreRows

-----------------------------------------------------------------------------
(* The invariant, action by action. *)

\* What the actions' proofs need of the types.
LEMMA RecorderTypes ==
    ASSUME RecorderIInv
    PROVE  /\ IInv
           /\ life \in Nat /\ run \in Nat /\ seq \in Nat /\ nextSeq \in Nat
           /\ up \in BOOLEAN /\ accepted \in BOOLEAN /\ reportedDown \in BOOLEAN
           /\ conn \in Readers \union {None} /\ server \in 0..life
           /\ rows \in Seq(Row) /\ Len(rows) \in Nat /\ DOMAIN rows = 1..Len(rows)
           /\ conn # None => /\ wire[conn] \in Seq(Line) /\ pos[conn] \in 0..MaxSeq
                             /\ From \in Nat /\ ~gone[conn]
<1> USE RecorderBoundsAssumption, BoundsAssumption
<1>1. IInv
  BY DEF RecorderIInv, IInv, RecorderTypeOK
<1>2. /\ life \in Nat /\ run \in Nat /\ seq \in Nat /\ nextSeq \in Nat
      /\ server \in 0..life
  BY DEF RecorderIInv, RecorderTypeOK, TypeOK
<1>3. /\ up \in BOOLEAN /\ accepted \in BOOLEAN /\ reportedDown \in BOOLEAN
      /\ conn \in Readers \union {None} /\ rows \in Seq(Row)
      /\ conn # None => ~gone[conn]
  BY Zenon DEF RecorderIInv, RecorderTypeOK
<1>4. Len(rows) \in Nat /\ DOMAIN rows = 1..Len(rows)
  BY <1>3, LenProperties
<1>5. ASSUME conn # None PROVE wire[conn] \in Seq(Line) /\ pos[conn] \in 0..MaxSeq
  BY <1>3, <1>5 DEF RecorderIInv, RecorderTypeOK, TypeOK
<1>6. ASSUME conn # None PROVE From \in Nat
  <2>1. pos[conn] \in Nat
    BY <1>5, <1>6
  <2>2. QED BY <1>2, <1>5, <1>6, <2>1, BeforeType DEF RecorderIInv, ToCome, From
<1>7. QED BY <1>1, <1>2, <1>3, <1>4, <1>5, <1>6

\* Nothing is connected or written down at first.
LEMMA RecorderInitIInv == RecorderInit => RecorderIInv
<1> SUFFICES ASSUME RecorderInit PROVE RecorderIInv
  OBVIOUS
<1>1. TypeOK /\ Accounting
  BY InitIInv DEF RecorderInit, IInv
<1>2. rows = <<>> /\ rows \in Seq(Row) /\ Len(rows) = 0 /\ DOMAIN rows = {} /\ 1..Len(rows) = {}
  BY EmptySeq DEF RecorderInit
<1>3. RecorderTypeOK
  <2>1. life \in 1..MaxLives /\ server \in 0..life /\ nextSeq \in 0..MaxSeq + 1 /\ run \in 1..MaxRuns
    BY RecorderBoundsAssumption, BoundsAssumption DEF RecorderInit
  <2>2. QED BY <1>1, <1>2, <2>1, Zenon DEF RecorderInit, RecorderTypeOK
<1>4. Processes /\ ToCome /\ LastTold
  BY NoneAssumption DEF RecorderInit, Processes, ToCome, LastTold
<1>5. SoFar /\ LastSaid
  BY <1>2 DEF SoFar, LastSaid
<1>6. RowsAreTheStream
  <2>1. 1..Len(rows) - 1 = {}
    BY <1>2
  <2>2. QED BY <1>2, <2>1, Zenon DEF RowsAreTheStream, HolesAreMeasured, NothingTwice
<1>7. OutagesAreRows
  BY <1>2 DEF OutagesAreRows
<1>8. QED BY <1>1, <1>3, <1>4, <1>5, <1>6, <1>7 DEF RecorderIInv

\* A step that neither process of the collector's takes part in.
LEMMA QuietKeeps ==
    ASSUME RecorderIInv, IInv', UNCHANGED <<gateway, collector, rows>>, seq <= seq',
           conn # None => /\ UNCHANGED <<wire[conn], pos[conn], gone[conn]>>
                          /\ Subscribed(conn)' <=> Subscribed(conn),
           ~up => \A r \in Readers : ~Subscribed(r)'
    PROVE  RecorderIInv'
<1>1. TypeOK' /\ Accounting'
  BY DEF IInv
<1>2. UNCHANGED <<life, up, conn, server, accepted, nextSeq, reportedDown, run, rows>>
  BY DEF gateway, collector
<1>3. conn # None => (Subscribed(conn)' <=> Subscribed(conn)) /\ From' = From
  BY <1>2 DEF Subscribed, From
<1>4. RecorderTypeOK'
  BY <1>1, <1>2, <1>3 DEF RecorderIInv, RecorderTypeOK
<1>5. Processes'
  BY <1>2, <1>3 DEF RecorderIInv, Processes
<1>6. seq \in Nat /\ seq' \in Nat
  BY <1>1, BoundsAssumption DEF RecorderIInv, RecorderTypeOK, TypeOK
<1>7. ToCome'
  <2>1. SUFFICES ASSUME conn # None
                 PROVE  /\ Chained(wire[conn], From)'
                        /\ (Subscribed(conn) => pos[conn] = EndOf(wire[conn], From))'
                        /\ (up /\ server = life => \A k \in 1..Len(wire[conn]) : wire[conn][k].seq <= seq)'
    BY <1>2 DEF ToCome
  <2>2. Chained(wire[conn], From)' /\ (Subscribed(conn) => pos[conn] = EndOf(wire[conn], From))'
    BY <1>2, <1>3, <2>1 DEF RecorderIInv, ToCome, Chained, EndOf
  <2>3. ASSUME up, server = life, NEW k \in 1..Len(wire[conn]) PROVE wire[conn][k].seq <= seq'
    <3>1. wire[conn][k].seq <= seq
      BY <2>1, <2>3 DEF RecorderIInv, ToCome
    <3>2. wire[conn][k].seq \in 1..MaxSeq
      BY <2>1 DEF RecorderIInv, ToCome, Chained
    <3>3. QED BY <1>6, <3>1, <3>2, BoundsAssumption
  <2>4. QED BY <1>2, <2>1, <2>2, <2>3
<1>8. SoFar'
  <2>1. SUFFICES ASSUME NEW i \in 1..Len(rows)
                 PROVE  (/\ rows[i].run <= run
                         /\ Told(i) =>
                                /\ rows[i].life <= life
                                /\ up /\ rows[i].life = life => rows[i].seq <= seq
                                /\ conn # None => rows[i].life <= server
                                /\ Flowing /\ rows[i].life = server => rows[i].seq <= From)'
    BY <1>2 DEF SoFar
  <2>2. rows[i] \in Row
    BY ElementOfSeq DEF RecorderIInv, RecorderTypeOK
  <2>3. rows[i].seq \in Nat
    BY <2>2 DEF Row
  <2>4. (Flowing' => Flowing) /\ (Flowing => From' = From) /\ (Told(i)' <=> Told(i))
    BY <1>2, <1>3 DEF Flowing, Told
  <2>5. QED BY <1>2, <1>6, <2>3, <2>4 DEF RecorderIInv, SoFar
<1>9. LastTold' /\ LastSaid'
  BY <1>2 DEF RecorderIInv, LastTold, LastSaid, Latest, Told
<1>10. RowsAreTheStream' /\ OutagesAreRows'
  BY <1>2, RowsFrame DEF RecorderIInv
<1>11. QED BY <1>1, <1>4, <1>5, <1>7, <1>8, <1>9, <1>10 DEF RecorderIInv

\* What a line handed to a reader that is still there looks like.
LEMMA HandLine ==
    ASSUME IInv, NEW r \in Readers, Hand(r), ~gone[r]
    PROVE  /\ Subscribed(r) /\ Subscribed(r)' /\ seq' = seq /\ gone' = gone
           /\ \A x \in Readers \ {r} : UNCHANGED <<wire[x], pos[x], phase[x]>>
           /\ \E line \in Line :
                  /\ line.seq \in 1..MaxSeq /\ line.count \in 1..line.seq
                  /\ line.kind = "event" => line.count = 1
                  /\ line.seq = pos[r] + line.count /\ line.seq <= seq
                  /\ wire'[r] = Append(wire[r], line) /\ pos'[r] = line.seq
<1> USE QueueLimitAssumption, BoundsAssumption
<1>1. /\ seq \in 0..MaxSeq /\ pos[r] \in 0..MaxSeq /\ lostCount[r] \in Nat /\ lost[r] \in 0..MaxSeq
      /\ wire \in [Readers -> Seq(Line)] /\ pos \in [Readers -> 0..MaxSeq]
      /\ phase \in [Readers -> {"off", "waiting", "draining"}]
  BY DEF IInv, TypeOK
<1>2. CASE NextDropped(r)
  <2>1. /\ phase[r] = "waiting" /\ lost[r] # 0
        /\ Write(r, DroppedLine(lost[r], lostCount[r])) /\ seq' = seq /\ gone' = gone
    BY <1>2 DEF NextDropped, TakeLoss
  <2>2. Subscribed(r) /\ Accounted(r)
    BY <2>1 DEF Subscribed, IInv, Accounting
  <2>3. lost[r] = pos[r] + lostCount[r] /\ lostCount[r] # 0 /\ lost[r] <= seq
    BY <1>1, <2>1, <2>2 DEF Accounted, Tiles
  <2> DEFINE line == DroppedLine(lost[r], lostCount[r])
  <2>4. line \in Line /\ line.seq = lost[r] /\ line.count = lostCount[r] /\ line.kind = "dropped"
    BY <1>1 DEF DroppedLine, Line
  <2> HIDE DEF line
  <2>5. /\ wire'[r] = Append(wire[r], line) /\ pos'[r] = line.seq /\ Subscribed(r)'
        /\ \A x \in Readers \ {r} : UNCHANGED <<wire[x], pos[x], phase[x]>>
    BY <1>1, <2>1 DEF Write, Subscribed, line
  <2>6. line.seq \in 1..MaxSeq /\ line.count \in 1..line.seq
    BY <1>1, <2>1, <2>3, <2>4
  <2>7. QED BY <2>1, <2>2, <2>3, <2>4, <2>5, <2>6
<1>3. CASE NextEvent(r)
  <2>1. /\ phase[r] = "waiting"
        /\ Write(r, EventLine(Head(queue[r]))) /\ seq' = seq /\ gone' = gone
    BY <1>3 DEF NextEvent
  <2>2. Subscribed(r) /\ pos[r] < seq /\ pos'[r] = pos[r] + 1
    BY <1>3, EventFollows
  <2> DEFINE line == EventLine(Head(queue[r]))
  <2>3. pos'[r] = line.seq /\ line.seq = Head(queue[r]) /\ line.count = 1 /\ line.kind = "event"
    BY <1>1, <2>1 DEF Write, EventLine
  <2>4. line.seq = pos[r] + 1
    BY <2>2, <2>3
  <2>5. line.seq \in 1..MaxSeq /\ line.count \in 1..line.seq /\ line.seq <= seq
    BY <1>1, <2>2, <2>3, <2>4
  <2>6. line \in Line
    BY <2>3, <2>5 DEF EventLine, Line
  <2> HIDE DEF line
  <2>7. /\ wire'[r] = Append(wire[r], line) /\ Subscribed(r)'
        /\ \A x \in Readers \ {r} : UNCHANGED <<wire[x], pos[x], phase[x]>>
    BY <1>1, <2>1 DEF Write, Subscribed, line
  <2>8. line.seq = pos[r] + line.count
    BY <2>3, <2>4
  <2>9. QED BY <2>1, <2>2, <2>3, <2>5, <2>6, <2>7, <2>8
<1>4. QED BY <1>2, <1>3 DEF Hand

\* A line for the collector: it goes on from the others.
LEMMA HandKeeps ==
    ASSUME RecorderIInv, IInv', UNCHANGED <<gateway, collector, rows>>,
           conn # None, Hand(conn)
    PROVE  RecorderIInv'
<1>0. TypeOK' /\ Accounting'
  BY DEF IInv
<1>1. UNCHANGED <<life, up, conn, server, accepted, nextSeq, reportedDown, run, rows>>
  BY DEF gateway, collector
<1>2. /\ conn \in Readers /\ ~gone[conn] /\ IInv
      /\ wire[conn] \in Seq(Line) /\ pos[conn] \in Nat /\ From \in Nat /\ nextSeq \in Nat
  BY RecorderTypes, BoundsAssumption
<1>3. /\ Subscribed(conn) /\ Subscribed(conn)' /\ seq' = seq /\ gone' = gone
  <2>1. Subscribed(conn) /\ phase'[conn] # "off" /\ seq' = seq /\ gone' = gone
    BY <1>2, HandLine DEF Subscribed
  <2>2. QED BY <1>1, <2>1 DEF Subscribed
<1>4. PICK line \in Line :
          /\ line.seq \in 1..MaxSeq /\ line.count \in 1..line.seq
          /\ line.kind = "event" => line.count = 1
          /\ line.seq = pos[conn] + line.count /\ line.seq <= seq
          /\ wire'[conn] = Append(wire[conn], line) /\ pos'[conn] = line.seq
  BY <1>2, HandLine
<1>5. Chained(wire[conn], From) /\ pos[conn] = EndOf(wire[conn], From)
  BY <1>3 DEF RecorderIInv, ToCome
<1>6. /\ Append(wire[conn], line) # <<>> /\ Append(wire[conn], line) \in Seq(Line)
      /\ Append(wire[conn], line)[1] = IF wire[conn] = <<>> THEN line ELSE wire[conn][1]
      /\ Chained(Append(wire[conn], line), From)
      /\ EndOf(Append(wire[conn], line), From) = line.seq
  BY <1>2, <1>4, <1>5, ChainedAppend
<1>7. From' = From
  <2>1. From' = Before(nextSeq, Append(wire[conn], line), line.seq)
    BY <1>1, <1>4 DEF From
  <2>2. CASE nextSeq # 0
    BY <2>1, <2>2 DEF Before, From
  <2>3. CASE nextSeq = 0 /\ wire[conn] # <<>>
    BY <2>1, <2>3, <1>6 DEF Before, From
  <2>4. CASE nextSeq = 0 /\ wire[conn] = <<>>
    <3>1. From = pos[conn]
      BY <2>4 DEF Before, From
    <3>2. From' = line.seq - line.count
      BY <2>1, <2>4, <1>6 DEF Before
    <3>3. line.seq \in Nat /\ line.count \in Nat
      BY <1>4, BoundsAssumption
    <3>4. QED BY <1>2, <1>4, <3>1, <3>2, <3>3
  <2>5. QED BY <2>2, <2>3, <2>4
<1>8. RecorderTypeOK'
  BY <1>0, <1>1, <1>3 DEF RecorderIInv, RecorderTypeOK
<1>9. Processes'
  <2>1. accepted /\ up
    BY <1>1, <1>2, <1>3 DEF RecorderIInv, Processes
  <2>2. QED BY <1>1, <1>3, <2>1 DEF RecorderIInv, Processes
<1>10. ToCome'
  <2>1. Chained(wire[conn], From)' /\ (pos[conn] = EndOf(wire[conn], From))'
    BY <1>1, <1>4, <1>6, <1>7 DEF Chained, EndOf
  <2>2. ASSUME up, server = life, NEW k \in 1..Len(Append(wire[conn], line))
        PROVE  Append(wire[conn], line)[k].seq <= seq
    <3>1. /\ Len(wire[conn]) \in Nat /\ Len(Append(wire[conn], line)) = Len(wire[conn]) + 1
          /\ \A i \in 1..Len(wire[conn]) : Append(wire[conn], line)[i] = wire[conn][i]
          /\ Append(wire[conn], line)[Len(wire[conn]) + 1] = line
      BY <1>2, AppendProperties, LenProperties
    <3>2. CASE k \in 1..Len(wire[conn])
      BY <2>2, <3>1, <3>2 DEF RecorderIInv, ToCome
    <3>3. CASE k = Len(wire[conn]) + 1
      BY <1>4, <3>1, <3>3
    <3>4. QED BY <3>1, <3>2, <3>3
  <2>3. QED BY <1>1, <1>3, <1>4, <2>1, <2>2 DEF ToCome
<1>11. SoFar'
  BY <1>1, <1>3, <1>7 DEF RecorderIInv, SoFar, Flowing, Told
<1>12. LastTold' /\ LastSaid'
  BY <1>1 DEF RecorderIInv, LastTold, LastSaid, Latest, Told
<1>13. RowsAreTheStream' /\ OutagesAreRows'
  BY <1>1, RowsFrame DEF RecorderIInv
<1>14. QED BY <1>0, <1>8, <1>9, <1>10, <1>11, <1>12, <1>13 DEF RecorderIInv

\* The gateway's own steps: nobody's line, somebody else's or the collector's.
LEMMA GatewayEmitsKeeps == RecorderIInv /\ IInv' /\ GatewayEmits => RecorderIInv'
<1> SUFFICES ASSUME RecorderIInv, IInv', GatewayEmits PROVE RecorderIInv'
  OBVIOUS
<1>1. Emit /\ up /\ UNCHANGED <<gateway, collector, rows>>
  BY DEF GatewayEmits
<1>2. seq <= seq' /\ UNCHANGED <<phase, wire, gone, pos>>
  BY <1>1, RecorderTypes DEF Emit
<1>3. conn # None => /\ UNCHANGED <<wire[conn], pos[conn], gone[conn]>>
                     /\ Subscribed(conn)' <=> Subscribed(conn)
  BY <1>1, <1>2 DEF collector, Subscribed
<1>4. QED BY <1>1, <1>2, <1>3, QuietKeeps

LEMMA GatewayServesKeeps == RecorderIInv /\ IInv' /\ GatewayServes => RecorderIInv'
<1> SUFFICES ASSUME RecorderIInv, IInv', GatewayServes PROVE RecorderIInv'
  OBVIOUS
<1>1. PICK r \in Readers : Hand(r) \/ Drained(r) \/ Unsubscribe(r)
  BY DEF GatewayServes
<1>2. UNCHANGED <<gateway, collector, rows>> /\ conn' = conn
  BY DEF GatewayServes, collector
<1>3. /\ wire \in [Readers -> Seq(Line)] /\ pos \in [Readers -> 0..MaxSeq]
      /\ phase \in [Readers -> {"off", "waiting", "draining"}]
      /\ conn # None => conn \in Readers /\ ~gone[conn]
      /\ seq \in Nat
  BY RecorderTypes DEF RecorderIInv, RecorderTypeOK, TypeOK
<1>4. /\ Subscribed(r) /\ seq' = seq /\ gone' = gone
      /\ \A x \in Readers \ {r} : UNCHANGED <<wire[x], pos[x], phase[x]>>
  BY <1>1, <1>3 DEF Hand, NextDropped, NextEvent, TakeLoss, Write,
                   Drained, Unsubscribe, HangupSeen, Subscribed
<1>5. up
  BY <1>4 DEF RecorderIInv, Processes
<1>6. CASE Hand(r) /\ r = conn
  BY <1>2, <1>3, <1>6, HandKeeps, NoneAssumption
<1>7. CASE ~(Hand(r) /\ r = conn)
  <2>1. ASSUME conn # None PROVE UNCHANGED <<wire[conn], pos[conn], gone[conn]>>
    BY <1>1, <1>2, <1>3, <1>4, <1>7, <2>1 DEF Drained, Unsubscribe
  <2>2. ASSUME conn # None PROVE Subscribed(conn)' <=> Subscribed(conn)
    <3>1. CASE r # conn
      BY <1>2, <1>3, <1>4, <2>2, <3>1 DEF Subscribed
    <3>2. CASE r = conn
      <4>1. Drained(r)
        BY <1>1, <1>3, <1>7, <2>2, <3>2 DEF Unsubscribe
      <4>2. QED BY <1>2, <1>3, <2>2, <3>2, <4>1 DEF Drained, Subscribed
    <3>3. QED BY <3>1, <3>2
  <2>3. QED BY <1>2, <1>3, <1>4, <1>5, <2>1, <2>2, QuietKeeps
<1>8. QED BY <1>6, <1>7

\* The gateway stops: what is on the collector's socket is cut short.
LEMMA GatewayStopsKeeps == RecorderIInv /\ IInv' /\ GatewayStops => RecorderIInv'
<1> SUFFICES ASSUME RecorderIInv, IInv', GatewayStops PROVE RecorderIInv'
  OBVIOUS
<1>0. TypeOK' /\ Accounting'
  BY DEF IInv
<1>1. /\ UNCHANGED <<life, conn, server, accepted, nextSeq, reportedDown, run, rows, gone, pos>>
      /\ up' = FALSE
  BY DEF GatewayStops, Restart, collector
<1>2. \A r \in Readers : ~Subscribed(r)'
  BY DEF GatewayStops, Restart, Subscribed
<1>3. conn # None => ~Subscribed(conn)'
  BY <1>1, <1>2, RecorderTypes
<1>4. PICK n \in [Readers -> 0..HighWater + 1] : wire' = [r \in Readers |-> Kept(r, n[r])]
  BY DEF GatewayStops, Restart
<1>5. ASSUME conn # None
      PROVE  /\ wire'[conn] # <<>> => wire[conn] # <<>> /\ wire'[conn][1] = wire[conn][1]
             /\ wire[conn] = <<>> => wire'[conn] = <<>>
             /\ Chained(wire'[conn], From)
  <2>1. conn \in Readers /\ wire[conn] \in Seq(Line) /\ From \in Nat /\ Chained(wire[conn], From)
    BY <1>5, RecorderTypes DEF RecorderIInv, ToCome
  <2>2. Len(wire[conn]) \in Nat /\ n[conn] \in Nat
    BY <1>4, <2>1, LenProperties, BoundsAssumption
  <2> DEFINE m == IF n[conn] < Len(wire[conn]) THEN n[conn] ELSE Len(wire[conn])
  <2>3. m \in 0..Len(wire[conn])
    BY <2>2
  <2>4. wire'[conn] = SubSeq(wire[conn], 1, m)
    BY <1>4, <2>1 DEF Kept
  <2> HIDE DEF m
  <2>5. QED BY <2>1, <2>3, <2>4, ChainedPrefix
<1>6. ASSUME Flowing' PROVE conn # None /\ Flowing /\ From' = From
  <2>1. conn # None /\ wire'[conn] # <<>>
    BY <1>1, <1>3, <1>6 DEF Flowing
  <2>2. wire[conn] # <<>> /\ wire'[conn][1] = wire[conn][1]
    BY <1>5, <2>1
  <2>3. QED BY <1>1, <2>1, <2>2 DEF Flowing, From, Before
<1>7. RecorderTypeOK'
  BY <1>0, <1>1, <1>3 DEF RecorderIInv, RecorderTypeOK
<1>8. Processes'
  <2>1. conn # None /\ ~accepted => wire'[conn] = <<>>
    BY <1>5 DEF RecorderIInv, Processes
  <2>2. QED BY <1>1, <1>2, <1>3, <2>1 DEF RecorderIInv, Processes
<1>9. ToCome'
  <2>1. ASSUME conn # None PROVE Chained(wire[conn], From)'
    <3>1. CASE wire'[conn] = <<>>
      BY <1>1, <3>1, EmptySeq DEF Chained
    <3>2. CASE wire'[conn] # <<>>
      <4>1. From' = From
        BY <1>1, <1>6, <2>1, <3>2 DEF Flowing
      <4>2. QED BY <1>1, <1>5, <2>1, <4>1 DEF Chained
    <3>3. QED BY <3>1, <3>2
  <2>2. QED BY <1>1, <1>3, <2>1 DEF ToCome
<1>10. SoFar'
  BY <1>1, <1>6 DEF RecorderIInv, SoFar, Told
<1>11. LastTold' /\ LastSaid'
  BY <1>1 DEF RecorderIInv, LastTold, LastSaid, Latest, Told
<1>12. RowsAreTheStream' /\ OutagesAreRows'
  BY <1>1, RowsFrame DEF RecorderIInv
<1>13. QED BY <1>0, <1>7, <1>8, <1>9, <1>10, <1>11, <1>12 DEF RecorderIInv

\* A gateway that starts is a process of its own, which nobody is connected to.
LEMMA GatewayStartsKeeps == RecorderIInv /\ IInv' /\ GatewayStarts => RecorderIInv'
<1> SUFFICES ASSUME RecorderIInv, IInv', GatewayStarts PROVE RecorderIInv'
  OBVIOUS
<1>0. TypeOK' /\ Accounting'
  BY DEF IInv
<1>1. /\ UNCHANGED <<seq, phase, queue, lost, lostCount, wire, gone, pos,
                     conn, server, accepted, nextSeq, reportedDown, run, rows>>
      /\ ~up /\ up' = TRUE /\ life < MaxLives /\ life' = life + 1
  BY DEF GatewayStarts, vars, collector
<1>2. /\ \A r \in Readers : ~Subscribed(r) /\ ~Subscribed(r)'
      /\ conn # None => ~Subscribed(conn) /\ ~Subscribed(conn)'
  BY <1>1, RecorderTypes DEF RecorderIInv, Processes, Subscribed
<1>3. life \in Nat /\ server \in 0..life /\ life' \in 1..MaxLives /\ server \in 0..life' /\ server # life'
  BY <1>1, RecorderTypes, RecorderBoundsAssumption
<1>4. RecorderTypeOK'
  BY <1>0, <1>1, <1>2, <1>3, Zenon DEF RecorderIInv, RecorderTypeOK
<1>5. Processes'
  BY <1>1, <1>2, <1>3 DEF RecorderIInv, Processes
<1>6. From' = From /\ Flowing' = Flowing
  BY <1>1 DEF From, Flowing, Subscribed
<1>7. ToCome'
  BY <1>1, <1>2, <1>3, <1>6 DEF RecorderIInv, ToCome, Chained
<1>8. SoFar'
  <2>1. SUFFICES ASSUME NEW i \in 1..Len(rows), Told(i)
                 PROVE  rows[i].life <= life' /\ rows[i].life # life'
    BY <1>1, <1>6 DEF RecorderIInv, SoFar, Told
  <2>2. rows[i] \in Row /\ rows[i].life <= life
    BY <2>1, RecorderTypes, ElementOfSeq DEF RecorderIInv, SoFar
  <2>3. rows[i].life \in Nat
    BY <2>2 DEF Row
  <2>4. QED BY <1>1, <1>3, <2>2, <2>3
<1>9. LastTold' /\ LastSaid'
  BY <1>1 DEF RecorderIInv, LastTold, LastSaid, Latest, Told
<1>10. RowsAreTheStream' /\ OutagesAreRows'
  BY <1>1, RowsFrame DEF RecorderIInv
<1>11. QED BY <1>0, <1>4, <1>5, <1>7, <1>8, <1>9, <1>10 DEF RecorderIInv

\* The collector's connection is taken in: it is told of what comes from now on.
LEMMA GatewayAcceptsKeeps == RecorderIInv /\ IInv' /\ GatewayAccepts => RecorderIInv'
<1> SUFFICES ASSUME RecorderIInv, IInv', GatewayAccepts PROVE RecorderIInv'
  OBVIOUS
<1>0. TypeOK' /\ Accounting'
  BY DEF IInv
<1>1. /\ up /\ conn # None /\ server = life /\ ~accepted /\ accepted' = TRUE
      /\ UNCHANGED <<seq, life, up, conn, server, nextSeq, reportedDown, run, rows>>
  BY DEF GatewayAccepts, Subscribe, gateway
<1>2. conn \in Readers /\ nextSeq = 0 /\ server # 0 /\ ~reportedDown
  BY <1>1, RecorderTypes DEF RecorderIInv, Processes
<1>3. wire'[conn] = <<>> /\ pos'[conn] = seq /\ gone'[conn] = FALSE /\ phase'[conn] = "waiting"
  BY <1>2 DEF GatewayAccepts, Subscribe, RecorderIInv, RecorderTypeOK, TypeOK
<1>4. Subscribed(conn)' /\ From' = seq
  BY <1>1, <1>2, <1>3 DEF Subscribed, From, Before
<1>5. RecorderTypeOK'
  BY <1>0, <1>1, <1>3 DEF RecorderIInv, RecorderTypeOK
<1>6. Processes'
  BY <1>1, <1>2, <1>4 DEF Processes
<1>7. ToCome'
  BY <1>1, <1>3, <1>4, EmptySeq DEF ToCome, Chained, EndOf
<1>8. SoFar'
  BY <1>1, <1>4 DEF RecorderIInv, SoFar, Told
<1>9. LastTold' /\ LastSaid'
  BY <1>1 DEF RecorderIInv, LastTold, LastSaid, Latest, Told
<1>10. RowsAreTheStream' /\ OutagesAreRows'
  BY <1>1, RowsFrame DEF RecorderIInv
<1>11. QED BY <1>0, <1>5, <1>6, <1>7, <1>8, <1>9, <1>10 DEF RecorderIInv

\* What a row of the connection's own leaves of the rows' part of the invariant:
\* the outage is not said twice, and the rest is as it was.
LEMMA OwnRowKeeps ==
    ASSUME RecorderIInv, NEW kind \in {"connected", "disconnected"},
           rows' = Append(rows, OwnRow(kind)), UNCHANGED <<run, life, up, seq>>,
           kind = "connected" => conn = None /\ conn' # None,
           kind = "disconnected" => ~reportedDown /\ conn' = None /\ reportedDown',
           conn' # None => server' = life /\ ~Flowing'
    PROVE  /\ rows' \in Seq(Row)
           /\ SoFar' /\ LastTold' /\ LastSaid'
           /\ RowsAreTheStream' /\ OutagesAreRows'
<1> DEFINE row == OwnRow(kind)
<1>1. row \in Row /\ row.kind = kind /\ row.run = run /\ rows \in Seq(Row) /\ run \in Nat
  BY RecorderTypes DEF OwnRow, Row
<1> HIDE DEF row
<1>2. rows' = Append(rows, row)
  BY DEF row
<1>3. /\ rows' \in Seq(Row) /\ rows' # <<>>
      /\ Len(rows) \in Nat /\ Len(rows') = Len(rows) + 1
      /\ \A i \in 1..Len(rows) : rows'[i] = rows[i] /\ (Told(i)' <=> Told(i))
      /\ rows'[Len(rows')] = row
      /\ \A i \in 1..Len(rows') :
             (i \in 1..Len(rows) \/ i = Len(rows'))
             /\ (i = Len(rows') => (Told(i)' <=> row.kind \in {"event", "dropped"}))
  BY <1>1, <1>2, RowAppended
<1>4. Len(rows') \in 1..Len(rows')
  BY <1>3
<1>5. row.kind \notin {"event", "dropped"}
  BY <1>1
<1>6. SoFar'
  <2>1. SUFFICES ASSUME NEW i \in 1..Len(rows')
                 PROVE  (/\ rows[i].run <= run
                         /\ Told(i) =>
                                /\ rows[i].life <= life
                                /\ up /\ rows[i].life = life => rows[i].seq <= seq
                                /\ conn # None => rows[i].life <= server
                                /\ Flowing /\ rows[i].life = server => rows[i].seq <= From)'
    BY DEF SoFar
  <2>2. CASE i = Len(rows')
    BY <1>1, <1>3, <1>5, <2>2
  <2>3. CASE i \in 1..Len(rows)
    <3>1. rows'[i] = rows[i] /\ (Told(i)' <=> Told(i))
      BY <1>3, <2>3
    <3>2. QED BY <2>3, <3>1 DEF RecorderIInv, SoFar, Flowing
  <2>4. QED BY <1>3, <2>2, <2>3
<1>7. LastTold'
  <2>1. rows'[Len(rows')].kind \notin {"event", "dropped"}
    BY <1>3, <1>5
  <2>2. QED BY <2>1 DEF LastTold, Told
<1>8. LastSaid'
  <2>1. SUFFICES ASSUME NEW i \in 1..Len(rows'), Latest(i)'
                 PROVE  /\ rows'[i].kind = "connected" => conn' # None
                        /\ rows'[i].kind = "disconnected" => conn' = None /\ reportedDown'
    BY DEF LastSaid
  <2>2. i = Len(rows')
    <3>1. SUFFICES ASSUME i \in 1..Len(rows) PROVE FALSE
      BY <1>3
    <3>2. Len(rows') \in i + 1..Len(rows')
      BY <1>3, <3>1
    <3>3. rows'[Len(rows')].kind \in {"event", "dropped"}
      BY <2>1, <3>2 DEF Latest, Told
    <3>4. QED BY <1>3, <1>5, <3>3
  <2>3. QED BY <1>1, <1>3, <2>2
<1>9. RowsAreTheStream'
  BY <1>1, <1>2, OwnRowKeepsStream DEF RecorderIInv
<1>10. OutagesAreRows'
  <2>1. \A i \in 1..Len(rows) : Latest(i) => rows[i].kind # row.kind
    BY <1>1 DEF RecorderIInv, LastSaid
  <2>2. QED BY <1>1, <1>2, <2>1, OwnRowKeepsOutages DEF RecorderIInv
<1>11. QED BY <1>3, <1>6, <1>7, <1>8, <1>9, <1>10

\* A new connection, to the process that is listening.
LEMMA ConnectKeeps == RecorderIInv /\ IInv' /\ Connect => RecorderIInv'
<1> SUFFICES ASSUME RecorderIInv, IInv', Connect PROVE RecorderIInv'
  OBVIOUS
<1>0. TypeOK' /\ Accounting'
  BY DEF IInv
<1>1. /\ up /\ conn = None /\ server' = life /\ accepted' = FALSE /\ nextSeq' = 0 /\ reportedDown' = FALSE
      /\ rows' = Append(rows, OwnRow("connected"))
      /\ UNCHANGED <<seq, phase, pos, life, up, run>>
  BY DEF Connect, NumberingStartsOver, gateway
<1>2. conn' \in Readers /\ ~Subscribed(conn') /\ conn' # None
  BY ConnectPicks, NoneAssumption
<1>3. wire'[conn'] = <<>> /\ gone'[conn'] = FALSE
  BY <1>2 DEF Connect, RecorderIInv, RecorderTypeOK, TypeOK
<1>4. ~Subscribed(conn)' /\ ~Flowing'
  BY <1>1, <1>2, <1>3 DEF Subscribed, Flowing
<1>5. /\ rows' \in Seq(Row)
      /\ SoFar' /\ LastTold' /\ LastSaid'
      /\ RowsAreTheStream' /\ OutagesAreRows'
  BY <1>1, <1>2, <1>4, OwnRowKeeps
<1>6. life \in 1..MaxLives /\ server' \in 0..life' /\ nextSeq' \in 0..MaxSeq + 1 /\ server' # 0
  BY <1>1, RecorderTypes, BoundsAssumption DEF RecorderIInv, RecorderTypeOK
<1>7. RecorderTypeOK'
  BY <1>0, <1>1, <1>2, <1>3, <1>4, <1>5, <1>6, Zenon DEF RecorderIInv, RecorderTypeOK
<1>8. Processes'
  BY <1>1, <1>3, <1>4, <1>6 DEF RecorderIInv, Processes, Subscribed
<1>9. ToCome'
  BY <1>1, <1>3, <1>4, EmptySeq DEF ToCome, Chained
<1>10. QED BY <1>0, <1>5, <1>7, <1>8, <1>9 DEF RecorderIInv

\* A lost stream is said, once: the rows after _down.
LEMMA DownRows ==
    ASSUME RecorderIInv, Down, conn' = None, UNCHANGED <<run, life, up, seq>>
    PROVE  /\ rows' \in Seq(Row) /\ reportedDown' = TRUE
           /\ SoFar' /\ LastTold' /\ LastSaid'
           /\ RowsAreTheStream' /\ OutagesAreRows'
<1>1. reportedDown' = TRUE
  BY DEF Down
<1>2. CASE ~reportedDown
  <2>1. rows' = Append(rows, OwnRow("disconnected"))
    BY <1>2 DEF Down, SaidOnce
  <2>2. QED BY <1>1, <1>2, <2>1, OwnRowKeeps
<1>3. CASE reportedDown
  <2>1. rows' = rows /\ conn = None
    BY <1>3 DEF Down, SaidOnce, RecorderIInv, Processes
  <2>2. RowsAreTheStream' /\ OutagesAreRows'
    BY <2>1, RowsFrame DEF RecorderIInv
  <2>3. SoFar' /\ LastTold' /\ LastSaid'
    BY <1>1, <2>1 DEF RecorderIInv, SoFar, LastTold, LastSaid, Latest, Told, Flowing
  <2>4. QED BY <1>1, <2>1, <2>2, <2>3, RecorderTypes
<1>4. QED BY <1>2, <1>3

LEMMA ConnectFailsKeeps == RecorderIInv /\ IInv' /\ ConnectFails => RecorderIInv'
<1> SUFFICES ASSUME RecorderIInv, IInv', ConnectFails PROVE RecorderIInv'
  OBVIOUS
<1>0. TypeOK' /\ Accounting'
  BY DEF IInv
<1>1. /\ ~up /\ conn = None /\ conn' = None /\ Down
      /\ UNCHANGED <<seq, phase, life, up, server, accepted, nextSeq, run>>
  BY DEF ConnectFails, vars, gateway
<1>2. /\ rows' \in Seq(Row) /\ reportedDown' = TRUE
      /\ SoFar' /\ LastTold' /\ LastSaid'
      /\ RowsAreTheStream' /\ OutagesAreRows'
  BY <1>1, DownRows
<1>3. RecorderTypeOK'
  BY <1>0, <1>1, <1>2 DEF RecorderIInv, RecorderTypeOK
<1>4. Processes' /\ ToCome'
  BY <1>1 DEF RecorderIInv, Processes, ToCome, Subscribed
<1>5. QED BY <1>0, <1>2, <1>3, <1>4 DEF RecorderIInv

LEMMA StreamEndsKeeps == RecorderIInv /\ IInv' /\ StreamEnds => RecorderIInv'
<1> SUFFICES ASSUME RecorderIInv, IInv', StreamEnds PROVE RecorderIInv'
  OBVIOUS
<1>0. TypeOK' /\ Accounting'
  BY DEF IInv
<1>1. /\ conn' = None /\ Down
      /\ UNCHANGED <<seq, phase, life, up, server, accepted, nextSeq, run>>
  BY DEF StreamEnds, Close, gateway
<1>2. /\ rows' \in Seq(Row) /\ reportedDown' = TRUE
      /\ SoFar' /\ LastTold' /\ LastSaid'
      /\ RowsAreTheStream' /\ OutagesAreRows'
  BY <1>1, DownRows
<1>3. RecorderTypeOK'
  BY <1>0, <1>1, <1>2 DEF RecorderIInv, RecorderTypeOK
<1>4. Processes' /\ ToCome'
  BY <1>1 DEF RecorderIInv, Processes, ToCome, Subscribed
<1>5. QED BY <1>0, <1>2, <1>3, <1>4 DEF RecorderIInv

\* Another run of the collector starts with nothing said and nothing connected.
LEMMA CollectorRestartsKeeps == RecorderIInv /\ IInv' /\ CollectorRestarts => RecorderIInv'
<1> SUFFICES ASSUME RecorderIInv, IInv', CollectorRestarts PROVE RecorderIInv'
  OBVIOUS
<1>0. TypeOK' /\ Accounting'
  BY DEF IInv
<1>1. /\ run < MaxRuns /\ run' = run + 1 /\ conn' = None /\ server' = 0 /\ accepted' = FALSE
      /\ nextSeq' = 0 /\ reportedDown' = FALSE
      /\ UNCHANGED <<life, up, rows>>
  BY DEF CollectorRestarts, gateway
<1>2. UNCHANGED <<seq, phase>>
  BY DEF CollectorRestarts, HangUp, vars
<1>3. run \in Nat /\ run' \in 1..MaxRuns /\ server' \in 0..life' /\ nextSeq' \in 0..MaxSeq + 1
  BY <1>1, RecorderTypes, RecorderBoundsAssumption, BoundsAssumption
<1>4. RecorderTypeOK'
  BY <1>0, <1>1, <1>3, Zenon DEF RecorderIInv, RecorderTypeOK
<1>5. Processes' /\ ToCome' /\ LastTold'
  BY <1>1, <1>2 DEF RecorderIInv, Processes, ToCome, LastTold, Subscribed
<1>6. ASSUME NEW i \in 1..Len(rows) PROVE rows[i].run \in Nat /\ rows[i].run <= run
  <2>1. rows[i] \in Row
    BY RecorderTypes, ElementOfSeq
  <2>2. rows[i].run \in Nat
    BY <2>1 DEF Row
  <2>3. rows[i].run <= run
    BY DEF RecorderIInv, SoFar
  <2>4. QED BY <2>2, <2>3
<1>7. SoFar'
  <2>1. \A i \in 1..Len(rows) : rows[i].run <= run'
    BY <1>1, <1>3, <1>6
  <2>2. QED BY <1>1, <1>2, <2>1 DEF RecorderIInv, SoFar, Told, Flowing
<1>8. LastSaid'
  <2>1. \A i \in 1..Len(rows) : rows[i].run # run'
    BY <1>1, <1>3, <1>6
  <2>2. QED BY <1>1, <2>1 DEF LastSaid, Latest
<1>9. RowsAreTheStream' /\ OutagesAreRows'
  BY <1>1, RowsFrame DEF RecorderIInv
<1>10. QED BY <1>0, <1>4, <1>5, <1>7, <1>8, <1>9 DEF RecorderIInv

\* The next line on the collector's socket leaves one row, its own: the
\* numbering never asks for another.
LEMMA RecordsTheLine ==
    ASSUME RecorderIInv, conn # None, wire[conn] # <<>>
    PROVE  LET line == Head(wire[conn])
               row == StreamRow(line.kind, line.seq, line.count)
           IN  /\ line.seq \in 1..MaxSeq /\ line.count \in 1..line.seq
               /\ line.seq = From + line.count
               /\ Tail(wire[conn]) \in Seq(Line)
               /\ Chained(Tail(wire[conn]), line.seq)
               /\ EndOf(Tail(wire[conn]), line.seq) = EndOf(wire[conn], From)
               /\ \A k \in 1..Len(Tail(wire[conn])) :
                      k + 1 \in 1..Len(wire[conn]) /\ Tail(wire[conn])[k] = wire[conn][k + 1]
               /\ up /\ server = life => line.seq <= seq
               /\ row \in Row /\ row.kind \in {"event", "dropped"}
               /\ row.life = server /\ row.seq = line.seq /\ row.count = line.count /\ row.run = run
               /\ rows \o Record(line) = Append(rows, row)
<1> DEFINE line == Head(wire[conn])
           row == StreamRow(line.kind, line.seq, line.count)
<1>1. /\ wire[conn] \in Seq(Line) /\ From \in Nat /\ Chained(wire[conn], From)
      /\ rows \in Seq(Row) /\ run \in Nat /\ server \in Nat /\ nextSeq \in Nat
  BY RecorderTypes DEF RecorderIInv, ToCome
<1>2. /\ line.seq \in 1..MaxSeq /\ line.count \in 1..line.seq
      /\ line.kind = "event" => line.count = 1
      /\ line.seq = From + line.count
      /\ Tail(wire[conn]) \in Seq(Line)
      /\ Chained(Tail(wire[conn]), line.seq)
      /\ EndOf(Tail(wire[conn]), line.seq) = EndOf(wire[conn], From)
      /\ \A k \in 1..Len(Tail(wire[conn])) :
             k + 1 \in 1..Len(wire[conn]) /\ Tail(wire[conn])[k] = wire[conn][k + 1]
  BY <1>1, ChainedTail
<1>3. line \in Line /\ line = wire[conn][1] /\ 1 \in 1..Len(wire[conn])
  BY <1>1, HeadTailProperties, EmptySeq
<1> HIDE DEF line
<1>4. line.kind \in {"event", "dropped"} /\ line.seq \in Nat /\ line.count \in Nat
  BY <1>3 DEF Line
<1>5. /\ row \in Row /\ row.kind = line.kind /\ row.life = server
      /\ row.seq = line.seq /\ row.count = line.count /\ row.run = run
  BY <1>1, <1>4 DEF StreamRow, Row
<1>6. up /\ server = life => line.seq <= seq
  BY <1>3 DEF RecorderIInv, ToCome
<1>7. rows \o Record(line) = Append(rows, row)
  <2>1. Append(rows, row) = rows \o <<row>>
    BY <1>1, <1>5, AppendIsConcat
  <2>2. CASE line.kind = "dropped"
    <3>1. Record(line) = <<row>> \o <<>>
      BY <2>2 DEF Record, AccountFor
    <3>2. <<row>> \in Seq(Row)
      BY <1>5
    <3>3. Record(line) = <<row>>
      BY <3>1, <3>2, ConcatEmptySeq
    <3>4. QED BY <2>1, <3>3
  <2>3. CASE line.kind = "event"
    <3>1. nextSeq # 0 => line.seq = nextSeq
      <4>1. nextSeq # 0 => From = nextSeq - 1
        BY DEF From, Before
      <4>2. QED BY <1>1, <1>2, <2>3, <4>1
    <3>2. row = StreamRow("event", line.seq, 1)
      BY <1>2, <2>3
    <3>3. Record(line) = <<>> \o <<row>>
      BY <2>3, <3>1, <3>2 DEF Record, AccountFor
    <3>4. <<row>> \in Seq(Row)
      BY <1>5
    <3>5. Record(line) = <<row>>
      BY <3>3, <3>4, ConcatEmptySeq
    <3>6. QED BY <2>1, <3>5
  <2>4. QED BY <1>4, <2>2, <2>3
<1>8. row.kind \in {"event", "dropped"}
  BY <1>4, <1>5
<1>9. QED BY <1>2, <1>5, <1>6, <1>7, <1>8 DEF line

LEMMA ReadKeeps == RecorderIInv /\ IInv' /\ Read => RecorderIInv'
<1> SUFFICES ASSUME RecorderIInv, IInv', Read PROVE RecorderIInv'
  OBVIOUS
<1> DEFINE line == Head(wire[conn])
           row == StreamRow(line.kind, line.seq, line.count)
<1>0. TypeOK' /\ Accounting'
  BY DEF IInv
<1>1. /\ conn # None /\ wire[conn] # <<>>
      /\ wire' = [wire EXCEPT ![conn] = Tail(@)]
      /\ rows' = rows \o Record(line) /\ nextSeq' = line.seq + 1
      /\ UNCHANGED <<seq, phase, gone, pos, life, up, conn, server, accepted, reportedDown, run>>
  BY DEF Read, ToRead, Receive, Expect, gateway
<1>2. /\ line.seq \in 1..MaxSeq /\ line.count \in 1..line.seq
      /\ line.seq = From + line.count
      /\ Tail(wire[conn]) \in Seq(Line)
      /\ Chained(Tail(wire[conn]), line.seq)
      /\ EndOf(Tail(wire[conn]), line.seq) = EndOf(wire[conn], From)
      /\ \A k \in 1..Len(Tail(wire[conn])) :
             k + 1 \in 1..Len(wire[conn]) /\ Tail(wire[conn])[k] = wire[conn][k + 1]
      /\ up /\ server = life => line.seq <= seq
  BY <1>1, RecordsTheLine
<1>3. /\ row \in Row /\ row.kind \in {"event", "dropped"}
      /\ row.life = server /\ row.seq = line.seq /\ row.count = line.count /\ row.run = run
      /\ rows \o Record(line) = Append(rows, row)
  BY <1>1, RecordsTheLine
<1> HIDE DEF line, row
<1>4. /\ conn \in Readers /\ ~gone[conn] /\ rows \in Seq(Row) /\ From \in Nat
      /\ seq \in Nat /\ life \in Nat /\ server \in 0..life /\ run \in Nat
      /\ accepted /\ ~reportedDown /\ server # 0
  BY <1>1, RecorderTypes DEF RecorderIInv, Processes
<1>5. wire'[conn] = Tail(wire[conn])
  BY <1>1, <1>4 DEF RecorderIInv, RecorderTypeOK, TypeOK
<1>6. rows' = Append(rows, row)
  BY <1>1, <1>3
<1>7. /\ rows' \in Seq(Row) /\ rows' # <<>>
      /\ Len(rows) \in Nat /\ Len(rows') = Len(rows) + 1
      /\ \A i \in 1..Len(rows) : rows'[i] = rows[i] /\ (Told(i)' <=> Told(i))
      /\ rows'[Len(rows')] = row
      /\ \A i \in 1..Len(rows') : i \in 1..Len(rows) \/ i = Len(rows')
  BY <1>3, <1>4, <1>6, RowAppended
<1>8. nextSeq' # 0 /\ nextSeq' \in 0..MaxSeq + 1 /\ From' = line.seq
  <2>1. nextSeq' # 0 /\ nextSeq' \in 0..MaxSeq + 1 /\ nextSeq' - 1 = line.seq
    BY <1>1, <1>2, BoundsAssumption
  <2>2. QED BY <2>1 DEF From, Before
<1>9. Subscribed(conn)' <=> Subscribed(conn)
  BY <1>1 DEF Subscribed
<1>10. RecorderTypeOK'
  BY <1>0, <1>1, <1>7, <1>8, <1>9, Zenon DEF RecorderIInv, RecorderTypeOK
<1>11. Processes'
  BY <1>1, <1>4, <1>9 DEF RecorderIInv, Processes, Subscribed
<1>12. ToCome'
  <2>1. Chained(wire[conn], From)' /\ (Subscribed(conn) => pos[conn] = EndOf(wire[conn], From))'
    BY <1>1, <1>2, <1>5, <1>8, <1>9, ZenonT(60) DEF RecorderIInv, ToCome, Chained, EndOf
  <2>2. ASSUME up, server = life, NEW k \in 1..Len(Tail(wire[conn]))
        PROVE  Tail(wire[conn])[k].seq <= seq
    BY <1>1, <1>2, <2>2 DEF RecorderIInv, ToCome
  <2>3. QED BY <1>1, <1>5, <2>1, <2>2 DEF ToCome
<1>13. ASSUME NEW i \in 1..Len(rows)
       PROVE  /\ rows[i] \in Row /\ rows[i].seq \in Nat /\ rows[i].life \in Nat
              /\ Told(i) => /\ rows[i].life <= server
                            /\ rows[i].life = server => rows[i].seq <= From
  <2>1. rows[i] \in Row
    BY <1>4, ElementOfSeq
  <2>2. rows[i].seq \in Nat /\ rows[i].life \in Nat
    BY <2>1 DEF Row
  <2>3. Flowing
    BY <1>1 DEF Flowing
  <2>4. QED BY <1>1, <2>1, <2>2, <2>3 DEF RecorderIInv, SoFar
<1>14. SoFar'
  <2>1. SUFFICES ASSUME NEW i \in 1..Len(rows')
                 PROVE  (/\ rows[i].run <= run
                         /\ Told(i) =>
                                /\ rows[i].life <= life
                                /\ up /\ rows[i].life = life => rows[i].seq <= seq
                                /\ conn # None => rows[i].life <= server
                                /\ Flowing /\ rows[i].life = server => rows[i].seq <= From)'
    BY DEF SoFar
  <2>2. CASE i = Len(rows')
    <3>1. rows'[i].run = run /\ rows'[i].life = server /\ rows'[i].seq = line.seq
      BY <1>3, <1>7, <2>2
    <3>2. run <= run /\ server <= life /\ server <= server /\ line.seq <= line.seq
      BY <1>2, <1>4, BoundsAssumption
    <3>3. up /\ server = life => line.seq <= seq
      BY <1>2
    <3>4. QED BY <1>1, <1>8, <3>1, <3>2, <3>3
  <2>3. CASE i \in 1..Len(rows)
    <3>1. rows'[i] = rows[i] /\ (Told(i)' <=> Told(i))
      BY <1>7, <2>3
    <3>2. Told(i) /\ rows[i].life = server => rows[i].seq <= line.seq
      BY <1>2, <1>4, <1>13, <2>3, SMTT(30)
    <3>3. QED BY <1>1, <1>8, <1>13, <2>3, <3>1, <3>2 DEF RecorderIInv, SoFar
  <2>4. QED BY <1>7, <2>2, <2>3
<1>15. LastTold'
  BY <1>1, <1>3, <1>7 DEF LastTold
<1>16. \A i \in 1..Len(rows) : Latest(i) => rows[i].kind # "disconnected"
  BY <1>1 DEF RecorderIInv, LastSaid
<1>17. LastSaid'
  <2>1. SUFFICES ASSUME NEW i \in 1..Len(rows'), Latest(i)'
                 PROVE  rows'[i].kind # "disconnected"
    BY <1>1 DEF LastSaid
  <2>2. CASE i = Len(rows')
    BY <1>3, <1>7, <2>2
  <2>3. CASE i \in 1..Len(rows)
    <3>1. \A k \in i + 1..Len(rows) : k \in i + 1..Len(rows') /\ k \in 1..Len(rows)
      BY <1>7, <2>3
    <3>2. Latest(i)
      BY <1>1, <1>7, <2>1, <2>3, <3>1 DEF Latest
    <3>3. QED BY <1>7, <1>16, <2>3, <3>2
  <2>4. QED BY <1>7, <2>2, <2>3
<1>18. RowsAreTheStream'
  <2>1. \A i \in 1..Len(rows) : Told(i) =>
            \/ rows[i].life < row.life
            \/ rows[i].life = row.life /\ rows[i].seq <= row.seq - row.count
    <3>1. From = row.seq - row.count /\ row.life \in Nat
      BY <1>2, <1>3, <1>4, BoundsAssumption
    <3>2. QED BY <1>3, <1>13, <3>1
  <2>2. ASSUME rows # <<>>, Told(Len(rows))
        PROVE  row.life = rows[Len(rows)].life /\ row.seq = rows[Len(rows)].seq + row.count
    <3>1. rows[Len(rows)].life = server /\ nextSeq = rows[Len(rows)].seq + 1
      BY <1>1, <2>2 DEF RecorderIInv, LastTold
    <3>2. Len(rows) \in 1..Len(rows)
      BY <1>4, <2>2, EmptySeq
    <3>3. rows[Len(rows)].seq \in Nat
      BY <1>13, <3>2
    <3>4. From = rows[Len(rows)].seq
      BY <3>1, <3>3 DEF From, Before
    <3>5. QED BY <1>2, <1>3, <3>1, <3>4
  <2>3. QED BY <1>3, <1>4, <1>6, <2>1, <2>2, ToldRowKeepsStream DEF RecorderIInv
<1>19. OutagesAreRows'
  BY <1>3, <1>4, <1>6, <1>16, ToldRowKeepsOutages DEF RecorderIInv
<1>20. QED
  BY <1>0, <1>10, <1>11, <1>12, <1>14, <1>15, <1>17, <1>18, <1>19 DEF RecorderIInv

LEMMA RecorderNextIInv == RecorderIInv /\ [RecorderNext]_recorderVars => RecorderIInv'
<1> SUFFICES ASSUME RecorderIInv, [RecorderNext]_recorderVars PROVE RecorderIInv'
  OBVIOUS
<1>1. IInv'
  BY RecorderTypes, StreamIInv
<1>2. CASE UNCHANGED recorderVars
  <2>1. /\ UNCHANGED <<gateway, collector, rows>> /\ UNCHANGED <<seq, wire, pos, gone, phase, conn>>
    BY <1>2 DEF recorderVars, vars, collector
  <2>2. conn # None => /\ UNCHANGED <<wire[conn], pos[conn], gone[conn]>>
                       /\ Subscribed(conn)' <=> Subscribed(conn)
    BY <2>1 DEF Subscribed
  <2>3. (~up => \A r \in Readers : ~Subscribed(r)') /\ seq <= seq'
    BY <2>1, RecorderTypes DEF RecorderIInv, Processes, Subscribed
  <2>4. QED BY <1>1, <2>1, <2>2, <2>3, QuietKeeps
<1>3. QED
  BY <1>1, <1>2, GatewayEmitsKeeps, GatewayServesKeeps, GatewayStopsKeeps, GatewayStartsKeeps,
     GatewayAcceptsKeeps, ConnectKeeps, ConnectFailsKeeps, ReadKeeps, StreamEndsKeeps,
     CollectorRestartsKeeps DEF RecorderNext

LEMMA RecorderInvariance == RecorderSpec => []RecorderIInv
BY RecorderInitIInv, RecorderNextIInv, PTL DEF RecorderSpec

\* Every variable keeps its type, and the collector only ever reads a connection
\* that it has not closed, of the process it connected to.
THEOREM RecorderTypeCorrect == RecorderSpec => []RecorderTypeOK
<1>1. RecorderIInv => RecorderTypeOK
  BY DEF RecorderIInv
<1>2. QED BY <1>1, RecorderInvariance, PTL

\* What is written down of one gateway process is what it emitted: once, in
\* order, every hole as wide as a row says it is, and no gateway_gap ever, though
\* either process may stop and be started again at any time (_account_for).
THEOREM RowsAreTheStreamCorrect == RecorderSpec => []RowsAreTheStream
<1>1. RecorderIInv => RowsAreTheStream
  BY DEF RecorderIInv
<1>2. QED BY <1>1, RecorderInvariance, PTL

\* Within a run of the collector gateway_connected and gateway_disconnected
\* alternate, and nothing of the stream is written while it is said to be lost.
THEOREM OutagesAreRowsCorrect == RecorderSpec => []OutagesAreRows
<1>1. RecorderIInv => OutagesAreRows
  BY DEF RecorderIInv
<1>2. QED BY <1>1, RecorderInvariance, PTL

\* The stream still accounts for every event while the collector connects, reads
\* and goes as it likes.
THEOREM RecorderAccountingCorrect == RecorderSpec => []Accounting
<1>1. RecorderIInv => Accounting
  BY DEF RecorderIInv
<1>2. QED BY <1>1, RecorderInvariance, PTL

-----------------------------------------------------------------------------
(* Each connection's view of the stream still implements Feed. *)

\* A step of the composed system is a step of the stream, or changes nothing that
\* the readers' feeds are made of.
LEMMA RecorderStepFeed ==
    ASSUME RecorderIInv, [RecorderNext]_recorderVars, NEW x \in Readers
    PROVE  [ReaderFeed(x)!Next]_(ReaderFeed(x)!vars)
<1>1. IInv /\ conn \in Readers \union {None}
  BY RecorderTypes
<1>2. CASE [Next]_vars
  BY <1>1, <1>2, StepFeed
<1>3. CASE Connect \/ StreamEnds
  <2>1. UNCHANGED <<seq, phase, pos>>
    BY <1>3 DEF Connect, StreamEnds
  <2>2. QED BY <2>1 DEF ReaderFeed!vars, Subscribed
<1>4. CASE GatewayEmits \/ GatewayServes \/ GatewayStops \/ GatewayStarts
  BY <1>2, <1>4 DEF GatewayEmits, GatewayServes, GatewayStops, GatewayStarts, Next
<1>5. CASE GatewayAccepts \/ Read
  <2>1. conn \in Readers
    BY <1>1, <1>5 DEF GatewayAccepts, Read, ToRead
  <2>2. QED BY <1>2, <1>5, <2>1 DEF GatewayAccepts, Read, Next
<1>6. CASE ConnectFails
  BY <1>2, <1>6 DEF ConnectFails
<1>7. CASE CollectorRestarts
  BY <1>1, <1>2, <1>7 DEF CollectorRestarts, Next
<1>8. CASE UNCHANGED recorderVars
  BY <1>2, <1>8 DEF recorderVars
<1>9. QED BY <1>3, <1>4, <1>5, <1>6, <1>7, <1>8 DEF RecorderNext

\* However the collector connects, reads, hangs up and is started again, each of
\* its connections is served as Feed promises.
THEOREM RecorderKeepsFeed == RecorderSpec => FeedPromise
<1>1. RecorderInit => \A r \in Readers : ReaderFeed(r)!Init
  BY ZenonT(60) DEF RecorderInit, Init, Subscribed, ReaderFeed!Init
<1>2. RecorderIInv /\ [RecorderNext]_recorderVars =>
        [\A r \in Readers : [ReaderFeed(r)!Next]_(ReaderFeed(r)!vars)]_vars
  BY RecorderStepFeed
<1>3. QED BY <1>1, <1>2, RecorderInvariance, PTL DEF RecorderSpec, FeedPromise
===============================================================================
