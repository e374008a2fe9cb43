---------------------------- MODULE ControllerProofs ----------------------------
(*****************************************************************************)
(* Proofs about Controller: one change is written once and the latest last,   *)
(* and a change is given up after its own attempts, however late or lost the  *)
(* answers are.                                                              *)
(*****************************************************************************)
EXTENDS Controller, FiniteSetTheorems, FunctionTheorems, SequenceTheorems, TLAPS

\* The changes the requests at the gateway were made for, in their order.
Waiting == [i \in DOMAIN queue |-> queue[i].for]

\* The change of the moment has a request out that was not refused.
Open == ~Idle /\ answer # "rejected"

TypeInv ==
    /\ TypeOK
    /\ ~Idle => file # None
    /\ \A i \in DOMAIN queue : queue[i].live => queue[i].for = change

\* What was written, what waits and what is asked next follow one another.
OrderInv ==
    /\ LatestWins
    /\ \A i \in DOMAIN writes : writes[i] <= change
    /\ \A i \in DOMAIN writes, j \in DOMAIN Waiting : writes[i] <= Waiting[j]
    /\ \A j \in DOMAIN Waiting : Waiting[j] <= change
    /\ \A i, j \in DOMAIN Waiting : i <= j => Waiting[i] <= Waiting[j]

\* Every request that waits may still be written: together with what was written,
\* there is one for each change that is over, each run cut short and each refusal of a
\* frame that had gone, and one for the change of the moment while it is open.
Allowed(c) == IF c < change \/ (c = change /\ Open) THEN 1 ELSE 0
OnceInv ==
    \A c \in Nat : Times(c, writes) + Times(c, Waiting)
                       <= Times(c, cutShort) + Times(c, denied) + Allowed(c)

\* The requests since the presence last agreed are the failures stored, the one that
\* is out, and those that a run cut short has forgotten.
Out == IF Idle THEN 0 ELSE 1
TriesInv ==
    /\ Len(cutShort) <= faults
    /\ file # None =>
           /\ file.attempts + Out <= tries
           /\ tries <= file.attempts + Out + Times(change, cutShort)

IInv == TypeInv /\ OrderInv /\ OnceInv /\ TriesInv

-----------------------------------------------------------------------------
(* Counting in sequences. *)

LEMMA TimesBounded ==
    ASSUME NEW s \in Seq(Nat), NEW c \in Nat
    PROVE  /\ IsFiniteSet({i \in DOMAIN s : s[i] = c})
           /\ Times(c, s) \in Nat /\ Times(c, s) <= Len(s)
<1>1. IsFiniteSet(1..Len(s)) /\ Cardinality(1..Len(s)) = Len(s)
  <2>1. 1 \in Int /\ Len(s) \in Int /\ Len(s) >= 0
      OBVIOUS
  <2>2. /\ IsFiniteSet(1..Len(s))
        /\ Cardinality(1..Len(s)) = IF 1 > Len(s) THEN 0 ELSE Len(s) - 1 + 1
      BY <2>1, FS_Interval, Zenon
  <2> QED BY <2>1, <2>2
<1>2. {i \in DOMAIN s : s[i] = c} \subseteq 1..Len(s)
    OBVIOUS
<1> QED BY <1>1, <1>2, FS_Subset, FS_CardinalityType DEF Times

LEMMA TimesAppend ==
    ASSUME NEW s \in Seq(Nat), NEW x \in Nat, NEW c \in Nat
    PROVE  Times(c, Append(s, x)) = Times(c, s) + (IF x = c THEN 1 ELSE 0)
<1> DEFINE S == {i \in DOMAIN s : s[i] = c}
           T == {i \in DOMAIN Append(s, x) : Append(s, x)[i] = c}
<1>1. /\ IsFiniteSet(S) /\ Cardinality(S) \in Nat
      /\ Times(c, s) = Cardinality(S) /\ Times(c, Append(s, x)) = Cardinality(T)
    BY TimesBounded DEF Times
<1>2. CASE x = c
  <2>1. T = S \union {Len(s) + 1} /\ Len(s) + 1 \notin S
      BY <1>2
  <2>2. Cardinality(T) = Cardinality(S) + 1
      BY <1>1, <2>1, FS_AddElement
  <2> HIDE DEF S, T
  <2> QED BY <1>1, <1>2, <2>2
<1>3. CASE x # c
  <2>1. T = S
      BY <1>3
  <2> HIDE DEF S, T
  <2> QED BY <1>1, <1>3, <2>1
<1> QED BY <1>2, <1>3

LEMMA TimesTail ==
    ASSUME NEW s \in Seq(Nat), s # <<>>, NEW c \in Nat
    PROVE  Times(c, Tail(s)) = Times(c, s) - (IF Head(s) = c THEN 1 ELSE 0)
<1> DEFINE S == {i \in DOMAIN s : s[i] = c}
           T == {i \in DOMAIN Tail(s) : Tail(s)[i] = c}
           f == [i \in T |-> i + 1]
<1>1. /\ IsFiniteSet(S) /\ Cardinality(S) \in Nat
      /\ Times(c, s) = Cardinality(S) /\ Times(c, Tail(s)) = Cardinality(T)
    BY TimesBounded DEF Times
<1>2. /\ DOMAIN Tail(s) = 1..(Len(s) - 1) /\ DOMAIN s = 1..Len(s) /\ Len(s) \in Nat \ {0}
      /\ \A i \in 1..(Len(s) - 1) : Tail(s)[i] = s[i + 1]
    OBVIOUS
<1>3. f \in Bijection(T, S \ {1})
  <2>1. f \in [T -> S \ {1}]
      BY <1>2, SMTT(30)
  <2>2. \A i, j \in T : f[i] = f[j] => i = j
      BY <1>2
  <2>3. \A k \in S \ {1} : \E i \in T : f[i] = k
    <3> TAKE k \in S \ {1}
    <3>1. k - 1 \in T /\ f[k - 1] = k
        BY <1>2
    <3> QED BY <3>1
  <2> QED BY <2>1, <2>2, <2>3, Fun_IsBij
<1>4. IsFiniteSet(T) /\ Cardinality(T) = Cardinality(S \ {1})
  <2>1. ExistsBijection(T, S \ {1})
      BY <1>3 DEF ExistsBijection
  <2>2. ExistsBijection(S \ {1}, T)
      BY <2>1, Fun_ExistsBijSymmetric
  <2>3. IsFiniteSet(S \ {1})
      BY <1>1, FS_RemoveElement
  <2> QED BY <2>2, <2>3, FS_Bijection
<1>5. CASE Head(s) = c
  <2>1. 1 \in S
      BY <1>2, <1>5
  <2>2. Cardinality(S \ {1}) = Cardinality(S) - 1
      BY <1>1, <2>1, FS_RemoveElement
  <2> HIDE DEF S, T
  <2> QED BY <1>1, <1>4, <1>5, <2>2
<1>6. CASE Head(s) # c
  <2>1. S \ {1} = S
      BY <1>2, <1>6
  <2>2. Cardinality(T) = Cardinality(S)
      BY <1>4, <2>1, Zenon
  <2> HIDE DEF S, T
  <2> QED BY <1>1, <1>6, <2>2
<1> QED BY <1>5, <1>6

LEMMA TimesEmpty == \A c : Times(c, <<>>) = 0
BY FS_EmptySet DEF Times

-----------------------------------------------------------------------------
(* Types. *)

LEMMA NoneIsApart == TRUE \notin {None} /\ FALSE \notin {None} /\ None \notin BOOLEAN
BY NoneAssumption, Zenon

\* A run that ends leaves its request in the line, with nobody waiting for it.
LEMMA RunEndsLine ==
    ASSUME TypeInv, RunEnds
    PROVE  /\ queue' \in Seq(Requests) /\ Waiting' = Waiting
           /\ \A i \in DOMAIN queue' : ~queue'[i].live
           /\ asking' = None /\ answer' = None
<1>1. queue \in Seq(Requests) /\ queue' = [i \in DOMAIN queue |-> [queue[i] EXCEPT !.live = FALSE]]
    BY DEF TypeInv, TypeOK, RunEnds
<1>2. ASSUME NEW i \in DOMAIN queue
      PROVE  /\ queue'[i] = [queue[i] EXCEPT !.live = FALSE] /\ queue[i] \in Requests
    BY <1>1
<1>3. \A i \in DOMAIN queue :
          queue'[i] \in Requests /\ queue'[i].for = queue[i].for /\ queue'[i].live = FALSE
    BY <1>2 DEF Requests
<1>4. DOMAIN queue' = DOMAIN queue /\ DOMAIN queue = 1..Len(queue) /\ Len(queue) \in Nat
    BY <1>1
<1>5. queue' \in Seq(Requests)
  <2>1. queue' \in [1..Len(queue) -> Requests]
      BY <1>1, <1>3, <1>4
  <2> QED BY <1>4, <2>1
<1> QED BY <1>3, <1>4, <1>5 DEF Waiting, RunEnds

LEMMA AdoptType ==
    ASSUME change \in Nat, NEW h \in BOOLEAN, Adopt(h)
    PROVE  file' \in Judgments /\ change' = change + 1 /\ change' \in Nat /\ tries' = 0
BY MaxAttemptsAssumption DEF Adopt, Judgment, Judgments

\* What a refusal does: one more failure stored, or the change is given up.
LEMMA NotTakenCases ==
    ASSUME file \in Judgments, change \in Nat, NEW h \in BOOLEAN, NotTaken(h)
    PROVE  \/ /\ file' \in Judgments /\ file'.attempts = file.attempts + 1
              /\ change' = change
           \/ /\ file.attempts + 1 = MaxAttempts
              /\ Adopt(h)
<1>1. file.attempts \in 0..MaxAttempts - 1 /\ file.home \in BOOLEAN
    BY DEF Judgments
<1>2. CASE file.attempts + 1 >= MaxAttempts
    BY <1>1, <1>2, MaxAttemptsAssumption DEF NotTaken, Counted
<1>3. CASE ~(file.attempts + 1 >= MaxAttempts)
    BY <1>1, <1>3, MaxAttemptsAssumption DEF NotTaken, Counted, Judgment, Judgments
<1> QED BY <1>2, <1>3

LEMMA WaitingType == ASSUME TypeInv PROVE Waiting \in Seq(Nat) /\ Len(Waiting) = Len(queue)
<1>1. queue \in Seq(Requests)
    BY DEF TypeInv, TypeOK
<1>2. \A i \in DOMAIN queue : queue[i] \in Requests
    BY <1>1
<1>3. \A i \in DOMAIN queue : queue[i].for \in Nat
    BY <1>2 DEF Requests
<1>4. Waiting \in [1..Len(queue) -> Nat] /\ Len(queue) \in Nat
    BY <1>1, <1>3 DEF Waiting
<1> QED BY <1>4

\* A request comes off the line.
LEMMA ServedLine ==
    ASSUME TypeInv, Served
    PROVE  /\ queue' \in Seq(Requests) /\ Head(queue) \in Requests
           /\ DOMAIN queue = 1..Len(queue) /\ Len(queue) \in Nat \ {0}
           /\ DOMAIN queue' = 1..(Len(queue) - 1) /\ Len(queue') = Len(queue) - 1
           /\ \A i \in DOMAIN queue' : queue'[i] = queue[i + 1]
           /\ Head(queue) = queue[1]
           /\ Waiting \in Seq(Nat) /\ Waiting # <<>> /\ Head(queue).for = Head(Waiting)
           /\ Waiting' = Tail(Waiting)
<1>1. queue \in Seq(Requests) /\ queue # <<>> /\ queue' = Tail(queue)
    BY DEF TypeInv, TypeOK, Served
<1>2. /\ queue' \in Seq(Requests) /\ Head(queue) \in Requests
      /\ DOMAIN queue = 1..Len(queue) /\ Len(queue) \in Nat \ {0}
      /\ DOMAIN queue' = 1..(Len(queue) - 1) /\ Len(queue') = Len(queue) - 1
      /\ \A i \in DOMAIN queue' : queue'[i] = queue[i + 1]
      /\ Head(queue) = queue[1]
    BY <1>1
<1>3. /\ Waiting \in Seq(Nat) /\ Len(Waiting) = Len(queue)
      /\ \A i \in DOMAIN queue : Waiting[i] = queue[i].for
  <2>1. Waiting \in Seq(Nat) /\ Len(Waiting) = Len(queue)
      BY WaitingType
  <2> QED BY <2>1 DEF Waiting
<1>4. Waiting # <<>> /\ Head(Waiting) = queue[1].for
    BY <1>2, <1>3
<1>5. Waiting' = Tail(Waiting)
  <2>1. /\ Tail(Waiting) \in Seq(Nat) /\ Len(Tail(Waiting)) = Len(queue) - 1
        /\ \A i \in 1..(Len(queue) - 1) : Tail(Waiting)[i] = Waiting[i + 1]
      BY <1>2, <1>3
  <2>2. \A i \in 1..(Len(queue) - 1) : queue'[i].for = Waiting[i + 1]
    <3> TAKE i \in 1..(Len(queue) - 1)
    <3>1. i + 1 \in DOMAIN queue /\ queue'[i] = queue[i + 1]
        BY <1>2
    <3> QED BY <1>3, <3>1
  <2>3. Waiting' = [i \in 1..(Len(queue) - 1) |-> queue'[i].for]
      BY <1>2, Zenon DEF Waiting
  <2>4. \A i \in 1..(Len(queue) - 1) : Waiting'[i] = Tail(Waiting)[i] /\ Waiting'[i] \in Nat
    <3> TAKE i \in 1..(Len(queue) - 1)
    <3>1. Waiting'[i] = queue'[i].for
        BY <2>3, Zenon
    <3>2. i + 1 \in DOMAIN Waiting /\ Waiting[i + 1] \in Nat
        BY <1>2, <1>3
    <3> QED BY <2>1, <2>2, <3>1, <3>2
  <2>5. Waiting' \in Seq(Nat) /\ Len(Waiting') = Len(queue) - 1
      BY <1>2, <2>3, <2>4
  <2>6. \A i \in 1..Len(Waiting') : Waiting'[i] = Tail(Waiting)[i]
      BY <2>4, <2>5, Zenon
  <2> QED BY <2>1, <2>5, <2>6, SeqEqual, Zenon
<1> QED BY <1>2, <1>3, <1>4, <1>5

\* Moves and faults are counted.
LEMMA FaultType == ASSUME faults \in 0..MaxFaults, Fault PROVE faults' \in 0..MaxFaults /\ faults' = faults + 1
BY BoundsAssumption DEF Fault

LEMMA TriedType == ASSUME tries \in Nat PROVE Tried \in Nat
BY DEF Tried

LEMMA InitTypeInv == Init => TypeInv
<1> SUFFICES ASSUME Init PROVE TypeInv
    OBVIOUS
<1>1. queue \in Seq(Requests) /\ DOMAIN queue = {}
    BY DEF Init
<1>2. writes \in Seq(Nat) /\ cutShort \in Seq(Nat) /\ denied \in Seq(Nat)
    BY DEF Init
<1>3. moves \in 0..MaxMoves /\ faults \in 0..MaxFaults /\ change \in Nat /\ tries \in Nat
    BY BoundsAssumption DEF Init
<1>4. home \in BOOLEAN /\ up \in BOOLEAN /\ file = None /\ asking = None /\ answer = None
    BY Zenon DEF Init
<1> QED BY <1>1, <1>2, <1>3, <1>4, Zenon DEF TypeInv, TypeOK, Idle

\* The parts of TypeInv that a step of the controller's own leaves alone.
LEMMA NoLiveRequest ==
    ASSUME TypeInv, Idle
    PROVE  \A i \in DOMAIN queue : ~queue[i].live
BY Zenon DEF TypeInv, TypeOK

\* A run that ends with a judgment, kept, counted up or adopted.
LEMMA RunEndsType ==
    ASSUME TypeInv, RunEnds, file' \in Judgments \/ file' = file,
           change' \in Nat, tries' \in Nat, faults' \in 0..MaxFaults, cutShort' \in Seq(Nat),
           UNCHANGED <<home, moves, up, writes, denied>>
    PROVE  TypeInv'
<1>1. file' \in Judgments \union {None}
    BY Zenon DEF TypeInv, TypeOK
<1>2. Idle'
    BY DEF RunEnds, Idle
<1> QED BY <1>1, <1>2, RunEndsLine, Zenon DEF TypeInv, TypeOK

\* A run that ends before it has asked anything.
LEMMA NoRequestType ==
    ASSUME TypeInv, Idle, file' \in Judgments, change' \in Nat, tries' \in Nat,
           UNCHANGED <<home, moves, faults, asking, answer, up, queue, writes, cutShort, denied>>
    PROVE  TypeInv'
<1>1. Idle'
    BY DEF Idle
<1> QED BY <1>1, NoLiveRequest, Zenon DEF TypeInv, TypeOK

LEMMA AskType == ASSUME TypeInv, Ask PROVE TypeInv'
<1> DEFINE r == [home |-> home, for |-> change, live |-> TRUE]
<1>1. r \in Requests
    BY DEF TypeInv, TypeOK, Requests
<1>2. queue \in Seq(Requests) /\ queue' = Append(queue, r)
    BY DEF TypeInv, TypeOK, Ask, InLine
<1>3. /\ queue' \in Seq(Requests) /\ Len(queue') = Len(queue) + 1 /\ queue'[Len(queue')] = r
      /\ \A i \in DOMAIN queue' : i = Len(queue') \/ (i \in DOMAIN queue /\ queue'[i] = queue[i])
    BY <1>1, <1>2
<1>4. asking' \in BOOLEAN /\ ~Idle' /\ answer' = None
    BY NoneIsApart, Zenon DEF Ask, Idle, TypeInv, TypeOK
<1>5. ASSUME NEW i \in DOMAIN queue', queue'[i].live
      PROVE  i = Len(queue') /\ queue'[i].for = change
  <2>1. i = Len(queue')
      BY <1>3, <1>5, NoLiveRequest, Zenon DEF Ask, Differs
  <2> QED BY <1>3, <2>1
<1>6. tries' \in Nat /\ file # None
    BY TriedType DEF Ask, Differs, TypeInv, TypeOK
<1> QED BY <1>3, <1>4, <1>5, <1>6, Zenon DEF Ask, TypeInv, TypeOK

LEMMA ServedType ==
    ASSUME TypeInv, Served, NEW what \in {"accepted", "rejected"}, Tell(what),
           writes' \in Seq(Nat), denied' \in Seq(Nat),
           UNCHANGED <<home, moves, faults, file, asking, up, change, cutShort, tries>>
    PROVE  TypeInv'
<1>1. answer' \in {None, "accepted", "rejected", "closed"}
    BY Zenon DEF Tell, TypeInv, TypeOK
<1>2. Idle' = Idle
    BY DEF Idle
<1>3. ASSUME NEW i \in DOMAIN queue', queue'[i].live
      PROVE  ~Idle /\ answer' = None /\ i = Len(queue') /\ queue'[i].for = change
  <2>1. i + 1 \in DOMAIN queue /\ queue'[i] = queue[i + 1]
      BY ServedLine
  <2>2. ~Idle /\ answer = None /\ i + 1 = Len(queue) /\ queue[i + 1].for = change
      BY <1>3, <2>1 DEF TypeInv, TypeOK
  <2>3. ~Head(queue).live
    <3>1. 1 \in DOMAIN queue /\ 1 # Len(queue) /\ Head(queue) = queue[1]
        BY <2>2, ServedLine
    <3> QED BY <3>1, Zenon DEF TypeInv, TypeOK
  <2>4. answer' = None
      BY <2>2, <2>3 DEF Tell
  <2>5. i = Len(queue')
      BY <2>2, ServedLine
  <2> QED BY <2>1, <2>2, <2>4, <2>5
<1> QED BY <1>1, <1>2, <1>3, ServedLine, Zenon DEF TypeInv, TypeOK

LEMMA NotTakenType ==
    ASSUME TypeInv, file \in Judgments, NEW h \in BOOLEAN, NotTaken(h),
           tries' \in Nat
    PROVE  file' \in Judgments /\ change' \in Nat
BY NotTakenCases, AdoptType DEF TypeInv, TypeOK

LEMMA NextTypeInv == TypeInv /\ [Next]_vars => TypeInv'
<1> SUFFICES ASSUME TypeInv, [Next]_vars PROVE TypeInv'
    OBVIOUS
<1>h. home \in BOOLEAN /\ change \in Nat /\ faults \in 0..MaxFaults /\ tries \in Nat
    BY DEF TypeInv, TypeOK
<1>f. file # None => file \in Judgments
    BY DEF TypeInv, TypeOK
<1>a. ~Idle => asking \in BOOLEAN /\ file \in Judgments
    BY <1>f, Zenon DEF TypeInv, TypeOK, Idle
<1>w. writes \in Seq(Nat) /\ cutShort \in Seq(Nat) /\ denied \in Seq(Nat)
    BY DEF TypeInv, TypeOK
<1>1. CASE Move
  <2>1. moves' \in 0..MaxMoves
      BY <1>1, BoundsAssumption DEF Move, TypeInv, TypeOK
  <2>2. home' \in BOOLEAN
      BY <1>1, Zenon DEF Move
  <2> QED BY <1>1, <2>1, <2>2, Zenon DEF Move, history, TypeInv, TypeOK, Idle
<1>2. CASE FirstRun
  <2>1. file' \in Judgments /\ change' \in Nat /\ tries' \in Nat
      BY <1>2, <1>h, AdoptType DEF FirstRun
  <2> QED BY <1>2, <2>1, NoRequestType, Zenon DEF FirstRun
<1>3. CASE Unchanged
  <2>1. file' \in Judgments
      BY <1>3, <1>f, MaxAttemptsAssumption DEF Unchanged, FailuresForgotten, Judgment, Judgments
  <2>2. tries' \in Nat /\ change' \in Nat
      BY <1>3, <1>h DEF Unchanged
  <2> QED BY <1>3, <2>1, <2>2, NoRequestType, Zenon DEF Unchanged
<1>4. CASE Ask
    BY <1>4, AskType
<1>5. CASE AskNobody
  <2>1. tries' \in Nat
      BY <1>5, <1>h, TriedType DEF AskNobody
  <2>2. Idle /\ file \in Judgments
      BY <1>5, <1>f DEF AskNobody, Differs
  <2>3. file' \in Judgments /\ change' \in Nat
      BY <1>5, <1>h, <2>1, <2>2, NotTakenType DEF AskNobody
  <2> QED BY <1>5, <2>1, <2>2, <2>3, NoRequestType, Zenon DEF AskNobody
<1>6. CASE Rejected
  <2>1. tries' \in Nat
      BY <1>6, <1>h DEF Rejected
  <2>2. file' \in Judgments /\ change' \in Nat
      BY <1>6, <1>a, <2>1, NotTakenType DEF Rejected
  <2> QED BY <1>6, <1>h, <1>w, <2>1, <2>2, RunEndsType, Zenon DEF Rejected
<1>7. CASE Accepted
  <2>1. file' \in Judgments /\ change' \in Nat /\ tries' \in Nat
      BY <1>7, <1>a, <1>h, AdoptType DEF Accepted
  <2> QED BY <1>7, <1>h, <1>w, <2>1, RunEndsType, Zenon DEF Accepted
<1>8. CASE NoAnswer
  <2>1. file' \in Judgments /\ change' \in Nat /\ tries' \in Nat
      BY <1>8, <1>a, <1>h, AdoptType DEF NoAnswer, UnknownIsTaken
  <2> QED BY <1>8, <1>h, <1>w, <2>1, RunEndsType, Zenon DEF NoAnswer
<1>9. CASE CutShort
  <2>1. faults' \in 0..MaxFaults
      BY <1>9, <1>h, FaultType DEF CutShort
  <2>2. cutShort' \in Seq(Nat)
      BY <1>9, <1>h, <1>w DEF CutShort
  <2> QED BY <1>9, <1>h, <2>1, <2>2, RunEndsType, Zenon DEF CutShort
<1>10. CASE FileLost
  <2>1. faults' \in 0..MaxFaults
      BY <1>10, <1>h, FaultType DEF FileLost
  <2> QED BY <1>10, <2>1, Zenon DEF FileLost, history, TypeInv, TypeOK, Idle
<1>11. CASE Reject
    BY <1>11, <1>w, ServedType, Zenon DEF Reject, history
<1>12. CASE Take
  <2>1. writes' \in Seq(Nat)
    <3>1. Head(queue).for \in Nat
        BY <1>12, ServedLine DEF Take, Requests
    <3> QED BY <1>12, <1>w, <3>1, SMTT(30) DEF Take
  <2> QED BY <1>12, <1>w, <2>1, ServedType, Zenon DEF Take
<1>16. CASE WriteFails
  <2>1. Head(queue).for \in Nat
      BY <1>16, ServedLine DEF WriteFails, Requests
  <2>2. Append(writes, Head(queue).for) \in Seq(Nat) /\ Append(denied, Head(queue).for) \in Seq(Nat)
      BY <1>w, <2>1
  <2>3. writes' \in Seq(Nat) /\ denied' \in Seq(Nat)
      BY <1>16, <1>w, <2>2, Zenon DEF WriteFails
  <2> QED BY <1>16, <2>3, ServedType, Zenon DEF WriteFails
<1>13. CASE Stop
  <2>1. faults' \in 0..MaxFaults
      BY <1>13, <1>h, FaultType DEF Stop
  <2>2. writes' \in Seq(Nat)
    <3>1. CASE queue = <<>>
        BY <1>13, <1>w, <3>1, Zenon DEF Stop
    <3>2. CASE queue # <<>>
      <4>1. Head(queue) \in Requests
          BY <3>2 DEF TypeInv, TypeOK
      <4>2. Head(queue).for \in Nat
          BY <4>1 DEF Requests
      <4>3. writes' = writes \/ writes' = Append(writes, Head(queue).for)
          BY <1>13, Zenon DEF Stop
      <4>4. Append(writes, Head(queue).for) \in Seq(Nat)
          BY <1>w, <4>2
      <4> QED BY <1>w, <4>3, <4>4, Zenon
    <3> QED BY <3>1, <3>2
  <2>3. answer' \in {None, "accepted", "rejected", "closed"}
      BY <1>13, Zenon DEF Stop, TypeInv, TypeOK
  <2>4. queue' \in Seq(Requests) /\ DOMAIN queue' = {}
      BY <1>13 DEF Stop
  <2>5. up' \in BOOLEAN
      BY <1>13, Zenon DEF Stop
  <2> QED BY <1>13, <2>1, <2>2, <2>3, <2>4, <2>5, Zenon DEF Stop, TypeInv, TypeOK, Idle
<1>14. CASE Start
    BY <1>14, Zenon DEF Start, history, TypeInv, TypeOK, Idle
<1>15. CASE UNCHANGED vars
    BY <1>15, Zenon DEF vars, TypeInv, TypeOK, Idle
<1> QED BY <1>1, <1>2, <1>3, <1>4, <1>5, <1>6, <1>7, <1>8, <1>9, <1>10, <1>11, <1>12,
           <1>13, <1>14, <1>15, <1>16 DEF Next, Run

-----------------------------------------------------------------------------
(* What a step does to the requests and to what is written. *)

Kept == UNCHANGED <<Waiting, writes, change, cutShort, denied>> /\ (Open' <=> Open)
Adopts == UNCHANGED <<Waiting, writes, cutShort, denied>> /\ change' = change + 1 /\ ~Open'
Asks ==
    /\ Waiting' = Append(Waiting, change) /\ UNCHANGED <<writes, change, cutShort, denied>>
    /\ ~Open /\ Open'
Forgets ==
    /\ cutShort' = Append(cutShort, change) /\ UNCHANGED <<Waiting, writes, change, denied>>
    /\ ~Open'
Refuses ==
    /\ Waiting # <<>> /\ Waiting' = Tail(Waiting)
    /\ UNCHANGED <<writes, change, cutShort, denied>>
    /\ (Open' <=> Open) \/ (Head(Waiting) = change /\ Open)
Denies ==
    /\ Waiting # <<>> /\ Waiting' = Tail(Waiting)
    /\ writes' = Append(writes, Head(Waiting)) /\ denied' = Append(denied, Head(Waiting))
    /\ UNCHANGED <<change, cutShort>>
    /\ (Open' <=> Open) \/ (Head(Waiting) = change /\ Open)
Writes ==
    /\ Waiting # <<>> /\ Waiting' \in {Tail(Waiting), <<>>}
    /\ writes' \in {writes, Append(writes, Head(Waiting))}
    /\ UNCHANGED <<change, cutShort, denied>> /\ (Open' <=> Open)

LEMMA StepEffects ==
    ASSUME TypeInv, [Next]_vars
    PROVE  Kept \/ Adopts \/ Asks \/ Forgets \/ Refuses \/ Denies \/ Writes
<1>h. home \in BOOLEAN /\ change \in Nat /\ (file # None => file \in Judgments)
    BY DEF TypeInv, TypeOK
<1>a. ~Idle => asking \in BOOLEAN /\ file \in Judgments
    BY <1>h, Zenon DEF TypeInv, TypeOK, Idle
<1>1. CASE Move \/ Unchanged \/ FileLost \/ Start \/ UNCHANGED vars
    BY <1>1, Zenon DEF Move, Unchanged, FileLost, Start, vars, history, Kept, Waiting, Open, Idle
<1>2. CASE FirstRun
  <2>1. change' = change + 1
      BY <1>2 DEF FirstRun, Adopt
  <2> QED BY <1>2, <2>1, Zenon DEF FirstRun, Adopts, Waiting, Open, Idle
<1>3. CASE Ask
  <2>1. Waiting' = Append(Waiting, change)
    <3> DEFINE r == [home |-> home, for |-> change, live |-> TRUE]
    <3>1. queue \in Seq(Requests) /\ queue' = Append(queue, r)
        BY <1>3 DEF Ask, InLine, TypeInv, TypeOK
    <3>2. TypeInv' /\ r.for = change
        BY <1>3, AskType
    <3>3. Waiting \in Seq(Nat) /\ Len(Waiting) = Len(queue)
        BY WaitingType
    <3>4. Len(queue') = Len(queue) + 1 /\ DOMAIN queue' = 1..(Len(queue) + 1)
        BY <3>1
    <3>5. ASSUME NEW i \in 1..(Len(queue) + 1)
          PROVE  Waiting'[i] = Append(Waiting, change)[i]
      <4>1. Waiting'[i] = queue'[i].for
          BY <3>4, Zenon DEF Waiting
      <4>2. CASE i = Len(queue) + 1
        <5>1. queue'[i] = r
            BY <3>1, <4>2
        <5>2. Append(Waiting, change)[i] = change
            BY <3>3, <4>2
        <5> QED BY <3>2, <4>1, <5>1, <5>2
      <4>3. CASE i # Len(queue) + 1
        <5>1. i \in DOMAIN queue /\ queue'[i] = queue[i]
            BY <3>1, <4>3
        <5>2. Append(Waiting, change)[i] = Waiting[i]
            BY <3>3, <4>3
        <5> QED BY <4>1, <5>1, <5>2 DEF Waiting
      <4> QED BY <4>2, <4>3
    <3>6. Append(Waiting, change) \in Seq(Nat) /\ Len(Append(Waiting, change)) = Len(queue) + 1
        BY <1>h, <3>3
    <3>7. Waiting' \in Seq(Nat) /\ Len(Waiting') = Len(queue) + 1
      <4>1. \A i \in 1..(Len(queue) + 1) : Waiting'[i] \in Nat
          BY <3>5, <3>6
      <4>2. Waiting' = [i \in 1..(Len(queue) + 1) |-> queue'[i].for]
          BY <3>4, Zenon DEF Waiting
      <4> QED BY <3>4, <4>1, <4>2
    <3>8. \A i \in 1..Len(Waiting') : Waiting'[i] = Append(Waiting, change)[i]
        BY <3>5, <3>7, Zenon
    <3> QED BY <3>6, <3>7, <3>8, SeqEqual, Zenon
  <2>2. ~Open
      BY <1>3, Zenon DEF Ask, Differs, Open
  <2>3. Open'
    <3>1. asking' \in BOOLEAN /\ answer' = None
        BY <1>3, <1>h, Zenon DEF Ask
    <3> QED BY <3>1, NoneAssumption, Zenon DEF Open, Idle
  <2> QED BY <1>3, <2>1, <2>2, <2>3, Zenon DEF Ask, Asks
<1>4. CASE AskNobody
  <2>1. file \in Judgments /\ Idle
      BY <1>4, <1>h, Zenon DEF AskNobody, Differs
  <2>2. change' = change \/ change' = change + 1
      BY <1>4, <1>h, <2>1, NotTakenCases DEF AskNobody, Adopt
  <2> QED BY <1>4, <2>1, <2>2, Zenon DEF AskNobody, Kept, Adopts, Waiting, Open, Idle
<1>5. CASE Rejected
  <2>1. change' = change \/ change' = change + 1
      BY <1>5, <1>a, <1>h, NotTakenCases DEF Rejected, Adopt
  <2> QED BY <1>5, <2>1, RunEndsLine, Zenon DEF Rejected, Kept, Adopts, Open, Idle
<1>6. CASE Accepted
    BY <1>6, RunEndsLine, Zenon DEF Accepted, Adopt, Adopts, Open, Idle
<1>7. CASE NoAnswer
    BY <1>7, RunEndsLine, Zenon DEF NoAnswer, UnknownIsTaken, Adopt, Adopts, Open, Idle
<1>8. CASE CutShort
    BY <1>8, RunEndsLine, Zenon DEF CutShort, Forgets, Open, Idle
<1>9. CASE Reject \/ WriteFails
  <2>s. Served /\ Tell("rejected") /\ UNCHANGED <<asking, change, cutShort>>
      BY <1>9 DEF Reject, WriteFails, history
  <2>1. Head(queue).live => Head(queue).for = change /\ ~Idle /\ answer = None
    <3>1. 1 \in DOMAIN queue /\ Head(queue) = queue[1]
        BY <2>s, ServedLine
    <3> QED BY <3>1, Zenon DEF TypeInv, TypeOK
  <2>2. (Open' <=> Open) \/ (Head(Waiting) = change /\ Open)
    <3>1. CASE Head(queue).live
      <4>1. Open
          BY <2>1, <3>1, NoneAssumption, Zenon DEF Open
      <4> QED BY <2>s, <2>1, <3>1, <4>1, ServedLine, Zenon
    <3>2. CASE ~Head(queue).live
        BY <2>s, <3>2, Zenon DEF Tell, Open, Idle
    <3> QED BY <3>1, <3>2
  <2>3. Waiting # <<>> /\ Waiting' = Tail(Waiting) /\ Head(queue).for = Head(Waiting)
      BY <2>s, ServedLine
  <2>4. CASE UNCHANGED <<writes, denied>>
      BY <2>s, <2>2, <2>3, <2>4, Zenon DEF Refuses
  <2>5. CASE writes' = Append(writes, Head(queue).for) /\ denied' = denied /\ ~Head(queue).live
    <3>1. Open' <=> Open
        BY <2>s, <2>5, Zenon DEF Tell, Open, Idle
    <3> QED BY <2>s, <2>3, <2>5, <3>1, Zenon DEF Writes
  <2>6. CASE /\ writes' = Append(writes, Head(queue).for)
             /\ denied' = Append(denied, Head(queue).for)
      BY <2>s, <2>2, <2>3, <2>6, Zenon DEF Denies
  <2> QED BY <1>9, <2>4, <2>5, <2>6 DEF Reject, WriteFails, history
<1>10. CASE Take
  <2>1. Open' <=> Open
    <3>1. CASE Head(queue).live
      <4>1. 1 \in DOMAIN queue /\ Head(queue) = queue[1]
          BY <1>10, ServedLine DEF Take
      <4>2. answer = None
          BY <3>1, <4>1, Zenon DEF TypeInv, TypeOK
      <4>3. answer' = "accepted"
          BY <1>10, <3>1, Zenon DEF Take, Tell
      <4>4. answer # "rejected" /\ answer' # "rejected"
          BY <4>2, <4>3, NoneAssumption
      <4> QED BY <1>10, <4>4, Zenon DEF Take, Open, Idle
    <3>2. CASE ~Head(queue).live
        BY <1>10, <3>2, Zenon DEF Take, Tell, Open, Idle
    <3> QED BY <3>1, <3>2
  <2> QED BY <1>10, <2>1, ServedLine, Zenon DEF Take, Writes
<1>11. CASE Stop
  <2>1. Open' <=> Open
    <3>1. answer # "rejected" <=> answer' # "rejected"
        BY <1>11, NoneAssumption DEF Stop
    <3> QED BY <1>11, <3>1, Zenon DEF Stop, Open, Idle
  <2>2. Waiting' = <<>>
      BY <1>11 DEF Stop, Waiting
  <2>3. CASE queue = <<>>
    <3>1. Waiting = <<>>
        BY <2>3 DEF Waiting
    <3>2. writes' = writes
        BY <1>11, <2>3, Zenon DEF Stop
    <3> QED BY <1>11, <2>1, <2>2, <3>1, <3>2, Zenon DEF Stop, Kept
  <2>4. CASE queue # <<>>
    <3>1. Waiting # <<>> /\ Head(Waiting) = Head(queue).for
      <4>1. queue \in Seq(Requests) /\ Len(queue) > 0 /\ 1 \in DOMAIN queue /\ Head(queue) = queue[1]
          BY <2>4 DEF TypeInv, TypeOK
      <4>2. Len(Waiting) = Len(queue) /\ Waiting[1] = queue[1].for /\ Waiting \in Seq(Nat)
          BY <4>1, WaitingType DEF Waiting
      <4> QED BY <4>1, <4>2
    <3>2. writes' = writes \/ writes' = Append(writes, Head(queue).for)
        BY <1>11, Zenon DEF Stop
    <3> QED BY <1>11, <2>1, <2>2, <3>1, <3>2, Zenon DEF Stop, Writes
  <2> QED BY <2>3, <2>4
<1> QED BY <1>1, <1>2, <1>3, <1>4, <1>5, <1>6, <1>7, <1>8, <1>9, <1>10, <1>11 DEF Next, Run

-----------------------------------------------------------------------------
(* The parts of the invariant. *)

LEMMA OrderStep ==
    ASSUME TypeInv, OrderInv, Waiting \in Seq(Nat), change' \in Nat,
           Kept \/ Adopts \/ Asks \/ Forgets \/ Refuses \/ Denies \/ Writes
    PROVE  OrderInv'
<1>1. writes \in Seq(Nat) /\ change \in Nat
    BY DEF TypeInv, TypeOK
<1>2. CASE Kept \/ Adopts \/ Forgets
  <2>1. Waiting' = Waiting /\ writes' = writes /\ (change' = change \/ change' = change + 1)
      BY <1>2 DEF Kept, Adopts, Forgets
  <2> QED BY <1>1, <2>1 DEF OrderInv, LatestWins
<1>3. CASE Asks
  <2>1. Waiting' = Append(Waiting, change) /\ writes' = writes /\ change' = change
      BY <1>3 DEF Asks
  <2>2. \A j \in DOMAIN Waiting' : Waiting'[j] = change \/ (j \in DOMAIN Waiting /\ Waiting'[j] = Waiting[j])
      BY <1>1, <2>1
  <2>3. LatestWins' /\ \A i \in DOMAIN writes' : writes'[i] <= change'
      BY <2>1 DEF OrderInv, LatestWins
  <2>4. \A i \in DOMAIN writes', j \in DOMAIN Waiting' : writes'[i] <= Waiting'[j]
      BY <2>1, <2>2 DEF OrderInv
  <2>5. \A j \in DOMAIN Waiting' : Waiting'[j] <= change'
      BY <1>1, <2>1, <2>2 DEF OrderInv
  <2>6. \A i, j \in DOMAIN Waiting' : i <= j => Waiting'[i] <= Waiting'[j]
    <3> SUFFICES ASSUME NEW i \in DOMAIN Waiting', NEW j \in DOMAIN Waiting', i <= j
                 PROVE  Waiting'[i] <= Waiting'[j]
        OBVIOUS
    <3>1. CASE j = Len(Waiting) + 1
      <4>1. Waiting'[j] = change
          BY <1>1, <2>1, <3>1
      <4> QED BY <2>1, <2>5, <4>1
    <3>2. CASE j # Len(Waiting) + 1
      <4>1. j \in DOMAIN Waiting /\ i \in DOMAIN Waiting
            /\ Waiting'[i] = Waiting[i] /\ Waiting'[j] = Waiting[j]
          BY <1>1, <2>1, <3>2
      <4> QED BY <4>1 DEF OrderInv
    <3> QED BY <3>1, <3>2
  <2> QED BY <2>3, <2>4, <2>5, <2>6 DEF OrderInv
<1>4. CASE Refuses \/ Denies \/ Writes
  <2>1. Waiting # <<>> /\ change' = change /\ Waiting' \in {Tail(Waiting), <<>>}
        /\ writes' \in {writes, Append(writes, Head(Waiting))}
      BY <1>4 DEF Refuses, Denies, Writes
  <2>2. 1 \in DOMAIN Waiting /\ Head(Waiting) = Waiting[1] /\ Waiting[1] \in Nat
      BY <2>1
  <2>3. \A j \in DOMAIN Waiting' : j + 1 \in DOMAIN Waiting /\ Waiting'[j] = Waiting[j + 1] /\ j \in Nat
    <3>1. CASE Waiting' = Tail(Waiting)
        BY <2>1, <3>1
    <3>2. CASE Waiting' = <<>>
        BY <3>2
    <3> QED BY <2>1, <3>1, <3>2
  <2>4. \A i \in DOMAIN writes' :
            (i \in DOMAIN writes /\ writes'[i] = writes[i]) \/ writes'[i] = Waiting[1]
    <3>1. CASE writes' = writes
        BY <3>1
    <3>2. CASE writes' = Append(writes, Head(Waiting))
        BY <1>1, <2>2, <3>2
    <3> QED BY <2>1, <3>1, <3>2
  <2>5. \A j \in DOMAIN Waiting : Waiting[1] <= Waiting[j] /\ Waiting[j] <= change
      BY <2>2 DEF OrderInv
  <2>6. LatestWins'
    <3>1. CASE writes' = writes
        BY <3>1 DEF OrderInv, LatestWins
    <3>2. CASE writes' = Append(writes, Head(Waiting))
      <4> SUFFICES ASSUME NEW i \in 1..Len(writes') - 1
                   PROVE  writes'[i] <= writes'[i + 1]
          BY DEF LatestWins
      <4>1. CASE i = Len(writes)
        <5>1. i \in DOMAIN writes /\ writes'[i] = writes[i] /\ writes'[i + 1] = Waiting[1]
            BY <1>1, <2>2, <3>2, <4>1
        <5> QED BY <2>2, <5>1 DEF OrderInv
      <4>2. CASE i # Len(writes)
        <5>1. i \in 1..Len(writes) - 1 /\ writes'[i] = writes[i] /\ writes'[i + 1] = writes[i + 1]
            BY <1>1, <2>2, <3>2, <4>2, SMTT(30)
        <5> QED BY <5>1 DEF OrderInv, LatestWins
      <4> QED BY <4>1, <4>2
    <3> QED BY <2>1, <3>1, <3>2
  <2>7. \A i \in DOMAIN writes' : writes'[i] <= change'
      BY <2>1, <2>2, <2>4, <2>5 DEF OrderInv
  <2>8. \A i \in DOMAIN writes', j \in DOMAIN Waiting' : writes'[i] <= Waiting'[j]
      BY <2>3, <2>4, <2>5 DEF OrderInv
  <2>9. \A i, j \in DOMAIN Waiting' : i <= j => Waiting'[i] <= Waiting'[j]
      BY <2>3 DEF OrderInv
  <2>10. \A j \in DOMAIN Waiting' : Waiting'[j] <= change'
      BY <2>1, <2>3, <2>5
  <2> QED BY <2>6, <2>7, <2>8, <2>9, <2>10 DEF OrderInv
<1> QED BY <1>2, <1>3, <1>4

LEMMA OnceStep ==
    ASSUME TypeInv, OnceInv, Waiting \in Seq(Nat),
           Kept \/ Adopts \/ Asks \/ Forgets \/ Refuses \/ Denies \/ Writes
    PROVE  OnceInv'
<1>1. writes \in Seq(Nat) /\ change \in Nat /\ cutShort \in Seq(Nat) /\ denied \in Seq(Nat)
    BY DEF TypeInv, TypeOK
<1> SUFFICES ASSUME NEW c \in Nat
             PROVE  (Times(c, writes) + Times(c, Waiting)
                         <= Times(c, cutShort) + Times(c, denied) + Allowed(c))'
    BY DEF OnceInv
<1>t. /\ Times(c, writes) \in Nat /\ Times(c, Waiting) \in Nat
      /\ Times(c, cutShort) \in Nat /\ Times(c, denied) \in Nat
      /\ Times(c, writes) + Times(c, Waiting)
             <= Times(c, cutShort) + Times(c, denied) + Allowed(c)
    BY <1>1, TimesBounded DEF OnceInv
<1>p. (Times(c, writes) + Times(c, Waiting)
           <= Times(c, cutShort) + Times(c, denied) + Allowed(c))'
          <=> Times(c, writes') + Times(c, Waiting')
                  <= Times(c, cutShort') + Times(c, denied') + Allowed(c)'
    BY DEF Times
<1>2. CASE Kept
  <2>1. Waiting' = Waiting /\ writes' = writes /\ cutShort' = cutShort /\ denied' = denied
      BY <1>2, Zenon DEF Kept
  <2>2. Allowed(c)' = Allowed(c)
      BY <1>2, Zenon DEF Kept, Allowed
  <2> QED BY <1>t, <1>p, <2>1, <2>2, Zenon
<1>3. CASE Adopts
  <2>1. Waiting' = Waiting /\ writes' = writes /\ cutShort' = cutShort /\ denied' = denied
      BY <1>3, Zenon DEF Adopts
  <2>2. Allowed(c) <= Allowed(c)' /\ Allowed(c) \in Nat /\ Allowed(c)' \in Nat
    <3>1. CASE c <= change
        BY <1>1, <1>3, <3>1 DEF Adopts, Allowed
    <3>2. CASE c > change
        BY <1>1, <1>3, <3>2 DEF Adopts, Allowed
    <3> QED BY <1>1, <3>1, <3>2
  <2> QED BY <1>t, <1>p, <2>1, <2>2
<1>4. CASE Asks
  <2>1. writes' = writes /\ cutShort' = cutShort /\ denied' = denied
      BY <1>4, Zenon DEF Asks
  <2>2. Times(c, Waiting') = Times(c, Waiting) + (IF change = c THEN 1 ELSE 0)
      BY <1>1, <1>4, TimesAppend DEF Asks
  <2>3. Allowed(c)' = Allowed(c) + (IF change = c THEN 1 ELSE 0) /\ Allowed(c) \in Nat
    <3>1. CASE c = change
        BY <1>1, <1>4, <3>1 DEF Asks, Allowed
    <3>2. CASE c # change
        BY <1>1, <1>4, <3>2 DEF Asks, Allowed
    <3> QED BY <3>1, <3>2
  <2> QED BY <1>t, <1>p, <2>1, <2>2, <2>3
<1>5. CASE Forgets
  <2>1. writes' = writes /\ Waiting' = Waiting /\ denied' = denied
      BY <1>5, Zenon DEF Forgets
  <2>2. Times(c, cutShort') = Times(c, cutShort) + (IF change = c THEN 1 ELSE 0)
      BY <1>1, <1>5, TimesAppend DEF Forgets
  <2>3. /\ Allowed(c) <= Allowed(c)' + (IF change = c THEN 1 ELSE 0)
        /\ Allowed(c)' \in Nat /\ Allowed(c) \in Nat
    <3>1. CASE c = change
        BY <1>1, <1>5, <3>1 DEF Forgets, Allowed
    <3>2. CASE c # change
        BY <1>1, <1>5, <3>2 DEF Forgets, Allowed
    <3> QED BY <3>1, <3>2
  <2> QED BY <1>t, <1>p, <2>1, <2>2, <2>3
<1>6. CASE Refuses
  <2>1. writes' = writes /\ cutShort' = cutShort /\ denied' = denied
      BY <1>6, Zenon DEF Refuses
  <2>2. Head(Waiting) \in Nat
      BY <1>6 DEF Refuses
  <2>3. Times(c, Waiting') = Times(c, Waiting) - (IF Head(Waiting) = c THEN 1 ELSE 0)
      BY <1>1, <1>6, TimesTail DEF Refuses
  <2>4. /\ Allowed(c) <= Allowed(c)' + (IF Head(Waiting) = c THEN 1 ELSE 0)
        /\ Allowed(c)' \in Nat /\ Allowed(c) \in Nat
    <3>1. CASE Open' <=> Open
      <4>1. Allowed(c)' = Allowed(c)
          BY <1>6, <3>1, Zenon DEF Refuses, Allowed
      <4> QED BY <2>2, <4>1 DEF Allowed
    <3>2. CASE Head(Waiting) = change
      <4>1. CASE c = change
          BY <1>1, <1>6, <3>2, <4>1 DEF Refuses, Allowed
      <4>2. CASE c # change
          BY <1>1, <1>6, <3>2, <4>2 DEF Refuses, Allowed
      <4> QED BY <4>1, <4>2
    <3> QED BY <1>6, <3>1, <3>2 DEF Refuses
  <2> QED BY <1>t, <1>p, <2>1, <2>2, <2>3, <2>4
<1>7. CASE Writes
  <2>1. cutShort' = cutShort /\ denied' = denied
      BY <1>7, Zenon DEF Writes
  <2>2. Head(Waiting) \in Nat /\ Waiting # <<>>
      BY <1>7 DEF Writes
  <2>3. Times(c, Tail(Waiting)) = Times(c, Waiting) - (IF Head(Waiting) = c THEN 1 ELSE 0)
        /\ Times(c, Tail(Waiting)) \in Nat
    <3>1. Tail(Waiting) \in Seq(Nat)
        BY <2>2
    <3> QED BY <2>2, <3>1, TimesTail, TimesBounded
  <2>4. Times(c, Waiting') <= Times(c, Waiting) - (IF Head(Waiting) = c THEN 1 ELSE 0)
        /\ Times(c, Waiting') \in Nat
    <3>1. CASE Waiting' = Tail(Waiting)
        BY <1>t, <2>2, <2>3, <3>1
    <3>2. CASE Waiting' = <<>>
        BY <1>t, <2>2, <2>3, <3>2, TimesEmpty
    <3> QED BY <1>7, <3>1, <3>2 DEF Writes
  <2>5. Times(c, writes') <= Times(c, writes) + (IF Head(Waiting) = c THEN 1 ELSE 0)
        /\ Times(c, writes') \in Nat
    <3>1. CASE writes' = writes
        BY <1>t, <2>2, <3>1
    <3>2. CASE writes' = Append(writes, Head(Waiting))
      <4>1. Times(c, writes') = Times(c, writes) + (IF Head(Waiting) = c THEN 1 ELSE 0)
          BY <1>1, <2>2, <3>2, TimesAppend
      <4> QED BY <1>t, <2>2, <4>1
    <3> QED BY <1>7, <3>1, <3>2 DEF Writes
  <2>6. Allowed(c)' = Allowed(c) /\ Allowed(c) \in Nat
    <3>1. Allowed(c)' = Allowed(c)
        BY <1>7, Zenon DEF Writes, Allowed
    <3> QED BY <3>1 DEF Allowed
  <2> QED BY <1>t, <1>p, <2>1, <2>2, <2>4, <2>5, <2>6
<1>8. CASE Denies
  <2>1. cutShort' = cutShort
      BY <1>8, Zenon DEF Denies
  <2>2. Head(Waiting) \in Nat
      BY <1>8 DEF Denies
  <2>3. /\ Times(c, Waiting') = Times(c, Waiting) - (IF Head(Waiting) = c THEN 1 ELSE 0)
        /\ Times(c, writes') = Times(c, writes) + (IF Head(Waiting) = c THEN 1 ELSE 0)
        /\ Times(c, denied') = Times(c, denied) + (IF Head(Waiting) = c THEN 1 ELSE 0)
      BY <1>1, <1>8, <2>2, TimesTail, TimesAppend DEF Denies
  <2>4. /\ Allowed(c) <= Allowed(c)' + (IF Head(Waiting) = c THEN 1 ELSE 0)
        /\ Allowed(c)' \in Nat /\ Allowed(c) \in Nat
    <3>1. CASE Open' <=> Open
      <4>1. Allowed(c)' = Allowed(c)
          BY <1>8, <3>1, Zenon DEF Denies, Allowed
      <4> QED BY <2>2, <4>1 DEF Allowed
    <3>2. CASE Head(Waiting) = change
      <4>1. CASE c = change
          BY <1>1, <1>8, <3>2, <4>1 DEF Denies, Allowed
      <4>2. CASE c # change
          BY <1>1, <1>8, <3>2, <4>2 DEF Denies, Allowed
      <4> QED BY <4>1, <4>2
    <3> QED BY <1>8, <3>1, <3>2 DEF Denies
  <2> QED BY <1>t, <1>p, <2>1, <2>2, <2>3, <2>4
<1> QED BY <1>2, <1>3, <1>4, <1>5, <1>6, <1>7, <1>8

\* A judgment that is adopted starts counting anew.
LEMMA AdoptTries ==
    ASSUME NEW h \in BOOLEAN, Adopt(h), change \in Nat, Idle', cutShort' = cutShort,
           cutShort \in Seq(Nat), faults' = faults, Len(cutShort) <= faults
    PROVE  TriesInv'
<1>1. file'.attempts = 0 /\ tries' = 0 /\ change' \in Nat
    BY DEF Adopt, Judgment
<1>2. Out' = 0
    BY Zenon DEF Out
<1>3. Times(change', cutShort') \in Nat
    BY <1>1, TimesBounded
<1>4. Times(change, cutShort)' = Times(change', cutShort')
    BY DEF Times
<1> QED BY <1>1, <1>2, <1>3, <1>4 DEF TriesInv

LEMMA TriesStep == ASSUME TypeInv, TypeInv', TriesInv, [Next]_vars PROVE TriesInv'
<1> DEFINE K == Times(change, cutShort)
<1>h. /\ home \in BOOLEAN /\ change \in Nat /\ faults \in 0..MaxFaults /\ tries \in Nat
      /\ cutShort \in Seq(Nat) /\ (file # None => file \in Judgments)
    BY DEF TypeInv, TypeOK
<1>a. ~Idle => asking \in BOOLEAN /\ file \in Judgments /\ file # None
    BY <1>h, Zenon DEF TypeInv, TypeOK, Idle
<1>k. /\ K \in Nat /\ K <= Len(cutShort) /\ K <= MaxFaults
      /\ Len(cutShort) \in Nat /\ Len(cutShort) <= faults
  <2>1. K \in Nat /\ K <= Len(cutShort)
      BY <1>h, TimesBounded
  <2>2. Len(cutShort) \in Nat /\ Len(cutShort) <= faults
      BY <1>h DEF TriesInv
  <2> HIDE DEF K
  <2> QED BY <1>h, <2>1, <2>2, BoundsAssumption
<1>o. (Idle => Out = 0) /\ (~Idle => Out = 1) /\ (Idle' => Out' = 0) /\ (~Idle' => Out' = 1)
    BY Zenon DEF Out
<1>t. file # None => /\ file.attempts \in Nat /\ file.attempts + 1 <= MaxAttempts
                     /\ file.attempts + Out <= tries /\ tries <= file.attempts + Out + K
    BY <1>h, MaxAttemptsAssumption DEF TriesInv, Judgments
<1>r. RunEnds => Idle'
    BY DEF RunEnds, Idle
<1>1. CASE Move \/ Reject \/ WriteFails \/ Take \/ Start \/ UNCHANGED vars
  <2>1. UNCHANGED <<faults, file, asking, change, cutShort, tries>>
      BY <1>1 DEF Move, Reject, WriteFails, Take, Start, history, vars
  <2>2. Out' = Out
      BY <2>1, Zenon DEF Out, Idle
  <2> QED BY <2>1, <2>2, Zenon DEF TriesInv, Times
<1>2. CASE Stop
  <2>1. UNCHANGED <<file, asking, change, cutShort, tries>> /\ faults' = faults + 1
      BY <1>2 DEF Stop, Fault
  <2>2. Out' = Out
      BY <2>1, Zenon DEF Out, Idle
  <2>3. Len(cutShort') <= faults'
      BY <1>h, <1>k, <2>1
  <2> QED BY <2>1, <2>2, <2>3, Zenon DEF TriesInv, Times
<1>3. CASE FirstRun
  <2>1. Idle'
      BY <1>3 DEF FirstRun, Idle
  <2> QED BY <1>3, <1>h, <1>k, <2>1, AdoptTries DEF FirstRun
<1>4. CASE Unchanged
  <2>1. Idle' /\ file'.attempts = 0 /\ tries' = 0 /\ change' = change /\ cutShort' = cutShort
        /\ faults' = faults
      BY <1>4 DEF Unchanged, FailuresForgotten, Judgment, Idle
  <2>2. Times(change, cutShort)' = K
      BY <2>1 DEF Times
  <2> HIDE DEF K
  <2> QED BY <1>k, <1>o, <2>1, <2>2 DEF TriesInv
<1>5. CASE Ask
  <2>1. /\ file # None /\ Idle /\ file' = file /\ change' = change /\ cutShort' = cutShort
        /\ faults' = faults /\ tries' = Tried
      BY <1>5 DEF Ask, Differs
  <2>2. ~Idle'
    <3>1. asking' \in BOOLEAN
        BY <1>5, <1>h DEF Ask
    <3> QED BY <3>1, NoneAssumption, Zenon DEF Idle
  <2>3. Tried = tries + 1
      BY <1>h, <1>t, <1>o, <1>k, <2>1, MaxAttemptsAssumption, BoundsAssumption DEF Tried
  <2>4. Times(change, cutShort)' = K
      BY <2>1 DEF Times
  <2> HIDE DEF K
  <2> QED BY <1>h, <1>k, <1>t, <1>o, <2>1, <2>2, <2>3, <2>4 DEF TriesInv
<1>6. CASE AskNobody
  <2>1. /\ file # None /\ Idle /\ Idle' /\ cutShort' = cutShort /\ faults' = faults /\ NotTaken(home)
        /\ tries' = IF change' = change THEN Tried ELSE 0
      BY <1>6 DEF AskNobody, Differs, Idle
  <2>2. CASE Adopt(home)
      BY <1>h, <1>k, <2>1, <2>2, AdoptTries
  <2>3. CASE file'.attempts = file.attempts + 1 /\ change' = change
    <3>1. Tried = tries + 1
        BY <1>h, <1>t, <1>o, <1>k, <2>1, MaxAttemptsAssumption, BoundsAssumption DEF Tried
    <3>2. Times(change, cutShort)' = K
        BY <2>1, <2>3 DEF Times
    <3> HIDE DEF K
    <3> QED BY <1>h, <1>k, <1>t, <1>o, <2>1, <2>3, <3>1, <3>2 DEF TriesInv
  <2> QED BY <1>h, <2>1, <2>2, <2>3, NotTakenCases
<1>7. CASE Rejected
  <2>1. /\ ~Idle /\ Idle' /\ cutShort' = cutShort /\ faults' = faults /\ NotTaken(asking)
        /\ tries' = IF change' = change THEN tries ELSE 0
      BY <1>7, <1>r DEF Rejected
  <2>2. CASE Adopt(asking)
      BY <1>h, <1>a, <1>k, <2>1, <2>2, AdoptTries
  <2>3. CASE file'.attempts = file.attempts + 1 /\ change' = change
    <3>2. Times(change, cutShort)' = K
        BY <2>1, <2>3 DEF Times
    <3> HIDE DEF K
    <3> QED BY <1>h, <1>a, <1>k, <1>t, <1>o, <2>1, <2>3, <3>2 DEF TriesInv
  <2> QED BY <1>a, <1>h, <2>1, <2>2, <2>3, NotTakenCases
<1>8. CASE Accepted \/ NoAnswer
  <2>1. ~Idle /\ Idle' /\ cutShort' = cutShort /\ faults' = faults /\ Adopt(asking)
      BY <1>8, <1>r DEF Accepted, NoAnswer, UnknownIsTaken
  <2> QED BY <1>h, <1>a, <1>k, <2>1, AdoptTries
<1>9. CASE CutShort
  <2>1. /\ ~Idle /\ Idle' /\ cutShort' = Append(cutShort, change) /\ faults' = faults + 1
        /\ file' = file /\ change' = change /\ tries' = tries
      BY <1>9, <1>r DEF CutShort, Fault
  <2>2. Times(change', cutShort') = K + 1
      BY <1>h, <2>1, TimesAppend
  <2>3. Times(change, cutShort)' = Times(change', cutShort')
      BY DEF Times
  <2>4. Len(cutShort') = Len(cutShort) + 1
      BY <1>h, <2>1
  <2> HIDE DEF K
  <2> QED BY <1>h, <1>a, <1>k, <1>t, <1>o, <2>1, <2>2, <2>3, <2>4 DEF TriesInv
<1>10. CASE FileLost
  <2>1. file' = None /\ cutShort' = cutShort /\ faults' = faults + 1
      BY <1>10 DEF FileLost, Fault, history
  <2>2. Len(cutShort') <= faults'
      BY <1>h, <1>k, <2>1
  <2> QED BY <2>1, <2>2, Zenon DEF TriesInv
<1> QED BY <1>1, <1>2, <1>3, <1>4, <1>5, <1>6, <1>7, <1>8, <1>9, <1>10 DEF Next, Run

-----------------------------------------------------------------------------
(* The invariant. *)

LEMMA InitIInv == Init => IInv
<1> SUFFICES ASSUME Init PROVE IInv
    OBVIOUS
<1>1. TypeInv
    BY InitTypeInv
<1>2. /\ Waiting = <<>> /\ writes = <<>> /\ cutShort = <<>> /\ denied = <<>>
      /\ faults = 0 /\ file = None
    BY DEF Init, Waiting
<1>3. OrderInv
    BY <1>2 DEF OrderInv, LatestWins
<1>4. OnceInv
    BY <1>2, TimesEmpty DEF OnceInv, Allowed
<1>5. TriesInv
    BY <1>2 DEF TriesInv
<1> QED BY <1>1, <1>3, <1>4, <1>5 DEF IInv

LEMMA NextIInv == IInv /\ [Next]_vars => IInv'
<1> SUFFICES ASSUME IInv, [Next]_vars PROVE IInv'
    OBVIOUS
<1>1. TypeInv /\ TypeInv' /\ OrderInv /\ OnceInv /\ TriesInv
    BY NextTypeInv DEF IInv
<1>2. Kept \/ Adopts \/ Asks \/ Forgets \/ Refuses \/ Denies \/ Writes
    BY <1>1, StepEffects
<1>3. Waiting \in Seq(Nat) /\ change' \in Nat
    BY <1>1, WaitingType DEF TypeInv, TypeOK
<1>4. OrderInv'
    BY <1>1, <1>2, <1>3, OrderStep
<1>5. OnceInv'
    BY <1>1, <1>2, <1>3, OnceStep
<1>6. TriesInv'
    BY <1>1, TriesStep
<1> QED BY <1>1, <1>4, <1>5, <1>6 DEF IInv

\* A change is given up by a request that goes nowhere or is refused, the last of
\* its own.
LEMMA GivenUpStep ==
    ASSUME IInv, [Next]_vars, Differs \/ answer = "rejected", file # None,
           change' = change + 1
    PROVE  tries + (IF Differs THEN 1 ELSE 0) \in
               MaxAttempts..MaxAttempts + Times(change, cutShort)
<1> DEFINE K == Times(change, cutShort)
<1>h. /\ home \in BOOLEAN /\ change \in Nat /\ tries \in Nat
      /\ cutShort \in Seq(Nat) /\ file \in Judgments
    BY DEF IInv, TypeInv, TypeOK
<1>k. K \in Nat
    BY <1>h, TimesBounded
<1>o. (Idle => Out = 0) /\ (~Idle => Out = 1)
    BY Zenon DEF Out
<1>t. /\ file.attempts \in Nat /\ file.attempts + Out <= tries /\ tries <= file.attempts + Out + K
    BY <1>h DEF IInv, TriesInv, Judgments
<1>n. change' # change
    BY <1>h
<1>1. CASE AskNobody
  <2>1. NotTaken(home) /\ Differs /\ Idle
      BY <1>1 DEF AskNobody, Differs
  <2>2. file.attempts + 1 = MaxAttempts
      BY <1>h, <1>n, <2>1, NotTakenCases
  <2>3. (IF Differs THEN 1 ELSE 0) = 1
      BY <2>1, Zenon
  <2> HIDE DEF K
  <2>4. tries + 1 \in MaxAttempts..MaxAttempts + K
      BY <1>h, <1>k, <1>t, <1>o, <2>1, <2>2, MaxAttemptsAssumption
  <2> QED BY <2>3, <2>4, Zenon DEF K
<1>2. CASE Rejected
  <2>1. NotTaken(asking) /\ ~Idle /\ ~Differs
      BY <1>2 DEF Rejected, Differs
  <2>2. asking \in BOOLEAN
      BY <2>1, Zenon DEF IInv, TypeInv, TypeOK, Idle
  <2>3. file.attempts + 1 = MaxAttempts
      BY <1>h, <1>n, <2>1, <2>2, NotTakenCases
  <2>4. (IF Differs THEN 1 ELSE 0) = 0
      BY <2>1, Zenon
  <2> HIDE DEF K
  <2>5. tries + 0 \in MaxAttempts..MaxAttempts + K
      BY <1>h, <1>k, <1>t, <1>o, <2>1, <2>3, MaxAttemptsAssumption
  <2> QED BY <2>4, <2>5, Zenon DEF K
<1>3. ~Accepted /\ ~NoAnswer
    BY NoneAssumption, Zenon DEF Accepted, NoAnswer, Differs
<1>4. ~FirstRun
    BY DEF FirstRun
<1>5. CASE Move \/ Unchanged \/ Ask \/ CutShort \/ FileLost \/ Reject \/ WriteFails \/ Take
           \/ Stop \/ Start \/ UNCHANGED vars
    BY <1>5, <1>n, Zenon DEF Move, Unchanged, Ask, CutShort, FileLost, Reject, WriteFails, Take,
                           Stop, Start, history, vars
<1> QED BY <1>1, <1>2, <1>3, <1>4, <1>5 DEF Next, Run

-----------------------------------------------------------------------------
(* The theorems. *)

LEMMA Invariance == Spec => []IInv
BY InitIInv, NextIInv, PTL DEF Spec

\* Every variable keeps its type, and at most the request made last is waited for.
THEOREM TypeCorrect == Spec => []TypeOK
<1>1. IInv => TypeOK
    BY DEF IInv, TypeInv
<1> QED BY <1>1, Invariance, PTL

\* "1 回だけ送る" (the README), as far as it holds: one change of presence is written
\* once, and once more for each run cut short between asking and storing and for each
\* refusal told of a frame that had gone.
THEOREM WrittenOnceCorrect == Spec => []WrittenOnce
<1>1. IInv => WrittenOnce
  <2> SUFFICES ASSUME IInv, NEW c \in 0..change
               PROVE  Times(c, writes) <= 1 + Times(c, cutShort) + Times(c, denied)
      BY DEF WrittenOnce
  <2>1. /\ c \in Nat /\ writes \in Seq(Nat) /\ cutShort \in Seq(Nat) /\ denied \in Seq(Nat)
        /\ Waiting \in Seq(Nat)
      BY WaitingType DEF IInv, TypeInv, TypeOK
  <2>2. /\ Times(c, writes) \in Nat /\ Times(c, Waiting) \in Nat
        /\ Times(c, cutShort) \in Nat /\ Times(c, denied) \in Nat
      BY <2>1, TimesBounded
  <2>3. Times(c, writes) + Times(c, Waiting)
            <= Times(c, cutShort) + Times(c, denied) + Allowed(c)
      BY <2>1 DEF IInv, OnceInv
  <2>4. Allowed(c) \in {0, 1}
      BY Zenon DEF Allowed
  <2> QED BY <2>2, <2>3, <2>4
<1> QED BY <1>1, Invariance, PTL

\* What is written follows the order of the changes, also for requests that nobody
\* waits for any more.
THEOREM LatestWinsCorrect == Spec => []LatestWins
<1>1. IInv => LatestWins
    BY DEF IInv, OrderInv
<1> QED BY <1>1, Invariance, PTL

\* A change is given up after its own attempts, all of them (run's comment).
THEOREM GivenUpInFullCorrect == Spec => GivenUpInFull
<1>1. IInv /\ [Next]_vars =>
          [(Differs \/ answer = "rejected") /\ file # None /\ change' = change + 1 =>
               tries + (IF Differs THEN 1 ELSE 0) \in
                   MaxAttempts..MaxAttempts + Times(change, cutShort)]_vars
    BY GivenUpStep
<1> QED BY <1>1, Invariance, PTL DEF Spec, GivenUpInFull
=================================================================================
