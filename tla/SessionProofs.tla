------------------------------ MODULE SessionProofs ------------------------------
(*****************************************************************************)
(* Proofs about Session.  Both sides of a negotiation understand each other, *)
(* whatever is lost and however late an answer comes: each dialect has one   *)
(* request under way at most, and a cooler whose dialect was not tried yet   *)
(* is as it began.  Every notification is in one event, and what is joined   *)
(* is one message: what is collected lies in a row, with nothing that came   *)
(* in between, so that fragments of two messages have as many lost ones      *)
(* between them as a message has.                                            *)
(*****************************************************************************)
EXTENDS Session, SequenceTheorems, FunctionTheorems, FiniteSetTheorems,
        NaturalsInduction, WellFoundedInduction, TLAPS

NegotiationType ==
    /\ negotiation \in [variant : Dialects, cipher : {"none", "static", "session"},
                        mtu : {"default", "other"}, done : BOOLEAN, seen : BOOLEAN]
    /\ cooler \in [dialect : Dialects, cipher : {"none", "static", "session"},
                   mtu : {"default", "other"}, agrees : {"default", "other"}]
    /\ asked \subseteq [dialect : Dialects, stage : Nat \ {0},
                        cipher : {"none", "static", "session"}]

\* One request of each dialect is under way at most, and the second dialect has
\* none before it is tried.
OneRequest ==
    /\ \A r, s \in asked : r.dialect = s.dialect => r = s
    /\ negotiation.variant = "solix" => \A r \in asked : r.dialect = "solix"

\* A cooler that has not been spoken to yet is as Init left it.
Untouched ==
    negotiation.variant = "solix" /\ cooler.dialect = "prime" =>
        cooler.cipher = "static" /\ cooler.mtu = "default"

\* How far the request under way says that both have come.
InStep ==
    \A r \in asked :
        /\ r.dialect = cooler.dialect => r.cipher = cooler.cipher
        /\ r.dialect = negotiation.variant => r.cipher = negotiation.cipher
        /\ r.dialect = cooler.dialect /\ r.dialect = negotiation.variant =>
               /\ r.stage > KeyStage => r.cipher = "session"
               /\ r.stage > MtuStage => /\ negotiation.mtu = cooler.agrees
                                        /\ cooler.mtu = cooler.agrees
               /\ negotiation.done => r.stage > LastStage(r.dialect)

\* What a finished negotiation has come to.
Finished ==
    negotiation.done => /\ negotiation.variant = cooler.dialect
                        /\ negotiation.cipher = "session" /\ cooler.cipher = "session"
                        /\ negotiation.mtu = cooler.mtu

Inv == NegotiationType /\ OneRequest /\ Untouched /\ InStep /\ Finished

-----------------------------------------------------------------------------

LEMMA InitInv == Init => Inv
<1> SUFFICES ASSUME Init PROVE Inv
    OBVIOUS
<1>1. NegotiationType
    BY DEF Init, NegotiationType, Handshake, Request, Dialects
<1>2. OneRequest /\ Untouched /\ InStep /\ Finished
    BY DEF Init, OneRequest, Untouched, InStep, Finished, Handshake, Request, Dialects,
           KeyStage, MtuStage
<1> QED BY <1>1, <1>2 DEF Inv

\* An answer: the one request of its dialect is gone, and when it is the dialect
\* spoken, the next one is written in what both have just gone over to.
LEMMA AnswerInv == ASSUME Inv, NEW r \in asked, Answer(r) PROVE Inv'
<1>1. r.dialect = cooler.dialect /\ r.cipher = cooler.cipher /\ r.stage <= LastStage(r.dialect)
    BY DEF Answer
<1>2. /\ r.dialect \in Dialects /\ r.stage \in Nat \ {0}
      /\ r.cipher \in {"none", "static", "session"}
    BY DEF Inv, NegotiationType
<1>3. cooler' \in [dialect : Dialects, cipher : {"none", "static", "session"},
                   mtu : {"default", "other"}, agrees : {"default", "other"}]
    BY DEF Answer, Inv, NegotiationType
<1>4. CASE r.dialect = negotiation.variant /\ Negotiate(r)
  <2> DEFINE next == Request(Advance(negotiation, r.stage), r.stage + 1)
  <2>1. negotiation' = Advance(negotiation, r.stage) /\ asked' = (asked \ {r}) \union {next}
      BY <1>4 DEF Negotiate, Reply
  <2>2. /\ negotiation'.variant = negotiation.variant
        /\ negotiation'.cipher = (IF r.stage = KeyStage THEN "session" ELSE negotiation.cipher)
        /\ negotiation'.mtu = (IF r.stage = MtuStage THEN cooler.agrees ELSE negotiation.mtu)
        /\ negotiation'.done = (negotiation.done \/ r.stage = LastStage(r.dialect))
      BY <1>4, <2>1 DEF Advance, Inv, NegotiationType
  <2>3. /\ cooler'.dialect = cooler.dialect /\ cooler'.agrees = cooler.agrees
        /\ cooler'.cipher = (IF r.stage = KeyStage THEN "session" ELSE cooler.cipher)
        /\ cooler'.mtu = (IF r.stage = MtuStage THEN cooler.agrees ELSE cooler.mtu)
      BY DEF Answer, Inv, NegotiationType
  <2>4. next.dialect = r.dialect /\ next.stage = r.stage + 1 /\ next.cipher = negotiation'.cipher
      BY <1>4, <2>1, <2>2 DEF Request
  <2>5. negotiation' \in [variant : Dialects, cipher : {"none", "static", "session"},
                          mtu : {"default", "other"}, done : BOOLEAN, seen : BOOLEAN]
      BY <2>1 DEF Advance, Inv, NegotiationType
  <2>6. next \in [dialect : Dialects, stage : Nat \ {0}, cipher : {"none", "static", "session"}]
      BY <1>2, <1>4, <2>1, <2>5 DEF Request
  <2> HIDE DEF next
  <2>7. NegotiationType'
      BY <1>3, <2>1, <2>5, <2>6 DEF Inv, NegotiationType
  <2>8. OneRequest'
      BY <1>4, <2>1, <2>2, <2>4 DEF Inv, OneRequest
  <2>9. Untouched'
      BY <1>1, <1>4, <2>2, <2>3 DEF Inv, Untouched
  <2>10. \A s \in asked' : s.dialect = r.dialect => s = next
      BY <2>1 DEF Inv, OneRequest
  <2>11. ~negotiation.done
      BY <1>1, <1>2, <1>4 DEF Inv, InStep, LastStage
  <2>12. next.cipher = cooler'.cipher
      BY <1>1, <1>4, <2>2, <2>3, <2>4 DEF Inv, InStep
  <2>13. r.stage \in Nat /\ r.stage + 1 > r.stage
      BY <1>2
  <2>14. InStep'
    <3>1. \A s \in asked' : s = next \/ (s \in asked /\ s.dialect # r.dialect)
        BY <2>1, <2>10
    <3>2. next.stage > KeyStage => next.cipher = "session"
        BY <1>1, <1>2, <1>4, <2>2, <2>4 DEF Inv, InStep, KeyStage
    <3>3. next.stage > MtuStage => /\ negotiation'.mtu = cooler'.agrees
                                   /\ cooler'.mtu = cooler'.agrees
        BY <1>1, <1>2, <1>4, <2>2, <2>3, <2>4 DEF Inv, InStep, MtuStage
    <3>4. negotiation'.done => next.stage > LastStage(next.dialect)
      <4>1. negotiation'.done => r.stage = LastStage(r.dialect)
          BY <2>2, <2>11, Zenon
      <4> QED BY <2>4, <2>13, <4>1
    <3>5. cooler'.dialect = r.dialect /\ negotiation'.variant = r.dialect
        BY <1>1, <1>4, <2>2, <2>3
    <3>6. \A s \in asked' : s.dialect = r.dialect => s = next
        BY <3>1
    <3> QED BY <2>4, <2>12, <3>2, <3>3, <3>4, <3>5, <3>6, Zenon DEF InStep
  <2>15. Finished'
    <3>1. CASE r.stage = LastStage(r.dialect)
      <4>1. r.stage \in {5, 7}
          BY <3>1 DEF LastStage
      <4>2. negotiation'.cipher = "session" /\ cooler'.cipher = "session"
          BY <1>1, <1>4, <2>2, <2>3, <4>1 DEF Inv, InStep, KeyStage
      <4>3. negotiation'.mtu = cooler'.mtu
          BY <1>1, <1>4, <2>2, <2>3, <4>1 DEF Inv, InStep, MtuStage
      <4> QED BY <1>1, <1>4, <2>2, <2>3, <4>2, <4>3 DEF Finished
    <3>2. CASE r.stage # LastStage(r.dialect)
        BY <2>2, <2>11, <3>2, Zenon DEF Finished
    <3> QED BY <3>1, <3>2
  <2> QED BY <2>7, <2>8, <2>9, <2>14, <2>15 DEF Inv
<1>5. CASE /\ asked' = asked \ {r}
           /\ r.dialect # negotiation.variant \/ negotiation' = negotiation
           /\ negotiation' \in {negotiation, [negotiation EXCEPT !.seen = TRUE]}
  <2>1. /\ negotiation'.variant = negotiation.variant /\ negotiation'.done = negotiation.done
        /\ negotiation'.cipher = negotiation.cipher /\ negotiation'.mtu = negotiation.mtu
      BY <1>5 DEF Inv, NegotiationType
  <2>2. negotiation' \in [variant : Dialects, cipher : {"none", "static", "session"},
                          mtu : {"default", "other"}, done : BOOLEAN, seen : BOOLEAN]
      BY <1>5 DEF Inv, NegotiationType
  <2>3. cooler'.dialect = cooler.dialect /\ cooler'.agrees = cooler.agrees
      BY DEF Answer, Inv, NegotiationType
  <2>4. \A s \in asked' : s \in asked /\ s.dialect # cooler.dialect
      BY <1>1, <1>5 DEF Inv, OneRequest
  <2>5. NegotiationType'
      BY <1>3, <1>5, <2>2 DEF Inv, NegotiationType
  <2>6. OneRequest'
      BY <1>5, <2>1 DEF Inv, OneRequest
  <2>7. Untouched'
      BY <1>1, <2>1, <2>3 DEF Inv, OneRequest, Untouched
  <2>8. InStep'
      BY <2>1, <2>3, <2>4 DEF Inv, InStep
  <2>9. Finished'
    <3>1. CASE negotiation.done
      <4>1. FALSE
          BY <1>1, <1>2, <3>1 DEF Inv, Finished, InStep, LastStage
      <4> QED BY <4>1
    <3>2. CASE ~negotiation.done
        BY <2>1, <3>2 DEF Finished
    <3> QED BY <3>1, <3>2
  <2> QED BY <2>5, <2>6, <2>7, <2>8, <2>9 DEF Inv
<1>6. CASE r.dialect # negotiation.variant /\ Negotiate(r)
    BY <1>5, <1>6 DEF Negotiate
<1>7. CASE asked' = asked \ {r} /\ negotiation' = negotiation
    BY <1>5, <1>7
<1> QED BY <1>4, <1>6, <1>7 DEF Answer

LEMMA TryNextVariantInv == ASSUME Inv, TryNextVariant PROVE Inv'
<1> DEFINE first == Request(NextVariant, 1)
<1>1. /\ negotiation' = NextVariant /\ asked' = asked \union {first} /\ cooler' = cooler
      /\ negotiation.variant = "solix"
    BY DEF TryNextVariant
<1>2. first = [dialect |-> "prime", stage |-> 1, cipher |-> "static"]
    BY DEF Request, NextVariant, Handshake
<1>3. /\ negotiation'.variant = "prime" /\ negotiation'.cipher = "static"
      /\ negotiation'.mtu = "default" /\ negotiation'.done = FALSE
    BY <1>1 DEF NextVariant, Handshake
<1>4. NegotiationType'
    BY <1>1, <1>2 DEF Inv, NegotiationType, NextVariant, Handshake, Dialects
<1>5. OneRequest'
    BY <1>1, <1>2, <1>3 DEF Inv, OneRequest
<1>6. Untouched' /\ Finished'
    BY <1>3 DEF Untouched, Finished
<1>7. InStep'
    BY <1>1, <1>2, <1>3 DEF Inv, OneRequest, Untouched, InStep, KeyStage, MtuStage
<1> QED BY <1>4, <1>5, <1>6, <1>7 DEF Inv

LEMMA NextInv == Inv /\ [Next]_vars => Inv'
<1> SUFFICES ASSUME Inv, [Next]_vars PROVE Inv'
    OBVIOUS
<1>1. CASE \E r \in asked : Answer(r)
    BY <1>1, AnswerInv
<1>2. CASE TryNextVariant
    BY <1>2, TryNextVariantInv
<1>3. CASE UNCHANGED <<negotiation, cooler, asked>>
    BY <1>3 DEF Inv, NegotiationType, OneRequest, Untouched, InStep, Finished
<1> QED BY <1>1, <1>2, <1>3 DEF Next, Send, Repeat, Leave, Raise, vars

-----------------------------------------------------------------------------
(* What is collected and told. *)

Notification == [key : Keys, number : Nat, copy : Nat]
MessageEvent == [frames : Seq(Notification), error : {"none", "out of order", "incomplete"}]

Collection ==
    /\ pending \in [Keys -> Seq(Notification)]
    /\ phase \in {"open", "left", "raised"}
    /\ sent \in [Keys -> Nat] /\ twice \in Nat
    /\ handled \subseteq Notification
    /\ told \subseteq MessageEvent

\* Nothing came in that was not sent.
WasSent == \A n \in handled : n.number < sent[n.key] /\ n.copy <= twice

Members(s) == {s[i] : i \in DOMAIN s}

\* Every notification that came in is in one event or is being collected, and
\* nothing else is.
HeldOnce ==
    /\ \A k \in Keys : \A n \in Members(pending[k]) : n \in handled /\ n.key = k
    /\ \A e \in told : Frames(e) \subseteq handled
    /\ \A d, e \in told : Frames(d) \intersect Frames(e) # {} => d = e
    /\ phase # "left" => \A e \in told, k \in Keys : Frames(e) \intersect Members(pending[k]) = {}
    /\ \A n \in handled : \/ \E e \in told : n \in Frames(e)
                          \/ phase # "left" /\ n \in Members(pending[n.key])

\* Fragments of kind k in the order of a message, and none of the kind that came
\* in was sent between two of them.
InARow(s, k) ==
    \A i \in 1..Len(s) :
        /\ s[i].key = k /\ Index(s[i]) = i
        /\ i > 1 => /\ s[i - 1].number < s[i].number
                    /\ \A m \in handled : m.key = k =>
                           m.number <= s[i - 1].number \/ s[i].number <= m.number

\* The fragment collected last is the last that came in.
NothingSince(s, k) ==
    s # <<>> => \A m \in handled : m.key = k => m.number <= s[Len(s)].number

CollectedInARow ==
    \A k \in Keys : /\ InARow(pending[k], k) /\ NothingSince(pending[k], k)
                    /\ Len(pending[k]) < Fragments[k]

JoinedInARow ==
    \A e \in told : e.error = "none" /\ Len(e.frames) > 1 =>
        /\ InARow(e.frames, e.frames[1].key)
        /\ Len(e.frames) = Fragments[e.frames[1].key]

CollectionInv == Collection /\ WasSent /\ HeldOnce /\ CollectedInARow /\ JoinedInARow

-----------------------------------------------------------------------------
(* Sequences, numbers and their least. *)

LEMMA MembersOfAppend ==
    ASSUME NEW S, NEW s \in Seq(S), NEW x \in S
    PROVE  Members(Append(s, x)) = Members(s) \union {x}
<1>1. Append(s, x) \in Seq(S) /\ Len(Append(s, x)) = Len(s) + 1 /\ Len(s) \in Nat
    BY AppendProperties, LenProperties
<1>2. DOMAIN Append(s, x) = 1..Len(s) + 1 /\ DOMAIN s = 1..Len(s)
    BY <1>1, LenProperties
<1>3. /\ \A i \in 1..Len(s) : Append(s, x)[i] = s[i]
      /\ Append(s, x)[Len(s) + 1] = x
    BY AppendProperties
<1>. PICK a \in Seq(S), l \in Nat : a = Append(s, x) /\ l = Len(s)
    BY <1>1
<1>4. /\ DOMAIN a = 1..l + 1 /\ DOMAIN s = 1..l
      /\ \A i \in 1..l : a[i] = s[i]
      /\ a[l + 1] = x
    BY <1>2, <1>3
<1>5. Members(a) \subseteq Members(s) \union {x}
    BY <1>4 DEF Members
<1>6. Members(s) \subseteq Members(a)
    BY <1>4 DEF Members
<1>7. x \in Members(a)
    BY <1>4 DEF Members
<1>. QED
    BY <1>5, <1>6, <1>7

LEMMA MembersOfEmpty == Members(<<>>) = {}
BY DEF Members

LEMMA MembersIn ==
    ASSUME NEW S, NEW s \in Seq(S)
    PROVE  /\ Members(s) \subseteq S
           /\ \A i \in 1..Len(s) : s[i] \in Members(s) /\ s[i] \in S
           /\ s # <<>> => Len(s) \in 1..Len(s)
<1>1. Len(s) \in Nat /\ DOMAIN s = 1..Len(s) /\ \A i \in 1..Len(s) : s[i] \in S
    BY LenProperties, ElementOfSeq
<1>2. s # <<>> => Len(s) \in Nat \ {0}
    BY EmptySeq
<1>3. s # <<>> => Len(s) \in 1..Len(s)
    BY <1>2
<1>. QED
    BY <1>1, <1>3 DEF Members

LEMMA HasLeast ==
    ASSUME NEW T \in SUBSET Nat, T # {}
    PROVE  \E i \in T : \A j \in T : i <= j
<1>. DEFINE R == OpToRel(<, Nat)
<1>1. \A ss \in Nat \X Nat : ss \in R <=> ss[1] < ss[2]
    BY DEF OpToRel
<1>2. IsWellFoundedOn(R, Nat)
    BY NatLessThanWellFounded
<1>. HIDE DEF R
<1>3. PICK i \in T : \A j \in T : ~(<<j, i>> \in R)
    BY <1>2, WFMin
<1>4. \A j \in T : <<j, i>> \in Nat \X Nat /\ ~(j < i)
    BY <1>1, <1>3
<1>5. \A j \in T : i <= j
  <2>. SUFFICES ASSUME NEW j \in T PROVE i <= j
      OBVIOUS
  <2>1. j \in Nat /\ i \in Nat /\ ~(j < i)
      BY <1>4
  <2>. QED
      BY <2>1
<1>. QED
    BY <1>5

\* What % and \div leave of a number.
LEMMA DivMod ==
    ASSUME NEW n \in Nat, NEW f \in Nat \ {0}
    PROVE  /\ n \div f \in Nat /\ n % f \in 0..f - 1
           /\ n = f * (n \div f) + (n % f)
OBVIOUS

LEMMA AtLeastOnce ==
    ASSUME NEW f \in Nat \ {0}, NEW d \in Nat, d >= 1
    PROVE  f * d >= f
OBVIOUS

\* Two fragments with following indexes are of one message, or more fragments than a
\* message has were sent between them.
LEMMA FarApart ==
    ASSUME NEW a \in Nat, NEW b \in Nat, NEW f \in Nat \ {0}, NEW i \in Nat,
           a < b, a % f = i, b % f = i + 1, a \div f # b \div f
    PROVE  a + f < b
<1>. DEFINE p == a \div f
            q == b \div f
<1>1. p # q
    OBVIOUS
<1>2. p \in Nat /\ a = f * p + i
    BY DivMod
<1>3. q \in Nat /\ b = f * q + (i + 1)
    BY DivMod, ZenonT(60)
<1>. HIDE DEF p, q
<1>4. ~(q < p)
  <2>. SUFFICES ASSUME q < p PROVE FALSE
      OBVIOUS
  <2>1. f * (p - q) >= f
      BY <1>2, <1>3, AtLeastOnce
  <2>2. f * (p - q) = f * p - f * q
      BY <1>2, <1>3
  <2>. QED
      BY <1>2, <1>3, <2>1, <2>2
<1>5. p < q
    BY <1>1, <1>2, <1>3, <1>4
<1>6. f * (q - p) >= f
    BY <1>2, <1>3, <1>5, AtLeastOnce
<1>7. f * (q - p) = f * q - f * p
    BY <1>2, <1>3
<1>. QED
    BY <1>2, <1>3, <1>6, <1>7

LEMMA SizeBelow ==
    ASSUME NEW c \in Nat
    PROVE  IsFiniteSet(0..c - 1) /\ Cardinality(0..c - 1) = c
<1>. PICK y \in Int : y = c - 1
    OBVIOUS
<1>1. IsFiniteSet(0..y) /\ Cardinality(0..y) = IF 0 > y THEN 0 ELSE y - 0 + 1
    BY FS_Interval
<1>2. Cardinality(0..y) = c
    BY <1>1
<1>. QED
    BY <1>1, <1>2

LEMMA SizeOfRange ==
    ASSUME NEW a \in Nat, NEW f \in Nat
    PROVE  IsFiniteSet(a + 1..a + f) /\ Cardinality(a + 1..a + f) = f
<1>. PICK x \in Int, y \in Int : x = a + 1 /\ y = a + f
    OBVIOUS
<1>1. IsFiniteSet(x..y) /\ Cardinality(x..y) = IF x > y THEN 0 ELSE y - x + 1
    BY FS_Interval
<1>2. Cardinality(x..y) = f
    BY <1>1
<1>. QED
    BY <1>1, <1>2

-----------------------------------------------------------------------------
(* What is collected and told: the steps. *)

LEMMA EventIs ==
    ASSUME NEW frames, NEW error
    PROVE  /\ Event(frames, error).frames = frames /\ Event(frames, error).error = error
           /\ Frames(Event(frames, error)) = Members(frames)
BY DEF Event, Frames, Members

\* A notification is collected behind the others of its kind, or makes an event with
\* all of them.
LEMMA HandleOutcomes ==
    ASSUME Collection, NEW n \in Notification, Handle(n)
    PROVE  /\ handled' = handled \union {n}
           /\ \/ /\ InOrder(n) /\ ~IsLast(n) /\ told' = told
                 /\ pending' = [pending EXCEPT ![n.key] = Append(pending[n.key], n)]
              \/ \E error \in {"none", "out of order"} :
                    /\ told' = told \union {Event(Append(pending[n.key], n), error)}
                    /\ pending' = [pending EXCEPT ![n.key] = <<>>]
                    /\ error = "none" => pending[n.key] = <<>> \/ (InOrder(n) /\ IsLast(n))
<1>. DEFINE k == n.key
            p == pending[k]
<1>1. k \in Keys /\ p \in Seq(Notification)
    BY DEF Collection, Notification
<1>2. handled' = handled \union {n}
    BY DEF Handle
<1>3. CASE ~IsFragment(n)
  <2>1. told' = told \union {Event(<<n>>, "none")} /\ pending' = pending
      BY <1>3 DEF Handle
  <2>2. p = <<>>
      BY <1>3 DEF IsFragment
  <2>3. <<n>> = Append(p, n)
      BY <2>2
  <2>4. pending' = [pending EXCEPT ![k] = <<>>]
      BY <1>1, <2>1, <2>2 DEF Collection
  <2>. QED
      BY <1>2, <2>1, <2>2, <2>3, <2>4
<1>4. CASE IsFragment(n) /\ ~InOrder(n)
  <2>1. told' = told \union {Event(Append(p, n), "out of order")}
      BY <1>4 DEF Handle, Collected
  <2>2. pending' = [pending EXCEPT ![k] = <<>>]
      BY <1>4 DEF Handle, AfterLast
  <2>. QED
      BY <1>2, <2>1, <2>2
<1>5. CASE IsFragment(n) /\ InOrder(n) /\ IsLast(n)
  <2>1. told' = told \union {Event(Append(p, n), "none")}
      BY <1>5 DEF Handle
  <2>2. pending' = [pending EXCEPT ![k] = <<>>]
      BY <1>5 DEF Handle, AfterLast
  <2>. QED
      BY <1>2, <1>5, <2>1, <2>2
<1>6. CASE IsFragment(n) /\ InOrder(n) /\ ~IsLast(n)
  <2>1. told' = told
      BY <1>6 DEF Handle
  <2>2. pending' = [pending EXCEPT ![k] = Append(p, n)]
      BY <1>6 DEF Handle
  <2>. QED
      BY <1>2, <1>6, <2>1, <2>2
<1>. QED
    BY <1>3, <1>4, <1>5, <1>6

LEMMA HandleTypes ==
    ASSUME Collection, NEW n \in Notification, Handle(n)
    PROVE  /\ pending' \in [Keys -> Seq(Notification)]
           /\ handled' \subseteq Notification
           /\ told' \subseteq MessageEvent
<1>1. n.key \in Keys /\ pending[n.key] \in Seq(Notification)
    BY DEF Collection, Notification
<1>2. Append(pending[n.key], n) \in Seq(Notification) /\ <<>> \in Seq(Notification)
    BY <1>1, AppendProperties, EmptySeq
<1>3. \A error \in {"none", "out of order"} : Event(Append(pending[n.key], n), error) \in MessageEvent
    BY <1>2 DEF Event, MessageEvent
<1>4. handled' \subseteq Notification
    BY HandleOutcomes DEF Collection
<1>5. told' \subseteq MessageEvent
  <2>1. \/ told' = told
        \/ \E error \in {"none", "out of order"} :
               told' = told \union {Event(Append(pending[n.key], n), error)}
      BY HandleOutcomes, Zenon
  <2>2. told \subseteq MessageEvent
      BY DEF Collection
  <2>. QED
      BY <1>3, <2>1, <2>2, Zenon
<1>6. \/ pending' = [pending EXCEPT ![n.key] = Append(pending[n.key], n)]
      \/ pending' = [pending EXCEPT ![n.key] = <<>>]
    BY HandleOutcomes
<1>7. pending' \in [Keys -> Seq(Notification)]
    BY <1>1, <1>2, <1>6 DEF Collection
<1>. QED
    BY <1>4, <1>5, <1>7

LEMMA HeldOnceKept ==
    ASSUME HeldOnce, UNCHANGED <<pending, handled, told>>,
           (phase # "left" /\ phase' # "left") \/ phase' = phase
    PROVE  HeldOnce'
<1>1. \A k \in Keys : \A n \in Members(pending'[k]) : n \in handled' /\ n.key = k
    BY DEF HeldOnce
<1>2. \A e \in told' : Frames(e) \subseteq handled'
    BY DEF HeldOnce
<1>3. \A d, e \in told' : Frames(d) \intersect Frames(e) # {} => d = e
    BY DEF HeldOnce
<1>4. phase' # "left" => \A e \in told', k \in Keys : Frames(e) \intersect Members(pending'[k]) = {}
    BY DEF HeldOnce
<1>5. \A n \in handled' : \/ \E e \in told' : n \in Frames(e)
                          \/ phase' # "left" /\ n \in Members(pending'[n.key])
    BY DEF HeldOnce
<1>. QED
    BY <1>1, <1>2, <1>3, <1>4, <1>5, Zenon DEF HeldOnce, Members, Frames

\* A new notification goes into one place.
LEMMA HandleHeldOnce ==
    ASSUME Collection, HeldOnce, NEW n \in Notification, n \notin handled, Handle(n),
           phase = "open", phase' = phase
    PROVE  HeldOnce'
<1>. PICK k \in Keys : k = n.key
    BY DEF Notification
<1>. PICK p \in Seq(Notification), q \in Seq(Notification) : p = pending[k] /\ q = Append(p, n)
    BY AppendProperties DEF Collection
<1>1. Members(q) = Members(p) \union {n} /\ Members(<<>>) = {}
    BY MembersOfAppend, MembersOfEmpty
<1>2. handled' = handled \union {n}
    BY HandleOutcomes
<1>3. /\ \A j \in Keys : \A m \in Members(pending[j]) : m \in handled /\ m.key = j
      /\ \A e \in told : Frames(e) \subseteq handled
      /\ \A d, e \in told : Frames(d) \intersect Frames(e) # {} => d = e
      /\ \A e \in told, j \in Keys : Frames(e) \intersect Members(pending[j]) = {}
      /\ \A m \in handled : \/ \E e \in told : m \in Frames(e)
                            \/ m \in Members(pending[m.key])
    BY DEF HeldOnce
<1>4. \A m \in handled : m.key \in Keys
    BY DEF Collection, Notification
<1>5. CASE told' = told /\ pending' = [pending EXCEPT ![k] = q]
  <2>1. \A j \in Keys : pending'[j] = IF j = k THEN q ELSE pending[j]
      BY <1>5 DEF Collection
  <2>2. \A j \in Keys : Members(pending'[j]) = Members(pending[j]) \union {m \in {n} : j = k}
      BY <1>1, <2>1
  <2>3. \A j \in Keys : \A m \in Members(pending'[j]) : m \in handled' /\ m.key = j
      BY <1>2, <1>3, <2>2
  <2>4. \A e \in told', j \in Keys : Frames(e) \intersect Members(pending'[j]) = {}
    <3>. SUFFICES ASSUME NEW e \in told, NEW j \in Keys, NEW m \in Frames(e), m \in Members(pending'[j])
                  PROVE  FALSE
        BY <1>5
    <3>1. m \in handled /\ m \notin Members(pending[j])
        BY <1>3
    <3>2. m = n
        BY <2>2, <3>1
    <3>. QED
        BY <3>1, <3>2
  <2>5. \A m \in handled' : \/ \E e \in told' : m \in Frames(e)
                            \/ m \in Members(pending'[m.key])
    <3>. SUFFICES ASSUME NEW m \in handled', \A e \in told : m \notin Frames(e)
                  PROVE  m \in Members(pending'[m.key])
        BY <1>5
    <3>1. CASE m \in handled
        BY <1>3, <1>4, <2>2, <3>1, ZenonT(60)
    <3>2. CASE m = n
        BY <2>2, <3>2
    <3>. QED
        BY <1>2, <3>1, <3>2
  <2>6. \A e \in told' : Frames(e) \subseteq handled'
      BY <1>2, <1>3, <1>5
  <2>7. \A d, e \in told' : Frames(d) \intersect Frames(e) # {} => d = e
      BY <1>3, <1>5
  <2>. QED
      BY <2>3, <2>4, <2>5, <2>6, <2>7, Zenon DEF HeldOnce, Members, Frames
<1>6. ASSUME NEW error, told' = told \union {Event(q, error)}, pending' = [pending EXCEPT ![k] = <<>>]
      PROVE  HeldOnce'
  <2>. PICK new : new = Event(q, error)
      OBVIOUS
  <2>1. Frames(new) = Members(p) \union {n} /\ told' = told \union {new}
      BY <1>1, <1>6, EventIs
  <2>2. \A j \in Keys : pending'[j] = IF j = k THEN <<>> ELSE pending[j]
      BY <1>6 DEF Collection
  <2>3. \A j \in Keys : Members(pending'[j]) = IF j = k THEN {} ELSE Members(pending[j])
      BY <1>1, <2>2
  <2>4. Members(p) \subseteq handled
      BY <1>3
  <2>5. \A j \in Keys : \A m \in Members(pending'[j]) : m \in handled' /\ m.key = j
      BY <1>2, <1>3, <2>3
  <2>6. \A e \in told' : Frames(e) \subseteq handled'
      BY <1>2, <1>3, <2>1, <2>4
  <2>7. \A e \in told : Frames(e) \intersect Frames(new) = {}
      BY <1>3, <2>1
  <2>8. \A d, e \in told' : Frames(d) \intersect Frames(e) # {} => d = e
      BY <1>3, <2>1, <2>7
  <2>9. \A e \in told', j \in Keys : Frames(e) \intersect Members(pending'[j]) = {}
    <3>. SUFFICES ASSUME NEW e \in told', NEW j \in Keys, j # k
                  PROVE  Frames(e) \intersect Members(pending[j]) = {}
        BY <2>3
    <3>1. CASE e \in told
        BY <1>3, <3>1
    <3>2. CASE e = new
        BY <1>3, <2>1, <3>2, ZenonT(60)
    <3>. QED
        BY <2>1, <3>1, <3>2
  <2>10. \A m \in handled' : \/ \E e \in told' : m \in Frames(e)
                             \/ m \in Members(pending'[m.key])
      BY <1>2, <1>3, <1>4, <2>1, <2>3
  <2>. QED
      BY <2>5, <2>6, <2>8, <2>9, <2>10, Zenon DEF HeldOnce, Members, Frames
<1>. QED
    BY <1>5, <1>6, HandleOutcomes, ZenonT(60)

\* What lies in a row stays so when a later fragment comes in.
LEMMA InARowKept ==
    ASSUME NEW s \in Seq(Notification), NEW k, InARow(s, k), Members(s) \subseteq handled,
           handled \subseteq Notification, NEW n \in Notification, handled' = handled \union {n},
           \A m \in handled : m.key = n.key => m.number <= n.number
    PROVE  InARow(s, k)'
<1>1. \A i \in 1..Len(s) : s[i] \in handled
    BY MembersIn
<1>2. \A i \in 1..Len(s) : s[i].key = k /\ Index(s[i]) = i
    BY DEF InARow
<1>3. ASSUME NEW i \in 1..Len(s), i > 1
      PROVE  /\ s[i - 1].number < s[i].number
             /\ \A m \in handled' : m.key = k => m.number <= s[i - 1].number \/ s[i].number <= m.number
  <2>1. /\ s[i - 1].number < s[i].number
        /\ \A m \in handled : m.key = k => m.number <= s[i - 1].number \/ s[i].number <= m.number
      BY <1>3 DEF InARow
  <2>2. n.key = k => s[i].number <= n.number
      BY <1>1, <1>2
  <2>. QED
      BY <2>1, <2>2
<1>. QED
    BY <1>2, <1>3 DEF InARow

\* A fragment in order goes on with the row.
LEMMA InARowAppend ==
    ASSUME NEW s \in Seq(Notification), NEW n \in Notification, InARow(s, n.key), NothingSince(s, n.key),
           Members(s) \subseteq handled,
           handled \subseteq Notification, handled' = handled \union {n},
           \A m \in handled : m.key = n.key => m.number <= n.number,
           Index(n) = Len(s) + 1,
           s # <<>> => s[Len(s)].number < n.number
    PROVE  InARow(Append(s, n), n.key)'
<1>. PICK q \in Seq(Notification), l \in Nat : q = Append(s, n) /\ l = Len(s)
    BY AppendProperties, LenProperties
<1>1. /\ Len(q) = l + 1 /\ q[l + 1] = n
      /\ \A i \in 1..l : q[i] = s[i]
    BY AppendProperties
<1>2. InARow(s, n.key)'
    BY InARowKept
<1>3. \A i \in 1..Len(q) : q[i].key = n.key /\ Index(q[i]) = i
  <2>. SUFFICES ASSUME NEW i \in 1..Len(q) PROVE q[i].key = n.key /\ Index(q[i]) = i
      OBVIOUS
  <2>1. CASE i \in 1..l
      BY <1>1, <2>1 DEF InARow
  <2>2. CASE i = l + 1
      BY <1>1, <2>2
  <2>. QED
      BY <1>1, <2>1, <2>2
<1>4. ASSUME NEW i \in 1..Len(q), i > 1
      PROVE  /\ q[i - 1].number < q[i].number
             /\ \A m \in handled' : m.key = n.key => m.number <= q[i - 1].number \/ q[i].number <= m.number
  <2>1. CASE i \in 1..l
    <3>1. q[i] = s[i] /\ q[i - 1] = s[i - 1]
        BY <1>1, <1>4, <2>1
    <3>. QED
        BY <1>2, <1>4, <2>1, <3>1 DEF InARow
  <2>2. CASE i = l + 1
    <3>1. q[i] = n /\ q[i - 1] = s[l] /\ s # <<>>
        BY <1>1, <1>4, <2>2
    <3>2. \A m \in handled : m.key = n.key => m.number <= s[l].number
        BY <3>1 DEF NothingSince
    <3>3. n.number <= n.number
        BY DEF Notification
    <3>. QED
        BY <3>1, <3>2, <3>3
  <2>3. i \in 1..l \/ i = l + 1
      BY <1>1
  <2>. QED
      BY <2>1, <2>2, <2>3, Zenon
<1>. QED
    BY <1>3, <1>4 DEF InARow

LEMMA NothingCollected ==
    ASSUME NEW k \in Keys
    PROVE  InARow(<<>>, k)' /\ NothingSince(<<>>, k)' /\ Len(<<>>) < Fragments[k]
<1>1. Fragments[k] \in Nat \ {0, 1} /\ Len(<<>>) = 0
    BY FragmentsAssumption
<1>2. \A i \in 1..Len(<<>>) : FALSE
    BY <1>1
<1>3. InARow(<<>>, k)'
    BY <1>2, Zenon DEF InARow
<1>4. NothingSince(<<>>, k)'
    BY DEF NothingSince
<1>. QED
    BY <1>1, <1>3, <1>4

\* A fragment that is sent last, or once more, leaves rows behind.
LEMMA HandleInARow ==
    ASSUME Collection, HeldOnce, CollectedInARow, JoinedInARow, NEW n \in Notification, Handle(n),
           \A m \in handled : m.key = n.key => m.number <= n.number,
           InOrder(n) /\ pending[n.key] # <<>> => pending[n.key][Len(pending[n.key])].number < n.number
    PROVE  CollectedInARow' /\ JoinedInARow'
<1>. PICK k \in Keys : k = n.key
    BY DEF Notification
<1>. PICK p \in Seq(Notification), q \in Seq(Notification) : p = pending[k] /\ q = Append(p, n)
    BY AppendProperties DEF Collection
<1>1. handled' = handled \union {n} /\ handled \subseteq Notification
    BY HandleOutcomes DEF Collection
<1>2. Members(p) \subseteq handled /\ InARow(p, k) /\ NothingSince(p, k) /\ Len(p) \in Nat /\ Len(p) < Fragments[k]
    BY LenProperties DEF HeldOnce, CollectedInARow
<1>3. Len(q) = Len(p) + 1 /\ q[Len(q)] = n /\ q # <<>>
    BY <1>2, AppendProperties
<1>4. InOrder(n) => InARow(q, k)'
    BY <1>1, <1>2, InARowAppend DEF InOrder
<1>5. ASSUME NEW j \in Keys, pending'[j] = pending[j], j # k
      PROVE  InARow(pending[j], j)' /\ NothingSince(pending[j], j)' /\ Len(pending[j])' < Fragments[j]
  <2>. PICK s \in Seq(Notification) : s = pending[j]
      BY DEF Collection
  <2>1. s = pending'[j]
      BY <1>5
  <2>2. InARow(s, j) /\ NothingSince(s, j) /\ Members(s) \subseteq handled /\ Len(s) < Fragments[j]
      BY DEF CollectedInARow, HeldOnce
  <2>3. InARow(s, j)'
      BY <1>1, <2>2, InARowKept
  <2>4. NothingSince(s, j)'
      BY <1>1, <1>5, <2>2 DEF NothingSince
  <2>. QED
      BY <2>1, <2>2, <2>3, <2>4
<1>6. ASSUME NEW e \in told, e.error = "none", Len(e.frames) > 1
      PROVE  InARow(e.frames, e.frames[1].key)' /\ Len(e.frames) = Fragments[e.frames[1].key]
  <2>1. e.frames \in Seq(Notification)
      BY DEF Collection, MessageEvent
  <2>2. InARow(e.frames, e.frames[1].key) /\ Len(e.frames) = Fragments[e.frames[1].key]
      BY <1>6 DEF JoinedInARow
  <2>3. Members(e.frames) \subseteq handled
      BY DEF HeldOnce, Frames, Members
  <2>. QED
      BY <1>1, <2>1, <2>2, <2>3, InARowKept
<1>7. CASE InOrder(n) /\ ~IsLast(n) /\ told' = told /\ pending' = [pending EXCEPT ![k] = q]
  <2>1. \A j \in Keys : pending'[j] = IF j = k THEN q ELSE pending[j]
      BY <1>7 DEF Collection
  <2>2. NothingSince(q, k)'
      BY <1>1, <1>3 DEF NothingSince, Notification
  <2>3. Len(q) < Fragments[k]
      BY <1>2, <1>3, <1>7, FragmentsAssumption DEF InOrder, IsLast
  <2>4. CollectedInARow'
    <3>. SUFFICES ASSUME NEW j \in Keys
                  PROVE  InARow(pending[j], j)' /\ NothingSince(pending[j], j)' /\ Len(pending[j])' < Fragments[j]
        BY DEF CollectedInARow
    <3>1. CASE j = k
      <4>1. pending'[j] = q
          BY <2>1, <3>1
      <4>. QED
          BY <1>4, <1>7, <2>2, <2>3, <3>1, <4>1
    <3>2. CASE j # k
        BY <1>5, <2>1, <3>2
    <3>. QED
        BY <3>1, <3>2
  <2>5. JoinedInARow'
      BY <1>6, <1>7 DEF JoinedInARow
  <2>. QED
      BY <2>4, <2>5
<1>8. ASSUME NEW error \in {"none", "out of order"},
             told' = told \union {Event(q, error)}, pending' = [pending EXCEPT ![k] = <<>>],
             error = "none" => p = <<>> \/ (InOrder(n) /\ IsLast(n))
      PROVE  CollectedInARow' /\ JoinedInARow'
  <2>1. \A j \in Keys : pending'[j] = IF j = k THEN <<>> ELSE pending[j]
      BY <1>8 DEF Collection
  <2>2. InARow(<<>>, k)' /\ NothingSince(<<>>, k)' /\ Len(<<>>) < Fragments[k]
      BY NothingCollected, Zenon
  <2>3. CollectedInARow'
    <3>. SUFFICES ASSUME NEW j \in Keys
                  PROVE  InARow(pending[j], j)' /\ NothingSince(pending[j], j)' /\ Len(pending[j])' < Fragments[j]
        BY DEF CollectedInARow
    <3>1. CASE j = k
      <4>1. pending'[j] = <<>>
          BY <2>1, <3>1
      <4>. QED
          BY <2>2, <3>1, <4>1
    <3>2. CASE j # k
        BY <1>5, <2>1, <3>2
    <3>. QED
        BY <3>1, <3>2
  <2>4. ASSUME error = "none", Len(q) > 1
        PROVE  InARow(q, q[1].key)' /\ Len(q) = Fragments[q[1].key]
    <3>1. InOrder(n) /\ IsLast(n)
        BY <1>3, <1>8, <2>4, EmptySeq
    <3>2. InARow(q, k)'
        BY <1>4, <3>1
    <3>3. q[1].key = k
        BY <2>4, <3>2, <1>2, <1>3 DEF InARow
    <3>4. Len(q) = Fragments[k]
        BY <1>3, <3>1 DEF InOrder, IsLast
    <3>. QED
        BY <3>2, <3>3, <3>4
  <2>5. JoinedInARow'
    <3>. SUFFICES ASSUME NEW e \in told', e.error = "none", Len(e.frames) > 1
                  PROVE  InARow(e.frames, e.frames[1].key)' /\ Len(e.frames) = Fragments[e.frames[1].key]
        BY DEF JoinedInARow
    <3>1. CASE e \in told
        BY <1>6, <3>1
    <3>2. CASE e = Event(q, error)
      <4>1. e.frames = q /\ e.error = error
          BY <3>2, EventIs
      <4>. QED
          BY <2>4, <4>1
    <3>. QED
        BY <1>8, <3>1, <3>2
  <2>. QED
      BY <2>3, <2>5
<1>. QED
    BY <1>7, <1>8, HandleOutcomes

LEMMA SendCollectionInv == ASSUME CollectionInv, NEW k \in Keys, Send(k) PROVE CollectionInv'
<1>1. Collection /\ WasSent /\ HeldOnce /\ CollectedInARow /\ JoinedInARow
    BY DEF CollectionInv
<1>. PICK c \in Nat : c = sent[k]
    BY <1>1 DEF Collection
<1>2. /\ sent' \in [Keys -> Nat] /\ twice' = twice /\ phase = "open" /\ phase' = phase
      /\ \A j \in Keys : sent'[j] = IF j = k THEN c + 1 ELSE sent[j]
    BY <1>1 DEF Send, Collection
<1>3. \A m \in handled : m \in Notification /\ m.number < sent[m.key] /\ m.copy <= twice
    BY <1>1 DEF Collection, WasSent
<1>4. CASE Handle([key |-> k, number |-> c, copy |-> 0])
  <2>. PICK n \in Notification : n = [key |-> k, number |-> c, copy |-> 0]
      BY DEF Notification
  <2>1. n.key = k /\ n.number = c /\ n.copy = 0 /\ Handle(n)
      BY <1>4
  <2>2. \A m \in handled : m.key = k => m.number < c
      BY <1>3
  <2>3. n \notin handled
      BY <2>1, <2>2
  <2>4. \A m \in handled : m.key = n.key => m.number <= n.number
      BY <1>3, <2>1, <2>2 DEF Notification
  <2>5. pending[n.key] # <<>> => pending[n.key][Len(pending[n.key])].number < n.number
    <3>. PICK p \in Seq(Notification) : p = pending[k]
        BY <1>1 DEF Collection
    <3>1. p # <<>> => p[Len(p)] \in Members(p)
        BY MembersIn
    <3>2. \A m \in Members(p) : m \in handled /\ m.key = k
        BY <1>1 DEF HeldOnce
    <3>. QED
        BY <2>1, <2>2, <3>1, <3>2
  <2>6. Collection'
      BY <1>1, <1>2, <2>1, HandleTypes DEF Collection
  <2>7. HeldOnce'
      BY <1>1, <1>2, <2>1, <2>3, HandleHeldOnce
  <2>8. CollectedInARow' /\ JoinedInARow'
      BY <1>1, <2>1, <2>4, <2>5, HandleInARow
  <2>9. WasSent'
    <3>1. handled' = handled \union {n}
        BY <1>1, <2>1, HandleOutcomes
    <3>2. n.number < sent'[n.key] /\ n.copy <= twice'
        BY <1>1, <1>2, <2>1 DEF Collection
    <3>3. \A m \in handled : m.number < sent'[m.key] /\ m.copy <= twice'
        BY <1>2, <1>3, <2>2 DEF Notification
    <3>. QED
        BY <3>1, <3>2, <3>3 DEF WasSent
  <2>. QED
      BY <2>6, <2>7, <2>8, <2>9 DEF CollectionInv
<1>5. CASE UNCHANGED <<pending, handled, told>>
  <2>1. Collection'
      BY <1>1, <1>2, <1>5 DEF Collection
  <2>2. HeldOnce'
      BY <1>1, <1>2, <1>5, HeldOnceKept
  <2>3. CollectedInARow' /\ JoinedInARow'
      BY <1>1, <1>5 DEF CollectedInARow, JoinedInARow, InARow, NothingSince
  <2>4. \A m \in handled : m.number < sent'[m.key]
      BY <1>2, <1>3 DEF Notification
  <2>5. WasSent'
      BY <1>2, <1>3, <1>5, <2>4 DEF WasSent
  <2>. QED
      BY <2>1, <2>2, <2>3, <2>5 DEF CollectionInv
<1>. QED
    BY <1>4, <1>5 DEF Send

\* A fragment that comes once more has the index of the one collected last, and so is
\* out of order or begins a message.
LEMMA RepeatCollectionInv == ASSUME CollectionInv, NEW k \in Keys, Repeat(k) PROVE CollectionInv'
<1>1. Collection /\ WasSent /\ HeldOnce /\ CollectedInARow /\ JoinedInARow
    BY DEF CollectionInv
<1>2. /\ twice \in Nat /\ twice' = twice + 1 /\ sent' = sent /\ phase = "open" /\ phase' = phase
    BY <1>1 DEF Repeat, Collection
<1>3. \A m \in handled : m \in Notification /\ m.number < sent[m.key] /\ m.copy <= twice
    BY <1>1 DEF Collection, WasSent
<1>4. PICK o \in handled : /\ o.key = k /\ o.number = sent[k] - 1
                           /\ Handle([o EXCEPT !.copy = twice + 1])
    BY DEF Repeat
<1>4a. o \in Notification /\ twice + 1 \in Nat
    BY <1>2, <1>3
<1>. PICK n \in Notification : n = [o EXCEPT !.copy = twice + 1]
    BY <1>4a DEF Notification
<1>5. n.key = k /\ n.number = o.number /\ n.copy = twice + 1 /\ Handle(n)
    BY <1>4, <1>4a DEF Notification
<1>6. n \notin handled
  <2>1. n \in handled => twice + 1 <= twice
      BY <1>3, <1>5
  <2>. QED
      BY <1>2, <2>1
<1>7. sent[k] \in Nat /\ n.number \in Nat
    BY <1>1 DEF Collection, Notification
<1>8. \A m \in handled : m.key = n.key => m.number <= n.number
    BY <1>3, <1>4, <1>5, <1>7 DEF Notification
<1>9. InOrder(n) /\ pending[n.key] # <<>> => pending[n.key][Len(pending[n.key])].number < n.number
  <2>. PICK p \in Seq(Notification) : p = pending[k]
      BY <1>1 DEF Collection
  <2>. SUFFICES ASSUME p # <<>>, InOrder(n) PROVE FALSE
      BY <1>5
  <2>. PICK l \in 1..Len(p) : l = Len(p)
      BY MembersIn
  <2>1. p[l] \in handled /\ p[l].key = k /\ Index(p[l]) = l
      BY <1>1, MembersIn DEF HeldOnce, CollectedInARow, InARow
  <2>2. o.number <= p[l].number
      BY <1>1, <1>4 DEF CollectedInARow, NothingSince
  <2>3. p[l].number <= n.number
      BY <1>5, <1>8, <2>1
  <2>4. p[l].number = n.number
      BY <1>3, <1>5, <1>7, <2>1, <2>2, <2>3 DEF Notification
  <2>5. Index(n) = l
      BY <1>5, <2>1, <2>4 DEF Index
  <2>6. Index(n) = l + 1
      BY <1>5 DEF InOrder
  <2>. QED
      BY <2>5, <2>6
<1>10. Collection'
    BY <1>1, <1>2, <1>5, HandleTypes DEF Collection
<1>11. HeldOnce'
    BY <1>1, <1>2, <1>5, <1>6, HandleHeldOnce
<1>12. CollectedInARow' /\ JoinedInARow'
    BY <1>1, <1>5, <1>8, <1>9, HandleInARow
<1>13. WasSent'
  <2>1. handled' = handled \union {n}
      BY <1>1, <1>5, HandleOutcomes
  <2>2. n.number < sent'[n.key] /\ n.copy <= twice'
      BY <1>2, <1>4, <1>5, <1>7
  <2>3. \A m \in handled : m.number < sent'[m.key] /\ m.copy <= twice'
      BY <1>2, <1>3 DEF Notification
  <2>. QED
      BY <2>1, <2>2, <2>3 DEF WasSent
<1>. QED
    BY <1>10, <1>11, <1>12, <1>13 DEF CollectionInv

\* The loop is left: what was collected is told, for each kind apart.
LEMMA LeaveCollectionInv == ASSUME CollectionInv, Leave PROVE CollectionInv'
<1>1. Collection /\ WasSent /\ HeldOnce /\ CollectedInARow /\ JoinedInARow
    BY DEF CollectionInv
<1>2. /\ phase = "open" /\ phase' = "left" /\ told' = told \union Flushed
      /\ UNCHANGED <<pending, sent, twice, handled>>
    BY DEF Leave
<1>3. \A e \in Flushed : \E k \in Keys : /\ e.frames = pending[k] /\ e.error = "incomplete"
                                         /\ Frames(e) = Members(pending[k])
                                         /\ e = Event(pending[k], "incomplete")
    BY EventIs DEF Flushed
<1>4. \A k \in Keys : pending[k] # <<>> =>
          \E e \in Flushed : Frames(e) = Members(pending[k])
    BY EventIs DEF Flushed
<1>5. /\ \A k \in Keys : \A n \in Members(pending[k]) : n \in handled /\ n.key = k
      /\ \A e \in told : Frames(e) \subseteq handled
      /\ \A d, e \in told : Frames(d) \intersect Frames(e) # {} => d = e
      /\ \A e \in told, k \in Keys : Frames(e) \intersect Members(pending[k]) = {}
      /\ \A n \in handled : \/ \E e \in told : n \in Frames(e)
                            \/ n \in Members(pending[n.key])
    BY <1>1, <1>2 DEF HeldOnce
<1>6. Collection'
  <2>1. \A k \in Keys : Event(pending[k], "incomplete") \in MessageEvent
      BY <1>1 DEF Event, MessageEvent, Collection
  <2>2. Flushed \subseteq MessageEvent
      BY <2>1 DEF Flushed
  <2>3. told' \subseteq MessageEvent
      BY <1>1, <1>2, <2>2 DEF Collection
  <2>. QED
      BY <1>1, <1>2, <2>3 DEF Collection
<1>7. WasSent'
    BY <1>1, <1>2 DEF WasSent
<1>8. HeldOnce'
  <2>1. \A k \in Keys : \A n \in Members(pending'[k]) : n \in handled' /\ n.key = k
      BY <1>2, <1>5
  <2>2. \A e \in Flushed : Frames(e) \subseteq handled
      BY <1>3, <1>5
  <2>3. \A e \in told' : Frames(e) \subseteq handled'
      BY <1>2, <1>5, <2>2
  <2>4. \A d \in told, e \in Flushed : Frames(d) \intersect Frames(e) = {}
      BY <1>3, <1>5
  <2>5. \A d, e \in Flushed : Frames(d) \intersect Frames(e) # {} => d = e
    <3>. SUFFICES ASSUME NEW d \in Flushed, NEW e \in Flushed, NEW n \in Frames(d), n \in Frames(e)
                  PROVE  d = e
        OBVIOUS
    <3>1. PICK j \in Keys : Frames(d) = Members(pending[j]) /\ d = Event(pending[j], "incomplete")
        BY <1>3
    <3>2. PICK k \in Keys : Frames(e) = Members(pending[k]) /\ e = Event(pending[k], "incomplete")
        BY <1>3
    <3>3. n.key = j /\ n.key = k
        BY <1>5, <3>1, <3>2
    <3>. QED
        BY <3>1, <3>2, <3>3
  <2>6. \A d, e \in told' : Frames(d) \intersect Frames(e) # {} => d = e
      BY <1>2, <1>5, <2>4, <2>5
  <2>7. \A n \in handled' : \E e \in told' : n \in Frames(e)
    <3>. SUFFICES ASSUME NEW n \in handled, n \in Members(pending[n.key])
                  PROVE  \E e \in told' : n \in Frames(e)
        BY <1>2, <1>5
    <3>1. n.key \in Keys
        BY <1>1 DEF Collection, Notification
    <3>2. pending[n.key] # <<>>
        BY MembersOfEmpty
    <3>. QED
        BY <1>2, <1>4, <3>1, <3>2
  <2>. QED
      BY <1>2, <2>1, <2>3, <2>6, <2>7, Zenon DEF HeldOnce, Members, Frames
<1>9. CollectedInARow'
    BY <1>1, <1>2 DEF CollectedInARow, InARow, NothingSince
<1>10. JoinedInARow'
  <2>. SUFFICES ASSUME NEW e \in told', e.error = "none", Len(e.frames) > 1
                PROVE  InARow(e.frames, e.frames[1].key)' /\ Len(e.frames) = Fragments[e.frames[1].key]
      BY DEF JoinedInARow
  <2>1. e \in told
      BY <1>2, <1>3
  <2>. QED
      BY <1>1, <1>2, <2>1 DEF JoinedInARow, InARow
<1>. QED
    BY <1>6, <1>7, <1>8, <1>9, <1>10 DEF CollectionInv

LEMMA RaiseCollectionInv == ASSUME CollectionInv, Raise PROVE CollectionInv'
<1>1. /\ phase = "open" /\ phase' = "raised"
      /\ UNCHANGED <<pending, sent, twice, handled, told>>
    BY DEF Raise
<1>2. Collection /\ WasSent /\ HeldOnce /\ CollectedInARow /\ JoinedInARow
    BY DEF CollectionInv
<1>3. Collection' /\ WasSent'
    BY <1>1, <1>2 DEF Collection, WasSent
<1>4. HeldOnce'
    BY <1>1, <1>2, HeldOnceKept
<1>5. CollectedInARow' /\ JoinedInARow'
    BY <1>1, <1>2 DEF CollectedInARow, JoinedInARow, InARow, NothingSince
<1>. QED
    BY <1>3, <1>4, <1>5 DEF CollectionInv

LEMMA CollectionInit == Init => CollectionInv
<1>. SUFFICES ASSUME Init PROVE CollectionInv
    OBVIOUS
<1>1. /\ pending = [k \in Keys |-> <<>>] /\ phase = "open" /\ twice = 0
      /\ sent = [k \in Keys |-> 0] /\ handled = {} /\ told = {}
    BY DEF Init
<1>2. Collection /\ WasSent
    BY <1>1, EmptySeq DEF Collection, WasSent
<1>3. HeldOnce
    BY <1>1, MembersOfEmpty DEF HeldOnce
<1>4. CollectedInARow /\ JoinedInARow
  <2>1. Len(<<>>) = 0 /\ \A k \in Keys : Fragments[k] \in Nat \ {0}
      BY FragmentsAssumption
  <2>. QED
      BY <1>1, <2>1 DEF CollectedInARow, JoinedInARow, InARow, NothingSince
<1>. QED
    BY <1>2, <1>3, <1>4 DEF CollectionInv

LEMMA CollectionNext == CollectionInv /\ [Next]_vars => CollectionInv'
<1>. SUFFICES ASSUME CollectionInv, [Next]_vars PROVE CollectionInv'
    OBVIOUS
<1>1. CASE UNCHANGED <<pending, phase, sent, twice, handled, told>>
  <2>1. Collection /\ WasSent /\ HeldOnce /\ CollectedInARow /\ JoinedInARow
      BY DEF CollectionInv
  <2>2. Collection' /\ WasSent'
      BY <1>1, <2>1 DEF Collection, WasSent
  <2>3. HeldOnce'
      BY <1>1, <2>1, HeldOnceKept
  <2>4. CollectedInARow' /\ JoinedInARow'
      BY <1>1, <2>1 DEF CollectedInARow, JoinedInARow, InARow, NothingSince
  <2>. QED
      BY <2>2, <2>3, <2>4 DEF CollectionInv
<1>2. CASE \E r \in asked : Answer(r)
    BY <1>1, <1>2 DEF Answer
<1>3. CASE TryNextVariant
    BY <1>1, <1>3 DEF TryNextVariant
<1>4. CASE UNCHANGED vars
    BY <1>1, <1>4 DEF vars
<1>. QED
    BY <1>2, <1>3, <1>4, SendCollectionInv, RepeatCollectionInv, LeaveCollectionInv,
       RaiseCollectionInv DEF Next

-----------------------------------------------------------------------------
(* What follows from it. *)

LEMMA KeptOnce == CollectionInv => EveryNotificationKept
<1>. SUFFICES ASSUME CollectionInv, NEW n \in handled
              PROVE  Cardinality({e \in told : n \in Frames(e)})
                       + Cardinality({k \in Keys : /\ phase # "left"
                                                   /\ \E i \in DOMAIN pending[k] : pending[k][i] = n}) = 1
    BY DEF EveryNotificationKept
<1>. DEFINE E == {e \in told : n \in Frames(e)}
            K == {k \in Keys : phase # "left" /\ \E i \in DOMAIN pending[k] : pending[k][i] = n}
<1>1. HeldOnce /\ n.key \in Keys
    BY DEF CollectionInv, Collection, Notification
<1>2. K = {k \in Keys : phase # "left" /\ n \in Members(pending[k])}
    BY DEF Members
<1>3. CASE \E e \in told : n \in Frames(e)
  <2>1. PICK e \in told : n \in Frames(e)
      BY <1>3
  <2>2. E = {e}
      BY <1>1, <2>1 DEF HeldOnce
  <2>3. K = {}
      BY <1>1, <1>2, <2>1 DEF HeldOnce
  <2>4. Cardinality(E) = 1 /\ Cardinality(K) = 0
      BY <2>2, <2>3, FS_Singleton, FS_EmptySet
  <2>. QED
      BY <2>4
<1>4. CASE ~\E e \in told : n \in Frames(e)
  <2>1. E = {}
      BY <1>4
  <2>2. K = {n.key}
      BY <1>1, <1>2, <1>4 DEF HeldOnce
  <2>4. Cardinality(E) = 0 /\ Cardinality(K) = 1
      BY <2>1, <2>2, FS_Singleton, FS_EmptySet
  <2>. QED
      BY <2>4
<1>. QED
    BY <1>3, <1>4

\* None of kind k came in that was sent between the numbers a and b.
NoneBetween(k, a, b) == \A m \in handled : m.key = k => m.number <= a \/ b <= m.number

\* Then f are lost, when f numbers lie between.
LEMMA LostAtLeast ==
    ASSUME CollectionInv, NEW k \in Keys, NEW a \in Nat, NEW b \in Nat, NEW f \in Nat \ {0},
           a + f < b, b < sent[k], NoneBetween(k, a, b)
    PROVE  Lost(k) >= f
<1>. PICK c \in Nat : c = sent[k]
    BY DEF CollectionInv, Collection
<1>. DEFINE H == {m \in handled : m.key = k /\ m.copy = 0}
            G == a + 1..a + f
            A == 0..c - 1
            number == [m \in H |-> m.number]
<1>1. \A m \in handled : m \in Notification /\ m.number < sent[m.key]
    BY DEF CollectionInv, Collection, WasSent
<1>2. \A m \in H : m.number \in A \ G
  <2>. SUFFICES ASSUME NEW m \in H PROVE m.number \in A \ G
      OBVIOUS
  <2>. PICK x \in Nat : x = m.number
      BY <1>1 DEF Notification
  <2>1. x < c
      BY <1>1
  <2>2. x <= a \/ b <= x
      BY DEF NoneBetween
  <2>3. x \in A \ G
      BY <2>1, <2>2
  <2>. QED
      BY <2>3
<1>3. \A m, o \in H : m.number = o.number => m = o
    BY <1>1 DEF Notification
<1>4. number \in Injection(H, A \ G)
    BY <1>2, <1>3 DEF Injection, IsInjective
<1>5. IsFiniteSet(A) /\ Cardinality(A) = c /\ IsFiniteSet(G) /\ Cardinality(G) = f
  <2>1. IsFiniteSet(A) /\ Cardinality(A) = c
      BY SizeBelow
  <2>2. IsFiniteSet(G) /\ Cardinality(G) = f
      BY SizeOfRange
  <2>. QED
      BY <2>1, <2>2
<1>6. A \intersect G = G
  <2>1. G \subseteq A
      OBVIOUS
  <2>. QED
      BY <2>1
<1>. HIDE DEF A, G, H, number
<1>7. IsFiniteSet(A \ G) /\ Cardinality(A \ G) = c - f
  <2>1. IsFiniteSet(A \ G) /\ Cardinality(A \ G) = Cardinality(A) - Cardinality(A \intersect G)
      BY <1>5, FS_Difference
  <2>. QED
      BY <1>5, <1>6, <2>1
<1>8. IsFiniteSet(H) /\ Cardinality(H) <= c - f
    BY <1>4, <1>7, FS_Injection
<1>9. Cardinality(H) \in Nat
    BY <1>8, FS_CardinalityType
<1>10. Lost(k) = c - Cardinality(H)
    BY DEF Lost, H
<1>. QED
    BY <1>8, <1>9, <1>10

LEMMA OneMessage == CollectionInv => JoinedIsOneMessage
<1>. SUFFICES ASSUME CollectionInv, NEW e \in told, e.error = "none", Len(e.frames) > 1
              PROVE  LET k == e.frames[1].key
                     IN  /\ \A i \in DOMAIN e.frames : e.frames[i].key = k /\ Index(e.frames[i]) = i
                         /\ Len(e.frames) = Fragments[k]
                         /\ Cardinality({Message(n) : n \in Frames(e)}) > 1 => Lost(k) >= Fragments[k]
    BY DEF JoinedIsOneMessage
<1>. PICK s \in Seq(Notification) : s = e.frames
    BY DEF CollectionInv, Collection, MessageEvent
<1>. PICK f \in Nat : f = Len(s)
    BY LenProperties
<1>. PICK k : k = s[1].key
    OBVIOUS
<1>1. InARow(s, k) /\ f = Fragments[k] /\ f > 1 /\ DOMAIN s = 1..f
    BY LenProperties DEF CollectionInv, JoinedInARow
<1>2. \A i \in 1..f : s[i] \in Notification /\ s[i] \in handled /\ s[i].number < sent[s[i].key]
    BY MembersIn DEF CollectionInv, HeldOnce, WasSent, Frames, Members
<1>3. \A i \in 1..f : s[i].key = k /\ Index(s[i]) = i
    BY <1>1 DEF InARow
<1>4. k \in Keys
    BY <1>1, <1>2 DEF Notification
<1>5. ASSUME Cardinality({Message(n) : n \in Frames(e)}) > 1
      PROVE  Lost(k) >= f
  <2>. DEFINE T == {i \in 1..f : Message(s[i]) # Message(s[1])}
  <2>1. T # {}
    <3>. SUFFICES ASSUME \A i \in 1..f : Message(s[i]) = Message(s[1])
                  PROVE  FALSE
        OBVIOUS
    <3>1. Frames(e) = {s[i] : i \in 1..f}
        BY <1>1 DEF Frames
    <3>2. {Message(n) : n \in Frames(e)} = {Message(s[1])}
        BY <1>1, <3>1
    <3>3. Cardinality({Message(s[1])}) = 1
        BY FS_Singleton
    <3>4. Cardinality({Message(n) : n \in Frames(e)}) = 1
        BY <3>2, <3>3, Zenon
    <3>. QED
        BY <1>5, <3>4
  <2>2. PICK i \in T : \A j \in T : i <= j
    <3>1. T \in SUBSET Nat
        OBVIOUS
    <3>. QED
        BY <2>1, <3>1, HasLeast
  <2>3. i \in 2..f /\ i - 1 \in 1..f /\ i - 1 \notin T
      BY <2>2
  <2>4. Message(s[i - 1]) # Message(s[i])
      BY <2>2, <2>3
  <2>. PICK a \in Nat, b \in Nat : a = s[i - 1].number /\ b = s[i].number
      BY <1>2, <2>3 DEF Notification
  <2>5. a < b /\ \A m \in handled : m.key = k => m.number <= a \/ b <= m.number
      BY <1>1, <2>3 DEF InARow
  <2>6. a \div f # b \div f
      BY <1>1, <1>3, <2>3, <2>4 DEF Message
  <2>7. a % f = i - 2 /\ b % f = i - 2 + 1
    <3>1. (a % f) + 1 = i - 1 /\ (b % f) + 1 = i
        BY <1>1, <1>3, <2>3, ZenonT(60) DEF Index
    <3>2. f \in Nat \ {0}
        BY <1>1
    <3>3. a % f \in 0..f - 1 /\ b % f \in 0..f - 1
        BY <3>2, DivMod, Zenon
    <3>. QED
        BY <2>3, <3>1, <3>3, SMTT(30)
  <2>8. a + f < b
    <3>1. i - 2 \in Nat /\ f \in Nat \ {0}
        BY <1>1, <2>3
    <3>. QED
        BY <2>5, <2>6, <2>7, <3>1, FarApart
  <2>9. b < sent[k]
      BY <1>2, <1>3, <2>3
  <2>10. NoneBetween(k, a, b) /\ f \in Nat \ {0}
      BY <1>1, <2>5 DEF NoneBetween
  <2>. HIDE DEF T
  <2>. QED
      BY <1>4, <2>8, <2>9, <2>10, LostAtLeast, Zenon
<1>. QED
    BY <1>1, <1>3, <1>5

-----------------------------------------------------------------------------
(* The theorems. *)

\* Whichever dialect the cooler speaks, whatever is lost and however late an answer to
\* the first dialect comes: the gateway asks in the cipher the cooler reads, and takes
\* a negotiation for done only when key and MTU are the same on both sides.
THEOREM UnderstoodCorrect == Spec => []Understood
<1>1. Inv => Understood
    BY DEF Inv, InStep, Finished, Understood
<1> QED BY <1>1, InitInv, NextInv, PTL DEF Spec

\* Every notification that came in is in exactly one message event, or is being
\* collected for one, however fragments are lost, repeated and interleaved and however
\* the session ends.
THEOREM EveryNotificationKeptCorrect == Spec => []EveryNotificationKept
BY KeptOnce, CollectionInit, CollectionNext, PTL DEF Spec

\* An event without an error that joins several notifications joins one message of its
\* kind, unless as many notifications of the kind were lost as a message has: for any
\* table of message sizes and any number of losses and repetitions.
THEOREM JoinedIsOneMessageCorrect == Spec => []JoinedIsOneMessage
BY OneMessage, CollectionInit, CollectionNext, PTL DEF Spec
==================================================================================
