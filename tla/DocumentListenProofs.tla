------------------------ MODULE DocumentListenProofs ------------------------
(***************************************************************************)
(* Theorems about the reads of one device, for any number of reads, own    *)
(* writes, versions and interruptions.                                     *)
(***************************************************************************)
EXTENDS DocumentListen, FiniteSetTheorems, SequenceTheorems, TLAPS

USE DEF answerVars

(* ----------------------- the listeners in order ------------------------ *)

\* Every set of numbers up to n has a least element, and so a greatest.
LEMMA LeastNumber ==
    ASSUME NEW T \in SUBSET Nat, T # {}
    PROVE  \E x \in T : \A y \in T : x <= y
<1> DEFINE R == OpToRel(<, Nat)
<1>1. IsWellFoundedOn(R, Nat)
    BY NatLessThanWellFounded
<1>2. \A x, y \in Nat : y < x => <<y, x>> \in R
    BY DEF OpToRel
<1> HIDE DEF R
<1>3. \E x \in T : \A y \in T : ~ (<<y, x>> \in R)
    <2>1. T \subseteq Nat
        OBVIOUS
    <2>q. QED BY <1>1, <2>1, WFMin, Zenon
<1>4. \E x \in T : \A y \in T : ~ (y < x)
    BY <1>2, <1>3, Zenon
<1>5. \A x, y \in T : ~ (y < x) => x <= y
    BY SMT
<1>q. QED BY <1>4, <1>5, Zenon

LEMMA GreatestNumber ==
    ASSUME NEW n \in Nat, NEW T \in SUBSET (1..n), T # {}
    PROVE  \E x \in T : \A y \in T : y <= x
<1> DEFINE Mirrored == {k \in Nat : n - k \in T}
<1>1. Mirrored \in SUBSET Nat
    OBVIOUS
<1>2. Mirrored # {}
    <2>1. PICK t \in T : TRUE
        OBVIOUS
    <2>2. n - t \in Nat /\ n - (n - t) = t
        OBVIOUS
    <2>q. QED BY <2>1, <2>2
<1>3. PICK k \in Mirrored : \A j \in Mirrored : k <= j
    <2> HIDE DEF Mirrored
    <2>1. \E k \in Mirrored : \A j \in Mirrored : k <= j
        BY <1>1, <1>2, LeastNumber, Zenon
    <2>q. QED BY <2>1
<1>4. n - k \in T
    BY <1>3
<1>5. ASSUME NEW y \in T PROVE y <= n - k
    <2>1. n - y \in Nat /\ n - (n - y) = y
        OBVIOUS
    <2>2. n - y \in Mirrored
        BY <2>1
    <2>3. k <= n - y /\ k \in Nat /\ y \in Nat
        BY <1>3, <2>2
    <2>q. QED BY <2>3
<1>q. QED BY <1>4, <1>5

IsOrder(s, S) ==
    /\ s \in [1..Cardinality(S) -> S]
    /\ \A i, j \in 1..Cardinality(S) : i < j => s[i] < s[j]

\* A larger number is put behind an order.
LEMMA OrderGrows ==
    ASSUME NEW S \in SUBSET Nat, IsFiniteSet(S), NEW x \in S, \A y \in S : y <= x,
           NEW s, IsOrder(s, S \ {x})
    PROVE  \E t : IsOrder(t, S)
<1> DEFINE n == Cardinality(S \ {x})
           t == [i \in 1..Cardinality(S) |-> IF i <= n THEN s[i] ELSE x]
<1>1. /\ IsFiniteSet(S \ {x}) /\ n = Cardinality(S) - 1
      /\ Cardinality(S) \in Nat /\ n \in Nat
    <2>1. IsFiniteSet(S \ {x}) /\ n = Cardinality(S) - 1
        BY FS_RemoveElement
    <2>2. Cardinality(S) \in Nat /\ n \in Nat
        BY <2>1, FS_CardinalityType
    <2>q. QED BY <2>1, <2>2
<1>2. s \in [1..n -> S \ {x}] /\ \A i, j \in 1..n : i < j => s[i] < s[j]
    BY DEF IsOrder
<1> HIDE DEF n
<1>3. \A i \in 1..Cardinality(S) : i <= n => i \in 1..n /\ s[i] \in S \ {x}
    BY <1>1, <1>2
<1>4. t \in [1..Cardinality(S) -> S]
    BY <1>3
<1>5. ASSUME NEW i \in 1..Cardinality(S), NEW j \in 1..Cardinality(S), i < j
      PROVE  t[i] < t[j]
    <2>1. i \in 1..n /\ t[i] = s[i] /\ s[i] \in S \ {x}
        BY <1>1, <1>3, <1>5
    <2>2. CASE j <= n
        BY <1>2, <1>3, <1>5, <2>1, <2>2
    <2>3. CASE ~ (j <= n)
        <3>1. t[j] = x /\ s[i] # x /\ s[i] \in Nat /\ x \in Nat /\ s[i] <= x
            BY <2>1, <2>3
        <3>q. QED BY <2>1, <3>1
    <2>q. QED BY <2>2, <2>3
<1>6. IsOrder(t, S)
    BY <1>4, <1>5 DEF IsOrder
<1>q. QED BY <1>6

\* The sets of reads that have an order, by their number of elements: a least
\* counterexample loses its greatest read and is none.
LEMMA OrderExists ==
    ASSUME NEW n \in Nat, NEW S \in SUBSET (1..n)
    PROVE  \E s : IsOrder(s, S)
<1> DEFINE Bad(k) == \E T \in SUBSET (1..n) : Cardinality(T) = k /\ ~ \E s : IsOrder(s, T)
           BadSizes == {k \in Nat : Bad(k)}
<1>1. \A T \in SUBSET (1..n) : IsFiniteSet(T) /\ Cardinality(T) \in Nat
    <2>1. IsFiniteSet(1..n)
        BY FS_Interval
    <2>q. QED BY <2>1, FS_Subset, FS_CardinalityType
<1>2. SUFFICES ASSUME ~ \E s : IsOrder(s, S) PROVE FALSE
    OBVIOUS
<1>3. Cardinality(S) \in BadSizes
    BY <1>1, <1>2
<1>4. PICK k \in BadSizes : \A m \in BadSizes : k <= m
    <2>1. BadSizes \in SUBSET Nat
        OBVIOUS
    <2> HIDE DEF BadSizes
    <2>2. \E k \in BadSizes : \A m \in BadSizes : k <= m
        BY <1>3, <2>1, LeastNumber
    <2>q. QED BY <2>2
<1>5. PICK T \in SUBSET (1..n) : Cardinality(T) = k /\ ~ \E s : IsOrder(s, T)
    BY <1>4
<1>6. CASE T = {}
    <2>1. Cardinality(T) = 0 /\ 1..0 = {}
        BY <1>6, FS_EmptySet
    <2>2. IsOrder([i \in 1..0 |-> 0], T)
        BY <1>6, <2>1 DEF IsOrder
    <2>q. QED BY <1>5, <2>2
<1>7. CASE T # {}
    <2>1. PICK x \in T : \A y \in T : y <= x
        BY <1>7, GreatestNumber
    <2>2. Cardinality(T \ {x}) = k - 1 /\ k - 1 \in Nat
        <3>1. Cardinality(T \ {x}) = Cardinality(T) - 1
            BY <1>1, FS_RemoveElement
        <3>2. T \ {x} \in SUBSET (1..n)
            OBVIOUS
        <3>q. QED BY <1>1, <1>5, <3>1, <3>2
    <2>3. ~ (k - 1 \in BadSizes)
        BY <1>4, <2>2
    <2>4. \E s : IsOrder(s, T \ {x})
        <3>1. T \ {x} \in SUBSET (1..n)
            OBVIOUS
        <3>q. QED BY <2>2, <2>3, <3>1
    <2>5. PICK s : IsOrder(s, T \ {x})
        BY <2>4
    <2>6. T \in SUBSET Nat /\ IsFiniteSet(T)
        BY <1>1
    <2>7. \E t : IsOrder(t, T)
        BY <2>1, <2>5, <2>6, OrderGrows
    <2>q. QED BY <1>5, <2>7
<1>q. QED BY <1>6, <1>7

\* InOrder lists the listeners and nothing else.
LEMMA InOrderLists ==
    ASSUME NEW S \in SUBSET Reads
    PROVE  /\ Cardinality(S) \in Nat
           /\ InOrder(S) \in [1..Cardinality(S) -> S]
<1>1. MaxReads \in Nat
    BY BoundsAssumption
<1>2. Cardinality(S) \in Nat
    <2>1. IsFiniteSet(1..MaxReads)
        BY <1>1, FS_Interval
    <2>q. QED BY <2>1, FS_Subset, FS_CardinalityType DEF Reads
<1>3. \E s : IsOrder(s, S)
    BY <1>1, OrderExists DEF Reads
<1>4. \E s \in [1..Cardinality(S) -> S] :
        \A i, j \in 1..Cardinality(S) : i < j => s[i] < s[j]
    BY <1>3 DEF IsOrder
<1>q. QED BY <1>2, <1>4 DEF InOrder

(* ------------------------------- events -------------------------------- *)

ViewTypes == [open : BOOLEAN, current : BOOLEAN, doc : Documents, since : Versions]
EventTypes == [read : Reads, doc : Documents, fromCache : BOOLEAN, since : Versions]

\* The main queue gains events of the reads in rs, with the view as it is now.
Tells(rs) ==
    /\ mainQueue' \in Seq(EventTypes) /\ Len(mainQueue) <= Len(mainQueue')
    /\ \A i \in 1..Len(mainQueue) : mainQueue'[i] = mainQueue[i]
    /\ \A i \in 1..Len(mainQueue') :
         i > Len(mainQueue) => \E r \in rs : mainQueue'[i] = Event(r, view')

LEMMA EventType ==
    ASSUME NEW r \in Reads, NEW v \in ViewTypes
    PROVE  Event(r, v) \in EventTypes
BY DEF Event, ViewTypes, EventTypes

LEMMA ShowTells ==
    ASSUME TypeOK, NEW v \in ViewTypes, NEW state, Show(v, state)
    PROVE  view' = v /\ raised' \subseteq Reads /\ Tells(listeners)
<1> DEFINE told == {r \in listeners : IF r \in raised THEN v # view ELSE ShouldRaise(v, state)}
           n == Cardinality(told)
           events == [i \in 1..n |-> Event(InOrder(told)[i], v)]
<1>1. /\ view' = v /\ raised' = raised \cup told /\ mainQueue' = mainQueue \o events
    BY DEF Show
<1>2. /\ mainQueue \in Seq(EventTypes) /\ listeners \subseteq Reads /\ raised \subseteq Reads
    BY DEF TypeOK, EventTypes
<1>3. told \in SUBSET Reads /\ told \subseteq listeners
    BY <1>2
<1> HIDE DEF told
<1>4. n \in Nat /\ InOrder(told) \in [1..n -> told]
    BY <1>3, InOrderLists
<1> HIDE DEF n
<1>5. \A i \in 1..n : InOrder(told)[i] \in told /\ InOrder(told)[i] \in Reads
    BY <1>3, <1>4
<1>6. \A i \in 1..n : events[i] \in EventTypes
    BY <1>5, EventType
<1>7. events \in Seq(EventTypes) /\ Len(events) = n
    BY <1>4, <1>6
<1>8. \A i \in 1..n : events[i] = Event(InOrder(told)[i], v)
    OBVIOUS
<1> HIDE DEF events
<1>9. /\ mainQueue' \in Seq(EventTypes) /\ Len(mainQueue') = Len(mainQueue) + n
      /\ \A i \in 1..Len(mainQueue) : mainQueue'[i] = mainQueue[i]
      /\ \A i \in 1..Len(mainQueue') :
           i > Len(mainQueue) => mainQueue'[i] = events[i - Len(mainQueue)]
                                 /\ i - Len(mainQueue) \in 1..n
    BY <1>1, <1>2, <1>4, <1>7
<1>10. ASSUME NEW i \in 1..Len(mainQueue'), i > Len(mainQueue)
       PROVE  \E r \in listeners : mainQueue'[i] = Event(r, view')
    <2>1. PICK j \in 1..n : mainQueue'[i] = events[j]
        BY <1>9, <1>10
    <2>2. InOrder(told)[j] \in listeners
        BY <1>3, <1>5
    <2>q. QED BY <1>1, <1>8, <2>1, <2>2
<1>11. Len(mainQueue) <= Len(mainQueue')
    BY <1>2, <1>4, <1>9
<1>q. QED BY <1>1, <1>2, <1>3, <1>9, <1>10, <1>11 DEF Tells

LEMMA QuietTells == ASSUME TypeOK, UNCHANGED mainQueue, NEW rs PROVE Tells(rs)
<1>1. mainQueue \in Seq(EventTypes)
    BY DEF TypeOK, EventTypes
<1>q. QED BY <1>1 DEF Tells

LEMMA OneTells ==
    ASSUME TypeOK, NEW r \in Reads, NEW v \in ViewTypes, view' = v,
           mainQueue' = Append(mainQueue, Event(r, v))
    PROVE  Tells({r})
<1>1. mainQueue \in Seq(EventTypes) /\ Event(r, v) \in EventTypes
    BY EventType DEF TypeOK, EventTypes
<1>2. /\ mainQueue' \in Seq(EventTypes) /\ Len(mainQueue') = Len(mainQueue) + 1
      /\ \A i \in 1..Len(mainQueue) : mainQueue'[i] = mainQueue[i]
      /\ mainQueue'[Len(mainQueue) + 1] = Event(r, v)
    BY <1>1
<1>q. QED BY <1>1, <1>2 DEF Tells

\* The views that the steps make.
LEMMA ViewMade ==
    ASSUME NEW v \in ViewTypes
    PROVE  /\ \A state : Seen(v, state) \in ViewTypes /\ Seen(v, state).open = v.open
                         /\ Seen(v, state).doc = v.doc /\ Seen(v, state).since = v.since
                         /\ (Seen(v, state).current => v.current)
           /\ \A c \in BOOLEAN : [v EXCEPT !.current = c] \in ViewTypes
           /\ \A new \in Documents : Updated(v, new) \in ViewTypes
<1>1. \A c \in BOOLEAN : [v EXCEPT !.current = c] \in ViewTypes
    BY DEF ViewTypes
<1>2. \A state : Seen(v, state) \in ViewTypes /\ Seen(v, state).open = v.open
                 /\ Seen(v, state).doc = v.doc /\ Seen(v, state).since = v.since
                 /\ (Seen(v, state).current => v.current)
    BY DEF ViewTypes, Seen
<1>3. \A new \in Documents : [v EXCEPT !.doc = new] \in ViewTypes
    BY DEF ViewTypes
<1>q. QED BY <1>1, <1>2, <1>3 DEF Updated

LEMMA DocumentMade ==
    ASSUME NEW document \in [version : Versions, kind : {"plain", "committed"}],
           NEW pending \in BOOLEAN
    PROVE  /\ Overlaid(document, pending) \in Documents
           /\ Overlaid(document, pending).version = document.version
           /\ ~pending => Overlaid(document, pending) = document
           /\ pending => Overlaid(document, pending).kind = "local"
BY DEF Overlaid, Documents

(* ------------------------- answers on the wire -------------------------- *)

\* Where a sequence of changes answers a request.
IsAnswer(change) == change.type \in {"added", "removed"}
AnswersIn(s) == {i \in 1..Len(s) : IsAnswer(s[i])}

ChangeTypes == [type : {"added", "removed", "document", "current", "snapshot"},
                version : Versions]
TargetTypes == [outstanding : Nat, current : BOOLEAN, changed : BOOLEAN]

LEMMA AnswersFinite ==
    ASSUME NEW s \in Seq(ChangeTypes)
    PROVE  IsFiniteSet(AnswersIn(s)) /\ Cardinality(AnswersIn(s)) \in Nat
<1>1. Len(s) \in Nat /\ IsFiniteSet(1..Len(s))
    BY FS_Interval
<1>2. AnswersIn(s) \subseteq 1..Len(s)
    BY DEF AnswersIn
<1>q. QED BY <1>1, <1>2, FS_Subset, FS_CardinalityType

LEMMA AnswersConcat ==
    ASSUME NEW s \in Seq(ChangeTypes), NEW t \in Seq(ChangeTypes)
    PROVE  Cardinality(AnswersIn(s \o t)) = Cardinality(AnswersIn(s)) + Cardinality(AnswersIn(t))
<1> DEFINE S == AnswersIn(s)
           T == AnswersIn(t)
           moved == [i \in T |-> i + Len(s)]
           M == {i \in 1..Len(s \o t) : i > Len(s) /\ IsAnswer((s \o t)[i])}
<1>1. /\ Len(s) \in Nat /\ Len(t) \in Nat /\ Len(s \o t) = Len(s) + Len(t)
      /\ \A i \in 1..Len(s) : (s \o t)[i] = s[i]
      /\ \A i \in 1..Len(t) : (s \o t)[i + Len(s)] = t[i]
    OBVIOUS
<1>2. AnswersIn(s \o t) = S \cup M
    <2>1. \A i \in 1..Len(s \o t) : i > Len(s) \/ (i \in 1..Len(s) /\ (s \o t)[i] = s[i])
        BY <1>1
    <2>2. \A i \in 1..Len(s) : i \in 1..Len(s \o t) /\ (s \o t)[i] = s[i]
        BY <1>1
    <2>q. QED BY <2>1, <2>2 DEF AnswersIn
<1>3. S \cap M = {}
    BY <1>1 DEF AnswersIn
<1>4. IsFiniteSet(T) /\ IsFiniteSet(S) /\ Cardinality(T) \in Nat /\ Cardinality(S) \in Nat
    BY AnswersFinite
<1>5. moved \in Bijection(T, M)
    <2>1. \A i \in T : i \in 1..Len(t) /\ i + Len(s) \in M
        BY <1>1 DEF AnswersIn
    <2>2. moved \in [T -> M]
        BY <2>1
    <2>3. \A i, j \in T : moved[i] = moved[j] => i = j
        BY <1>1, <2>1
    <2>4. ASSUME NEW k \in M PROVE \E i \in T : moved[i] = k
        <3>1. /\ k - Len(s) \in 1..Len(t) /\ (k - Len(s)) + Len(s) = k
              /\ IsAnswer((s \o t)[k])
            BY <1>1
        <3>2. t[k - Len(s)] = (s \o t)[k]
            BY <1>1, <3>1
        <3>3. k - Len(s) \in T
            BY <3>1, <3>2 DEF AnswersIn
        <3>q. QED BY <3>1, <3>3
    <2> HIDE DEF moved, T, M
    <2>q. QED BY <2>2, <2>3, <2>4 DEF Bijection, Injection, Surjection, IsInjective
<1> HIDE DEF moved, S, T, M
<1>6. IsFiniteSet(M) /\ Cardinality(M) = Cardinality(T)
    BY <1>4, <1>5, FS_Bijection DEF ExistsBijection
<1>7. Cardinality(S \cup M) = Cardinality(S) + Cardinality(M) - Cardinality(S \cap M)
    BY <1>4, <1>6, FS_Union
<1>8. Cardinality(S \cap M) = 0
    BY <1>3, FS_EmptySet
<1>9. Cardinality(AnswersIn(s)) = Cardinality(S) /\ Cardinality(AnswersIn(t)) = Cardinality(T)
    BY DEF S, T
<1>q. QED BY <1>2, <1>4, <1>6, <1>7, <1>8, <1>9

LEMMA AnswersOne ==
    ASSUME NEW change \in ChangeTypes
    PROVE  Cardinality(AnswersIn(<<change>>)) = IF IsAnswer(change) THEN 1 ELSE 0
<1>1. AnswersIn(<<change>>) = IF IsAnswer(change) THEN {1} ELSE {}
    <2>1. Len(<<change>>) = 1 /\ <<change>>[1] = change /\ 1..1 = {1}
        OBVIOUS
    <2>q. QED BY <2>1 DEF AnswersIn
<1>q. QED BY <1>1, FS_EmptySet, FS_Singleton

LEMMA AnswersEmpty == AnswersIn(<<>>) = {} /\ Cardinality(AnswersIn(<<>>)) = 0
<1>1. AnswersIn(<<>>) = {}
    BY DEF AnswersIn
<1>q. QED BY <1>1, FS_EmptySet

LEMMA AnswersTail ==
    ASSUME NEW s \in Seq(ChangeTypes), s # <<>>
    PROVE  /\ Tail(s) \in Seq(ChangeTypes) /\ Head(s) \in ChangeTypes
           /\ Cardinality(AnswersIn(s)) =
                Cardinality(AnswersIn(Tail(s))) + (IF IsAnswer(Head(s)) THEN 1 ELSE 0)
<1>1. Tail(s) \in Seq(ChangeTypes) /\ Head(s) \in ChangeTypes /\ <<Head(s)>> \in Seq(ChangeTypes)
    OBVIOUS
<1>2. s = <<Head(s)>> \o Tail(s)
    <2> DEFINE r == <<Head(s)>> \o Tail(s)
    <2>1. r \in Seq(ChangeTypes) /\ Len(r) = Len(s) /\ Len(s) \in Nat
        BY <1>1
    <2>2. \A i \in 1..Len(s) : r[i] = s[i]
        BY <1>1
    <2> HIDE DEF r
    <2>3. r = s
        BY <2>1, <2>2, SeqEqual
    <2>q. QED BY <2>3 DEF r
<1>3. Cardinality(AnswersIn(Tail(s))) \in Nat
    BY <1>1, AnswersFinite
<1>4. Cardinality(AnswersIn(<<Head(s)>> \o Tail(s))) =
        Cardinality(AnswersIn(<<Head(s)>>)) + Cardinality(AnswersIn(Tail(s)))
    BY <1>1, AnswersConcat
<1>5. Cardinality(AnswersIn(<<Head(s)>>)) = IF IsAnswer(Head(s)) THEN 1 ELSE 0
    BY <1>1, AnswersOne
<1>6. Cardinality(AnswersIn(s)) = Cardinality(AnswersIn(<<Head(s)>> \o Tail(s)))
    <2> DEFINE whole == <<Head(s)>> \o Tail(s)
    <2>1. s = whole
        BY <1>2
    <2> HIDE DEF whole
    <2>2. Cardinality(AnswersIn(s)) = Cardinality(AnswersIn(whole))
        BY <2>1, Zenon
    <2>q. QED BY <2>2 DEF whole
<1> DEFINE first == Cardinality(AnswersIn(<<Head(s)>>))
           rest == Cardinality(AnswersIn(Tail(s)))
<1>7. /\ Cardinality(AnswersIn(s)) = first + rest /\ rest \in Nat
      /\ first = IF IsAnswer(Head(s)) THEN 1 ELSE 0
    BY <1>3, <1>4, <1>5, <1>6
<1> HIDE DEF first, rest
<1>8. Cardinality(AnswersIn(s)) = rest + (IF IsAnswer(Head(s)) THEN 1 ELSE 0)
    BY <1>7
<1>q. QED BY <1>1, <1>8 DEF rest

\* What the server sends.
LEMMA Sent ==
    ASSUME TypeOK
    PROVE  /\ Message("added") \in ChangeTypes /\ Message("removed") \in ChangeTypes
           /\ Message("current") \in ChangeTypes /\ Message("snapshot") \in ChangeTypes
           /\ \A n \in Versions :
                /\ News(n) \in Seq(ChangeTypes)
                /\ Cardinality(AnswersIn(News(n))) = 0
<1>1. \A type \in {"added", "removed", "current", "snapshot"} : Message(type) \in ChangeTypes
    BY BoundsAssumption DEF Message, ChangeTypes, Versions
<1>2. ASSUME NEW n \in Versions
      PROVE  News(n) \in Seq(ChangeTypes) /\ Cardinality(AnswersIn(News(n))) = 0
    <2> DEFINE doc == [type |-> "document", version |-> version]
    <2>1. doc \in ChangeTypes /\ ~IsAnswer(doc)
        BY DEF TypeOK, ChangeTypes, IsAnswer
    <2> HIDE DEF doc
    <2>2. <<doc>> \in Seq(ChangeTypes) /\ Cardinality(AnswersIn(<<doc>>)) = 0
        BY <2>1, AnswersOne
    <2>3. News(n) = <<doc>> \/ News(n) = <<>>
        BY DEF News, doc
    <2>4. <<>> \in Seq(ChangeTypes) /\ Cardinality(AnswersIn(<<>>)) = 0
        BY AnswersEmpty
    <2>5. CASE News(n) = <<doc>>
        BY <2>2, <2>5, Zenon
    <2>6. CASE News(n) = <<>>
        BY <2>4, <2>6, Zenon
    <2>q. QED BY <2>3, <2>5, <2>6
<1>q. QED BY <1>1, <1>2

(* ---------------------- the stream and the tracker ---------------------- *)

ServingTypes == [on : BOOLEAN, sent : Versions]

\* A stream that is not open carries nothing and has a new aggregator, and what
\* is outstanding is on the wire, on one way or the other.
Wire ==
    /\ stream # "open" =>
         /\ requests = <<>> /\ changes = <<>> /\ ~serving.on
         /\ target = NoTarget /\ update = 0 /\ ~idle
    /\ stream # "stopped" => enabled
    /\ target.outstanding = Len(requests) + Cardinality(AnswersIn(changes))

StoreTypes ==
    /\ enabled \in BOOLEAN /\ listened \in BOOLEAN /\ idle \in BOOLEAN
    /\ stream \in {"stopped", "starting", "open"}
    /\ target \in TargetTypes /\ update \in Versions
    /\ online \in {"Unknown", "Online", "Offline"}
    /\ failed \in BOOLEAN /\ timer \in BOOLEAN
    /\ requests \in Seq({"watch", "unwatch"})
    /\ changes \in Seq(ChangeTypes)
    /\ serving \in ServingTypes

Store == StoreTypes /\ Wire /\ TrackerAssertions

LEMMA NothingTypes ==
    /\ NoTarget \in TargetTypes /\ NoTarget.outstanding = 0
    /\ NotServing \in ServingTypes /\ ~NotServing.on
    /\ 0 \in Versions /\ NoDocument \in [version : Versions, kind : {"plain", "committed"}]
    /\ NoDocument \in Documents /\ NoView \in ViewTypes
<1>1. 0 \in Versions
    BY BoundsAssumption DEF Versions
<1>2. NoDocument \in Documents /\ NoDocument \in [version : Versions, kind : {"plain", "committed"}]
    BY <1>1 DEF NoDocument, Documents
<1>3. NoView \in ViewTypes
    BY <1>1, <1>2 DEF NoView, ViewTypes
<1>q. QED BY <1>1, <1>2, <1>3 DEF NoTarget, TargetTypes, NotServing, ServingTypes

\* A request that is sent.
LEMMA SendKeeps ==
    ASSUME StoreTypes, Wire, NEW request \in {"watch", "unwatch"}, Send(request),
           stream' = "open", enabled'
    PROVE  /\ target' \in TargetTypes /\ requests' \in Seq({"watch", "unwatch"}) /\ Wire'
           /\ target'.outstanding = target.outstanding + 1 /\ target'.outstanding # 0
           /\ UNCHANGED <<update, changes, serving>>
<1>1. /\ requests' = Append(requests, request) /\ UNCHANGED <<update, changes, serving>>
      /\ target' = [target EXCEPT !.outstanding = @ + 1]
    BY DEF Send
<1>2. /\ requests' \in Seq({"watch", "unwatch"}) /\ Len(requests') = Len(requests) + 1
      /\ Len(requests) \in Nat
    BY <1>1 DEF StoreTypes
<1>3. target' \in TargetTypes /\ target'.outstanding = target.outstanding + 1
      /\ target.outstanding \in Nat
    BY <1>1 DEF StoreTypes, TargetTypes
<1>4. Cardinality(AnswersIn(changes)) \in Nat
    BY AnswersFinite DEF StoreTypes
<1>5. target'.outstanding = Len(requests') + Cardinality(AnswersIn(changes'))
    <2>1. Cardinality(AnswersIn(changes')) = Cardinality(AnswersIn(changes))
        BY <1>1
    <2>q. QED BY <1>2, <1>3, <1>4, <2>1 DEF Wire
<1>q. QED BY <1>1, <1>2, <1>3, <1>5 DEF Wire

\* A stream that stops or starts anew.
LEMMA FreshKeeps ==
    ASSUME target' = NoTarget, update' = 0,
           requests' = <<>>, changes' = <<>>, serving' \in ServingTypes, ~serving'.on, ~idle',
           stream' # "stopped" => enabled'
    PROVE  /\ target' \in TargetTypes /\ update' \in Versions /\ Wire'
           /\ requests' \in Seq({"watch", "unwatch"}) /\ changes' \in Seq(ChangeTypes)
<1>1. Len(requests') = 0 /\ Cardinality(AnswersIn(changes')) = 0
    BY AnswersEmpty
<1>q. QED BY <1>1, NothingTypes DEF Wire

LEMMA ListenKeeps ==
    ASSUME Store, Listen, UNCHANGED enabled
    PROVE  Store'
<1> USE DEF Store
<1>1. CASE enabled /\ stream = "stopped"
    <2>1. /\ listened' = TRUE /\ stream' = "starting" /\ FreshAggregator /\ HandleStart(failed)
          /\ UNCHANGED <<idle, failed, requests, changes, serving>>
        BY <1>1 DEF Listen, wireVars
    <2>2. requests = <<>> /\ changes = <<>> /\ ~serving.on /\ ~idle
        BY <1>1 DEF Wire
    <2>3. /\ target' \in TargetTypes /\ update' \in Versions /\ Wire'
          /\ requests' \in Seq({"watch", "unwatch"}) /\ changes' \in Seq(ChangeTypes)
        BY <1>1, <2>1, <2>2, FreshKeeps DEF FreshAggregator, StoreTypes
    <2>4. /\ online' \in {"Unknown", "Online", "Offline"} /\ timer' \in BOOLEAN
          /\ TrackerAssertions'
        BY <1>1, <2>1 DEF HandleStart, StoreTypes, TrackerAssertions
    <2>q. QED BY <2>1, <2>3, <2>4 DEF StoreTypes
<1>2. CASE stream = "open"
    <2>1. /\ listened' = TRUE /\ Send("watch") /\ idle' = FALSE
          /\ UNCHANGED <<stream, online, failed, timer>>
        BY <1>2 DEF Listen, trackerVars
    <2>2. /\ target' \in TargetTypes /\ requests' \in Seq({"watch", "unwatch"}) /\ Wire'
          /\ UNCHANGED <<update, changes, serving>>
        BY <1>2, <2>1, SendKeeps DEF Wire
    <2>q. QED BY <1>2, <2>1, <2>2 DEF StoreTypes, TrackerAssertions
<1>3. CASE ~(enabled /\ stream = "stopped") /\ stream # "open"
    <2>1. listened' = TRUE /\ UNCHANGED <<stream, idle, target, update, online, failed, timer,
                                          requests, changes, serving>>
        BY <1>3 DEF Listen, trackerVars, wireVars
    <2>q. QED BY <2>1 DEF StoreTypes, Wire, TrackerAssertions
<1>q. QED BY <1>1, <1>2, <1>3

LEMMA StopListeningKeeps ==
    ASSUME Store, StopListening, UNCHANGED enabled
    PROVE  Store'
<1> USE DEF Store
<1>1. CASE stream = "open"
    <2>1. /\ listened' = FALSE /\ Send("unwatch") /\ idle' = TRUE
          /\ UNCHANGED <<stream, online, failed, timer>>
        BY <1>1 DEF StopListening, trackerVars
    <2>2. /\ target' \in TargetTypes /\ requests' \in Seq({"watch", "unwatch"}) /\ Wire'
          /\ UNCHANGED <<update, changes, serving>>
        BY <1>1, <2>1, SendKeeps DEF Wire
    <2>q. QED BY <1>1, <2>1, <2>2 DEF StoreTypes, TrackerAssertions
<1>2. CASE stream # "open"
    <2>1. /\ listened' = FALSE
          /\ UNCHANGED <<stream, idle, target, update, requests, changes, serving>>
          /\ IF enabled THEN UpdateState("Unknown") ELSE UNCHANGED <<online, failed, timer>>
        BY <1>2 DEF StopListening, trackerVars, wireVars
    <2>2. Wire'
        BY <2>1 DEF Wire
    <2>3. TrackerAssertions' /\ online' \in {"Unknown", "Online", "Offline"}
          /\ failed' \in BOOLEAN /\ timer' \in BOOLEAN
        BY <2>1 DEF UpdateState, TrackerAssertions, StoreTypes
    <2>q. QED BY <2>1, <2>2, <2>3 DEF StoreTypes
<1>q. QED BY <1>1, <1>2

\* What arrives is counted off.
LEMMA WatchChangeKeeps ==
    ASSUME Store, WatchChange
    PROVE  Store'
<1> USE DEF Store
<1> DEFINE head == Head(changes)
           left == Cardinality(AnswersIn(Tail(changes)))
<1>1. /\ changes # <<>> /\ changes' = Tail(changes) /\ UpdateState("Online")
      /\ UNCHANGED <<enabled, listened, stream, idle, requests, serving>>
      /\ IF head.type = "snapshot" THEN RaiseSnapshot ELSE Aggregate(head)
    BY DEF WatchChange
<1>2. stream = "open"
    BY <1>1 DEF Wire, StoreTypes
<1>3. /\ changes' \in Seq(ChangeTypes) /\ head \in ChangeTypes
      /\ Cardinality(AnswersIn(changes)) = left + (IF IsAnswer(head) THEN 1 ELSE 0)
      /\ Cardinality(AnswersIn(changes')) = left /\ left \in Nat
    <2>1. changes \in Seq(ChangeTypes)
        BY DEF StoreTypes
    <2>2. Tail(changes) \in Seq(ChangeTypes) /\ head \in ChangeTypes
        BY <1>1, <2>1, AnswersTail
    <2>3. Cardinality(AnswersIn(changes)) = left + (IF IsAnswer(head) THEN 1 ELSE 0)
        BY <1>1, <2>1, AnswersTail
    <2>4. left \in Nat
        BY <2>2, AnswersFinite
    <2>5. Cardinality(AnswersIn(changes')) = left
        BY <1>1
    <2>q. QED BY <1>1, <2>2, <2>3, <2>4, <2>5
<1>4. Len(requests) \in Nat /\ target.outstanding \in Nat /\ target \in TargetTypes
    BY DEF StoreTypes, TargetTypes
<1>5. target.outstanding = Len(requests) + Cardinality(AnswersIn(changes))
    BY DEF Wire
<1> HIDE DEF head, left
<1>6. target' \in TargetTypes /\ update' \in Versions
      /\ target'.outstanding = Len(requests) + left
    <2>1. CASE head.type = "snapshot"
        <3>1. update' = 0 /\ \E c \in BOOLEAN : target' = [target EXCEPT !.changed = c]
            <4>1. (target.changed /\ ~(Active /\ target.changed)) \in BOOLEAN
                OBVIOUS
            <4>q. QED BY <1>1, <2>1, <4>1 DEF RaiseSnapshot
        <3>2. PICK c \in BOOLEAN : target' = [target EXCEPT !.changed = c]
            BY <3>1
        <3>3. target' \in TargetTypes /\ target'.outstanding = target.outstanding
            BY <1>4, <3>2 DEF TargetTypes
        <3>q. QED BY <1>3, <1>5, <2>1, <3>1, <3>3, NothingTypes DEF IsAnswer
    <2>2. ASSUME head.type # "snapshot"
          PROVE  update' \in Versions
        <3>1. head.version \in Versions /\ update \in Versions
            BY <1>3 DEF ChangeTypes, StoreTypes
        <3>q. QED BY <1>1, <2>2, <3>1 DEF Aggregate
    <2>3. CASE head.type = "added"
        <3>1. \E c \in BOOLEAN : target' = [target EXCEPT !.outstanding = @ - 1, !.changed = c]
            <4>1. (target.changed /\ target.outstanding # 1) \in BOOLEAN
                OBVIOUS
            <4>q. QED BY <1>1, <2>3, <4>1 DEF Aggregate
        <3>2. PICK c \in BOOLEAN :
                target' = [target EXCEPT !.outstanding = @ - 1, !.changed = c]
            BY <3>1
        <3>3. target.outstanding = Len(requests) + left + 1
            BY <1>3, <1>4, <1>5, <2>3 DEF IsAnswer
        <3>4. target' \in TargetTypes /\ target'.outstanding = target.outstanding - 1
            <4> DEFINE o == target.outstanding - 1
            <4>1. o \in Nat
                BY <1>3, <1>4, <3>3
            <4>2. target' = [target EXCEPT !.outstanding = o, !.changed = c]
                BY <3>2
            <4> HIDE DEF o
            <4>3. target' \in TargetTypes /\ target'.outstanding = o
                BY <1>4, <4>1, <4>2 DEF TargetTypes
            <4>q. QED BY <4>3 DEF o
        <3>5. target'.outstanding = Len(requests) + left
            BY <1>3, <1>4, <3>3, <3>4
        <3>6. update' \in Versions
            BY <2>2, <2>3
        <3>q. QED BY <3>4, <3>5, <3>6
    <2>4. CASE head.type = "removed"
        <3>1. target.outstanding = Len(requests) + left + 1
            BY <1>3, <1>4, <1>5, <2>4 DEF IsAnswer
        <3>2. CASE target.outstanding = 1
            <4>1. target' = NoTarget
                BY <1>1, <2>4, <3>2 DEF Aggregate
            <4>q. QED BY <1>3, <1>4, <2>2, <2>4, <3>1, <3>2, <4>1, NothingTypes
        <3>3. CASE target.outstanding # 1
            <4>1. target' = [target EXCEPT !.outstanding = @ - 1]
                BY <1>1, <2>4, <3>3 DEF Aggregate
            <4>2. target' \in TargetTypes /\ target'.outstanding = target.outstanding - 1
                BY <1>3, <1>4, <3>1, <4>1 DEF TargetTypes
            <4>q. QED BY <1>3, <1>4, <2>2, <2>4, <3>1, <4>2
        <3>q. QED BY <3>2, <3>3
    <2>5. CASE head.type \in {"current", "document"}
        <3>1. \E c, b \in BOOLEAN : target' = [target EXCEPT !.current = b, !.changed = c]
            <4>1. \/ target' = target
                  \/ target' = [target EXCEPT !.current = TRUE, !.changed = TRUE]
                  \/ target' = [target EXCEPT !.changed = TRUE]
                BY <1>1, <2>5 DEF Aggregate
            <4>2. CASE target' = target
                <5>1. target' = [target EXCEPT !.current = target.current,
                                               !.changed = target.changed]
                    BY <1>4, <4>2 DEF TargetTypes
                <5>2. target.current \in BOOLEAN /\ target.changed \in BOOLEAN
                    BY <1>4 DEF TargetTypes
                <5>q. QED BY <5>1, <5>2
            <4>3. CASE target' = [target EXCEPT !.current = TRUE, !.changed = TRUE]
                BY <4>3
            <4>4. CASE target' = [target EXCEPT !.changed = TRUE]
                <5>1. target' = [target EXCEPT !.current = target.current, !.changed = TRUE]
                    BY <1>4, <4>4 DEF TargetTypes
                <5>2. target.current \in BOOLEAN
                    BY <1>4 DEF TargetTypes
                <5>q. QED BY <5>1, <5>2
            <4>q. QED BY <4>1, <4>2, <4>3, <4>4
        <3>2. PICK c \in BOOLEAN, b \in BOOLEAN :
                target' = [target EXCEPT !.current = b, !.changed = c]
            BY <3>1
        <3>3. target' \in TargetTypes /\ target'.outstanding = target.outstanding
            BY <1>4, <3>2 DEF TargetTypes
        <3>q. QED BY <1>3, <1>5, <2>2, <2>5, <3>3 DEF IsAnswer
    <2>q. QED BY <1>3, <2>1, <2>3, <2>4, <2>5 DEF ChangeTypes
<1>7. Wire'
    BY <1>1, <1>2, <1>3, <1>6 DEF Wire
<1>8. TrackerAssertions'
    BY <1>1, <1>2 DEF TrackerAssertions, UpdateState
<1>q. QED BY <1>1, <1>3, <1>6, <1>7, <1>8 DEF StoreTypes, UpdateState

\* The server's steps.
LEMMA ServerKeeps ==
    ASSUME TypeOK, Store, TakesRequest \/ CatchesUp
    PROVE  Store'
<1> USE DEF Store
<1>1. /\ UNCHANGED <<enabled, listened, stream, idle, target, update, online, failed, timer>>
      /\ requests # <<>> \/ serving.on
    BY DEF TakesRequest, CatchesUp, serverFrame, storeVars, trackerVars
<1>2. stream = "open"
    BY <1>1 DEF Wire, StoreTypes
<1>3. /\ changes \in Seq(ChangeTypes) /\ version \in Versions /\ 0 \in Versions
      /\ Cardinality(AnswersIn(changes)) \in Nat /\ serving \in ServingTypes
      /\ requests \in Seq({"watch", "unwatch"}) /\ Len(requests) \in Nat
    BY AnswersFinite, NothingTypes DEF StoreTypes, TypeOK
<1> DEFINE total == Len(requests) + Cardinality(AnswersIn(changes))
<1>4. /\ changes' \in Seq(ChangeTypes) /\ serving' \in ServingTypes
      /\ requests' \in Seq({"watch", "unwatch"})
      /\ Len(requests') + Cardinality(AnswersIn(changes')) = total
    <2>1. CASE TakesRequest
        <3>1. /\ requests # <<>> /\ requests' = Tail(requests)
              /\ requests' \in Seq({"watch", "unwatch"}) /\ Len(requests') = Len(requests) - 1
            BY <1>3, <2>1 DEF TakesRequest
        <3>2. CASE Head(requests) = "watch"
            <4> DEFINE first == <<Message("added")>>
                       one == changes \o first
                       two == one \o News(0)
                       last == <<Message("current"), Message("snapshot")>>
            <4>1. changes' = two \o last /\ serving' = [on |-> TRUE, sent |-> version]
                BY <2>1, <3>2 DEF TakesRequest
            <4>2. first \in Seq(ChangeTypes) /\ last \in Seq(ChangeTypes)
                  /\ News(0) \in Seq(ChangeTypes) /\ Cardinality(AnswersIn(News(0))) = 0
                BY <1>3, Sent
            <4>3. Cardinality(AnswersIn(first)) = 1
                BY Sent, AnswersOne DEF Message, IsAnswer
            <4>4. Cardinality(AnswersIn(last)) = 0
                <5>1. AnswersIn(last) = {}
                    BY DEF AnswersIn, Message, IsAnswer
                <5>q. QED BY <5>1, FS_EmptySet
            <4> HIDE DEF first, last
            <4>5. /\ one \in Seq(ChangeTypes)
                  /\ Cardinality(AnswersIn(one)) = Cardinality(AnswersIn(changes)) + 1
                BY <1>3, <4>2, <4>3, AnswersConcat
            <4> HIDE DEF one
            <4>6. /\ two \in Seq(ChangeTypes)
                  /\ Cardinality(AnswersIn(two)) = Cardinality(AnswersIn(one)) + 0
                BY <4>2, <4>5, AnswersConcat
            <4> HIDE DEF two
            <4>7. /\ two \o last \in Seq(ChangeTypes)
                  /\ Cardinality(AnswersIn(two \o last)) = Cardinality(AnswersIn(two)) + 0
                BY <4>2, <4>4, <4>6, AnswersConcat
            <4>8. /\ changes' \in Seq(ChangeTypes)
                  /\ Cardinality(AnswersIn(changes')) = Cardinality(AnswersIn(changes)) + 1
                BY <1>3, <4>1, <4>5, <4>6, <4>7
            <4>9. serving' \in ServingTypes
                BY <1>3, <4>1 DEF ServingTypes
            <4>q. QED BY <1>3, <3>1, <4>8, <4>9
        <3>3. CASE Head(requests) # "watch"
            <4> DEFINE message == Message("removed")
            <4>1. changes' = Append(changes, message) /\ serving' = NotServing
                BY <2>1, <3>3 DEF TakesRequest
            <4>2. message \in ChangeTypes /\ IsAnswer(message)
                BY Sent DEF Message, IsAnswer
            <4> HIDE DEF message
            <4>3. /\ changes' = changes \o <<message>> /\ <<message>> \in Seq(ChangeTypes)
                  /\ Cardinality(AnswersIn(<<message>>)) = 1
                BY <1>3, <4>1, <4>2, AnswersOne
            <4> DEFINE sent == <<message>>
            <4> HIDE DEF sent
            <4>4. /\ changes' = changes \o sent /\ changes \o sent \in Seq(ChangeTypes)
                  /\ Cardinality(AnswersIn(changes \o sent)) =
                        Cardinality(AnswersIn(changes)) + 1
                <5>1. sent \in Seq(ChangeTypes) /\ Cardinality(AnswersIn(sent)) = 1
                    BY <4>3 DEF sent
                <5>2. changes' = changes \o sent
                    BY <4>3 DEF sent
                <5>q. QED BY <1>3, <5>1, <5>2, AnswersConcat
            <4>5. /\ changes' \in Seq(ChangeTypes)
                  /\ Cardinality(AnswersIn(changes')) = Cardinality(AnswersIn(changes)) + 1
                BY <4>4
            <4>q. QED BY <1>3, <3>1, <4>1, <4>5, NothingTypes
        <3>q. QED BY <3>2, <3>3
    <2>2. CASE CatchesUp
        <3> DEFINE news == changes \o News(serving.sent)
                   last == <<Message("snapshot")>>
        <3>1. /\ changes' = news \o last /\ UNCHANGED requests
              /\ serving' = [serving EXCEPT !.sent = version]
            BY <2>2 DEF CatchesUp
        <3>2. /\ News(serving.sent) \in Seq(ChangeTypes)
              /\ Cardinality(AnswersIn(News(serving.sent))) = 0
            <4>1. serving.sent \in Versions
                BY <1>3 DEF ServingTypes
            <4>q. QED BY <4>1, Sent
        <3>3. last \in Seq(ChangeTypes) /\ Cardinality(AnswersIn(last)) = 0
            BY Sent, AnswersOne DEF Message, IsAnswer
        <3> HIDE DEF last
        <3>4. /\ news \in Seq(ChangeTypes)
              /\ Cardinality(AnswersIn(news)) = Cardinality(AnswersIn(changes)) + 0
            BY <1>3, <3>2, AnswersConcat
        <3> HIDE DEF news
        <3>5. /\ news \o last \in Seq(ChangeTypes)
              /\ Cardinality(AnswersIn(news \o last)) = Cardinality(AnswersIn(news)) + 0
            BY <3>3, <3>4, AnswersConcat
        <3>6. /\ changes' \in Seq(ChangeTypes)
              /\ Cardinality(AnswersIn(changes')) = Cardinality(AnswersIn(changes))
            BY <1>3, <3>1, <3>4, <3>5
        <3>7. serving' \in ServingTypes
            BY <1>3, <3>1 DEF ServingTypes
        <3>q. QED BY <1>3, <3>1, <3>6, <3>7
    <2>q. QED BY <2>1, <2>2
<1>5. Wire'
    BY <1>1, <1>2, <1>4 DEF Wire
<1>q. QED BY <1>1, <1>4, <1>5 DEF StoreTypes, TrackerAssertions

LEMMA StoreInit == Init => Store
<1> SUFFICES ASSUME Init PROVE Store
    OBVIOUS
<1>1. StoreTypes
    <2>1. target \in TargetTypes /\ serving \in ServingTypes /\ update \in Versions
        BY NothingTypes DEF Init
    <2>2. requests \in Seq({"watch", "unwatch"}) /\ changes \in Seq(ChangeTypes)
        BY DEF Init
    <2>q. QED BY <2>1, <2>2 DEF Init, StoreTypes
<1>2. Len(requests) = 0 /\ Cardinality(AnswersIn(changes)) = 0
    BY AnswersEmpty DEF Init
<1>3. Wire
    BY <1>2, NothingTypes DEF Init, Wire
<1>4. TrackerAssertions
    BY DEF Init, TrackerAssertions
<1>q. QED BY <1>1, <1>3, <1>4 DEF Store

LEMMA StoreStep == TypeOK /\ Store /\ [Next]_vars => Store'
<1> SUFFICES ASSUME TypeOK, Store, [Next]_vars PROVE Store'
    OBVIOUS
<1> USE DEF storeVars, trackerVars, wireVars
<1>1. ASSUME UNCHANGED <<enabled, storeVars, trackerVars, wireVars>> PROVE Store'
    BY <1>1 DEF Store, StoreTypes, Wire, TrackerAssertions
<1>2. CASE \/ GetDocument \/ Callback \/ Write \/ Acknowledged \/ OtherWrites \/ AppliesWrite
           \/ UNCHANGED vars
    <2>1. CASE GetDocument
        BY <1>1, <2>1 DEF GetDocument
    <2>2. CASE Callback
        BY <1>1, <2>2 DEF Callback
    <2>3. CASE Write
        BY <1>1, <2>3 DEF Write
    <2>4. CASE Acknowledged
        BY <1>1, <2>4 DEF Acknowledged
    <2>5. CASE OtherWrites \/ AppliesWrite
        BY <1>1, <2>5 DEF OtherWrites, AppliesWrite, serverFrame
    <2>6. CASE UNCHANGED vars
        BY <1>1, <2>6 DEF vars
    <2>q. QED BY <1>2, <2>1, <2>2, <2>3, <2>4, <2>5, <2>6
<1>3. CASE RunTask
    <2>1. /\ UNCHANGED enabled
          /\ \/ Listen \/ StopListening
             \/ UNCHANGED <<storeVars, trackerVars, wireVars>>
        BY <1>3 DEF RunTask, AddListener, RemoveListener
    <2>q. QED BY <1>1, <2>1, ListenKeeps, StopListeningKeeps
<1>4. CASE StreamOpens
    <2>1. /\ stream = "starting" /\ stream' = "open"
          /\ UNCHANGED <<enabled, listened, idle, online, failed, timer>>
          /\ IF listened THEN Send("watch")
             ELSE UNCHANGED <<target, update, requests, changes, serving>>
        BY <1>4 DEF StreamOpens
    <2>2. enabled /\ TrackerAssertions'
        BY <2>1 DEF Store, Wire, TrackerAssertions
    <2>3. CASE listened
        BY <2>1, <2>2, <2>3, SendKeeps DEF Store, StoreTypes
    <2>4. CASE ~listened
        BY <2>1, <2>2, <2>4 DEF Store, StoreTypes, Wire
    <2>q. QED BY <2>3, <2>4
<1>5. ASSUME FreshAggregator, requests' = <<>>, changes' = <<>>, serving' \in ServingTypes,
             ~serving'.on, idle' = FALSE, stream' \in {"stopped", "starting"},
             stream' # "stopped" => enabled', enabled' \in BOOLEAN, listened' = listened,
             online' \in {"Unknown", "Online", "Offline"}, failed' \in BOOLEAN,
             timer' \in BOOLEAN, TrackerAssertions'
      PROVE  Store'
    <2>1. /\ target' \in TargetTypes /\ update' \in Versions /\ Wire'
          /\ requests' \in Seq({"watch", "unwatch"}) /\ changes' \in Seq(ChangeTypes)
        BY <1>5, FreshKeeps DEF FreshAggregator
    <2>q. QED BY <1>5, <2>1 DEF Store, StoreTypes
<1>6. CASE StreamFails
    <2>1. /\ requests' = <<>> /\ changes' = <<>> /\ serving' \in ServingTypes
          /\ ~serving'.on /\ FreshAggregator /\ idle' = FALSE
          /\ stream # "stopped" /\ UNCHANGED <<enabled, listened>>
        BY <1>6, NothingTypes DEF StreamFails, Disconnected
    <2>2. enabled /\ enabled' \in BOOLEAN
        BY <2>1 DEF Store, Wire, StoreTypes
    <2>3. CASE listened
        <3>1. /\ stream' = "starting"
              /\ IF online = "Online"
                 THEN HandleStart(FALSE) /\ UNCHANGED failed
                 ELSE online' = "Offline" /\ failed' = TRUE /\ timer' = FALSE
            BY <1>6, <2>3 DEF StreamFails
        <3>2. TrackerAssertions' /\ online' \in {"Unknown", "Online", "Offline"}
              /\ failed' \in BOOLEAN /\ timer' \in BOOLEAN
            BY <3>1 DEF HandleStart, TrackerAssertions, Store, StoreTypes
        <3>q. QED BY <1>5, <2>1, <2>2, <3>1, <3>2
    <2>4. CASE ~listened
        <3>1. stream' = "stopped" /\ UpdateState("Unknown")
            BY <1>6, <2>4 DEF StreamFails
        <3>2. TrackerAssertions'
            BY <3>1 DEF UpdateState, TrackerAssertions
        <3>q. QED BY <1>5, <2>1, <2>2, <3>1, <3>2 DEF UpdateState
    <2>q. QED BY <2>3, <2>4
<1>7. CASE IdleTimeout
    <2>1. /\ requests' = <<>> /\ changes' = <<>> /\ serving' \in ServingTypes /\ ~serving'.on
          /\ FreshAggregator /\ idle' = FALSE /\ stream' = "stopped"
          /\ UpdateState("Unknown") /\ UNCHANGED <<enabled, listened>>
        BY <1>7, NothingTypes DEF IdleTimeout, Disconnected
    <2>2. TrackerAssertions' /\ enabled' \in BOOLEAN
        BY <2>1 DEF UpdateState, TrackerAssertions, Store, StoreTypes
    <2>q. QED BY <1>5, <2>1, <2>2 DEF UpdateState
<1>8. CASE OnlineTimeout
    BY <1>8 DEF OnlineTimeout, Store, StoreTypes, Wire, TrackerAssertions
<1>9. CASE DisableNetwork
    <2>1. /\ requests' = <<>> /\ changes' = <<>> /\ serving' \in ServingTypes /\ ~serving'.on
          /\ FreshAggregator /\ idle' = FALSE /\ stream' = "stopped"
          /\ UpdateState("Offline") /\ enabled' = FALSE /\ UNCHANGED listened
        BY <1>9, NothingTypes DEF DisableNetwork, Disconnected
    <2>2. TrackerAssertions'
        BY <2>1 DEF UpdateState, TrackerAssertions
    <2>q. QED BY <1>5, <2>1, <2>2 DEF UpdateState
<1>10. ASSUME StartAgain, UNCHANGED listened, requests' = <<>>, changes' = <<>>,
              serving' \in ServingTypes, ~serving'.on, idle' = FALSE
       PROVE  Store'
    <2>1. listened \in BOOLEAN
        BY DEF Store, StoreTypes
    <2>2. TrackerAssertions'
        BY <1>10 DEF StartAgain, TrackerAssertions
    <2>q. QED BY <1>5, <1>10, <2>1, <2>2 DEF StartAgain
<1>11. CASE EnableNetwork
    <2>1. ~enabled /\ StartAgain /\ UNCHANGED <<listened, idle, requests, changes, serving>>
        BY <1>11 DEF EnableNetwork
    <2>2. /\ requests = <<>> /\ changes = <<>> /\ ~serving.on /\ idle = FALSE
          /\ serving \in ServingTypes
        BY <2>1 DEF Store, Wire, StoreTypes
    <2>q. QED BY <1>10, <2>1, <2>2
<1>12. CASE RestartNetwork
    <2>1. /\ requests' = <<>> /\ changes' = <<>> /\ serving' \in ServingTypes /\ ~serving'.on
          /\ StartAgain /\ idle' = FALSE /\ UNCHANGED listened
        BY <1>12, NothingTypes DEF RestartNetwork, Disconnected
    <2>q. QED BY <1>10, <2>1
<1>q. QED BY <1>2, <1>3, <1>4, <1>6, <1>7, <1>8, <1>9, <1>11, <1>12,
             WatchChangeKeeps, ServerKeeps DEF Next

(* ------------------------------- types --------------------------------- *)

TaskTypes == [op : {"add", "remove"}, read : Reads]
CacheTypes == [version : Versions, kind : {"plain", "committed"}]
FlagTypes == [hasPendingWrites : BOOLEAN, isFromCache : BOOLEAN]

RestTypes ==
    /\ tasks \in Seq(TaskTypes)
    /\ listeners \subseteq Reads /\ raised \subseteq Reads /\ muted \subseteq Reads
    /\ view \in ViewTypes /\ cache \in CacheTypes
    /\ writes \in Seq(Versions) /\ acked \in 0..Len(writes)
    /\ version \in Versions /\ newest \in Versions /\ asOf \in Versions
    /\ metadata \in FlagTypes
    /\ mainQueue \in Seq(EventTypes)
    /\ called \in 0..MaxReads /\ breaks \in 0..MaxBreaks
    /\ wrote \in [Reads -> Nat] /\ answers \in [Reads -> Nat]

LEMMA TypeParts == TypeOK <=> StoreTypes /\ RestTypes
BY DEF TypeOK, StoreTypes, RestTypes, TaskTypes, CacheTypes, FlagTypes, ViewTypes, EventTypes,
       TargetTypes, ServingTypes, ChangeTypes

\* What the watch stream and an acknowledgement make of the cache.
LEMMA WatchedCache ==
    ASSUME TypeOK, RaiseSnapshot
    PROVE  /\ cache' \in CacheTypes /\ cache'.version >= cache.version
           /\ IF update > 0 /\ Newer(cache, update)
              THEN cache'.version = update /\ cache'.kind = "plain"
              ELSE cache' = cache
<1>1. cache \in CacheTypes /\ update \in Versions /\ cache.version \in Versions
    BY TypeParts DEF StoreTypes, RestTypes, CacheTypes
<1>2. cache.version \in Int /\ update \in Int
    BY <1>1, BoundsAssumption DEF Versions
<1>3. CASE update > 0 /\ Newer(cache, update)
    <2>1. cache' = [version |-> update, kind |-> "plain"]
        BY <1>3 DEF RaiseSnapshot
    <2>2. cache'.version = update /\ cache'.kind = "plain"
        BY <2>1
    <2>3. cache' \in CacheTypes
        BY <1>1, <2>1 DEF CacheTypes
    <2>4. update >= cache.version
        <3>1. update > cache.version \/ update = cache.version
            BY <1>3 DEF Newer
        <3>q. QED BY <1>2, <3>1
    <2>q. QED BY <1>3, <2>2, <2>3, <2>4
<1>4. CASE ~(update > 0 /\ Newer(cache, update))
    <2>1. cache' = cache
        BY <1>4 DEF RaiseSnapshot
    <2>2. cache'.version >= cache.version
        BY <1>2, <2>1
    <2>q. QED BY <1>1, <1>4, <2>1, <2>2
<1>q. QED BY <1>3, <1>4

LEMMA CommittedCache ==
    ASSUME TypeOK, Acknowledged
    PROVE  /\ acked' = acked + 1 /\ acked' \in 1..Len(writes) /\ UNCHANGED writes
           /\ acked < Len(writes) /\ writes[acked'] \in Versions /\ writes[acked'] > 0
           /\ cache' \in CacheTypes /\ cache'.version >= cache.version
           /\ cache'.version >= writes[acked']
           /\ cache' = cache \/ cache'.kind = "committed"
<1>1. /\ acked' = acked + 1 /\ UNCHANGED writes /\ acked < Len(writes)
      /\ writes[acked + 1] > 0 /\ cache' = Committed(cache, writes[acked'])
    BY DEF Acknowledged, Pending
<1>2. /\ acked \in Nat /\ Len(writes) \in Nat /\ writes \in Seq(Versions)
      /\ cache \in CacheTypes /\ cache.version \in Versions /\ Versions \subseteq Int
    BY TypeParts DEF RestTypes, CacheTypes, Versions
<1>3. acked' \in 1..Len(writes) /\ writes[acked'] \in Versions
    BY <1>1, <1>2
<1> DEFINE v == writes[acked']
<1>4. v \in Versions /\ v \in Int /\ cache' = Committed(cache, v)
    BY <1>1, <1>2, <1>3
<1> HIDE DEF v
<1>6. cache.version \in Int
    BY <1>2
<1>5. /\ cache' \in CacheTypes /\ cache'.version >= cache.version /\ cache'.version >= v
      /\ cache' = cache \/ cache'.kind = "committed"
    <2>1. CASE cache.version < v
        <3>1. cache' = [version |-> v, kind |-> "committed"]
            BY <1>4, <2>1 DEF Committed
        <3>2. cache' \in CacheTypes
            BY <1>4, <3>1 DEF CacheTypes
        <3>3. cache'.version = v /\ cache'.kind = "committed"
            BY <3>1
        <3>4. v >= cache.version /\ v >= v
            BY <1>4, <1>6, <2>1
        <3>q. QED BY <3>2, <3>3, <3>4
    <2>2. CASE ~(cache.version < v)
        <3>1. cache' = cache
            BY <1>4, <2>2 DEF Committed
        <3>2. cache.version >= v /\ cache.version >= cache.version
            BY <1>4, <1>6, <2>2
        <3>q. QED BY <1>2, <3>1, <3>2
    <2>q. QED BY <2>1, <2>2
<1>q. QED BY <1>1, <1>3, <1>5 DEF v

\* What a snapshot makes of the view.
SnapshotView(new) ==
    LET moved == Active /\ target.changed
        v == IF moved /\ view.open THEN [view EXCEPT !.current = target.current] ELSE view
    IN IF update > 0 /\ Newer(cache, update) THEN Updated(v, Overlaid(new, Pending)) ELSE v

LEMMA SnapshotShown ==
    ASSUME TypeOK, RaiseSnapshot
    PROVE  SnapshotView(cache') \in ViewTypes /\ Show(SnapshotView(cache'), "Online")
<1> DEFINE v == IF (Active /\ target.changed) /\ view.open
                THEN [view EXCEPT !.current = target.current] ELSE view
           new == Overlaid(cache', Pending)
<1>1. view \in ViewTypes /\ target.current \in BOOLEAN
    BY TypeParts DEF RestTypes, StoreTypes, TargetTypes
<1>2. v \in ViewTypes
    BY <1>1, ViewMade
<1>3. new \in Documents
    <2>1. cache' \in CacheTypes /\ Pending \in BOOLEAN
        BY WatchedCache DEF Pending
    <2>q. QED BY <2>1, DocumentMade DEF CacheTypes
<1>4. SnapshotView(cache') = IF update > 0 /\ Newer(cache, update) THEN Updated(v, new) ELSE v
    BY DEF SnapshotView
<1>5. Show(SnapshotView(cache'), "Online")
    BY DEF RaiseSnapshot, SnapshotView
<1> HIDE DEF v, new
<1>6. SnapshotView(cache') \in ViewTypes
    BY <1>2, <1>3, <1>4, ViewMade
<1>q. QED BY <1>5, <1>6

\* Every step but a callback tells the listeners of the view it leaves.
LEMMA ViewStep ==
    ASSUME TypeOK, [Next]_vars
    PROVE  /\ view' \in ViewTypes /\ raised' \subseteq Reads /\ listeners' \subseteq Reads
           /\ Tells(listeners') \/ Callback
<1>1. /\ view \in ViewTypes /\ raised \subseteq Reads /\ listeners \subseteq Reads
      /\ tasks \in Seq(TaskTypes) /\ cache \in CacheTypes /\ version \in Versions
      /\ Pending \in BOOLEAN
    BY TypeParts DEF RestTypes, Pending
<1>2. ASSUME UNCHANGED <<view, raised, listeners, mainQueue>>
      PROVE  /\ view' \in ViewTypes /\ raised' \subseteq Reads /\ listeners' \subseteq Reads
             /\ Tells(listeners')
    BY <1>1, <1>2, QuietTells
<1>3. ASSUME NEW v \in ViewTypes, NEW state, Show(v, state), UNCHANGED listeners
      PROVE  /\ view' \in ViewTypes /\ raised' \subseteq Reads /\ listeners' \subseteq Reads
             /\ Tells(listeners')
    <2>1. view' = v /\ raised' \subseteq Reads /\ Tells(listeners)
        BY <1>3, ShowTells
    <2>q. QED BY <1>1, <1>3, <2>1 DEF Tells
<1>4. CASE \/ GetDocument \/ StreamOpens \/ IdleTimeout \/ EnableNetwork \/ RestartNetwork
           \/ OtherWrites \/ AppliesWrite \/ TakesRequest \/ CatchesUp \/ UNCHANGED vars
    <2>1. UNCHANGED <<view, raised, listeners, mainQueue>>
        <3>1. CASE GetDocument
            BY <3>1 DEF GetDocument, viewVars
        <3>2. CASE StreamOpens
            BY <3>2 DEF StreamOpens, viewVars, offlineVars
        <3>3. CASE IdleTimeout
            BY <3>3 DEF IdleTimeout, viewVars, offlineVars
        <3>4. CASE EnableNetwork \/ RestartNetwork
            BY <3>4 DEF EnableNetwork, RestartNetwork, viewVars, offlineVars
        <3>5. CASE OtherWrites \/ AppliesWrite \/ TakesRequest \/ CatchesUp
            BY <3>5 DEF OtherWrites, AppliesWrite, TakesRequest, CatchesUp, viewVars, serverFrame
        <3>6. CASE UNCHANGED vars
            BY <3>6 DEF vars, viewVars
        <3>q. QED BY <1>4, <3>1, <3>2, <3>3, <3>4, <3>5, <3>6
    <2>q. QED BY <1>2, <2>1
<1>5. CASE StreamFails
    <2>1. Show(Seen(view, online'), online') /\ UNCHANGED listeners
        BY <1>5 DEF StreamFails, offlineVars
    <2>2. Seen(view, online') \in ViewTypes
        BY <1>1, ViewMade
    <2>q. QED BY <1>3, <2>1, <2>2
<1>6. CASE OnlineTimeout \/ DisableNetwork
    <2>1. Show(Seen(view, "Offline"), "Offline") /\ UNCHANGED listeners
        BY <1>6 DEF OnlineTimeout, DisableNetwork, offlineVars
    <2>2. Seen(view, "Offline") \in ViewTypes
        BY <1>1, ViewMade
    <2>q. QED BY <1>3, <2>1, <2>2
<1>7. CASE WatchChange
    <2>1. UNCHANGED listeners
        BY <1>7 DEF WatchChange
    <2>2. CASE Head(changes).type = "snapshot"
        <3>1. RaiseSnapshot
            BY <1>7, <2>2 DEF WatchChange
        <3>q. QED BY <1>3, <2>1, <3>1, SnapshotShown
    <2>3. CASE Head(changes).type # "snapshot"
        <3>1. UNCHANGED <<view, raised, mainQueue>>
            BY <1>7, <2>3 DEF WatchChange, Aggregate, viewVars
        <3>q. QED BY <1>2, <2>1, <3>1
    <2>q. QED BY <2>2, <2>3
<1>8. CASE RunTask
    <2>1. tasks # <<>> /\ Head(tasks) \in TaskTypes
        BY <1>1, <1>8 DEF RunTask
    <2> DEFINE r == Head(tasks).read
    <2>2. r \in Reads
        BY <2>1 DEF TaskTypes
    <2>3. CASE Head(tasks).op = "add"
        <3>1. AddListener(r)
            BY <1>8, <2>3 DEF RunTask
        <3> DEFINE doc == Overlaid(cache, Pending)
                   fresh == [open |-> TRUE, current |-> FALSE, since |-> version, doc |-> doc]
                   v == IF view.open THEN view ELSE fresh
        <3> HIDE DEF r
        <3>2. v \in ViewTypes
            <4>1. doc \in Documents
                BY <1>1, DocumentMade DEF CacheTypes
            <4> HIDE DEF doc
            <4>2. fresh \in ViewTypes
                BY <1>1, <4>1 DEF ViewTypes
            <4>q. QED BY <1>1, <4>2
        <3>3. /\ listeners' = listeners \cup {r} /\ view' = v
              /\ IF ShouldRaise(v, online)
                 THEN raised' = raised \cup {r} /\ mainQueue' = Append(mainQueue, Event(r, v))
                 ELSE UNCHANGED <<raised, mainQueue>>
            BY <3>1 DEF AddListener
        <3> HIDE DEF v
        <3>4. raised' \subseteq Reads /\ listeners' \subseteq Reads
            BY <1>1, <2>2, <3>3
        <3>5. Tells({r}) \/ Tells(listeners')
            BY <2>2, <3>2, <3>3, OneTells, QuietTells
        <3>6. Tells(listeners')
            BY <3>3, <3>5 DEF Tells
        <3>q. QED BY <3>2, <3>3, <3>4, <3>6
    <2>4. CASE Head(tasks).op # "add"
        <3>1. RemoveListener(r)
            BY <1>8, <2>4 DEF RunTask
        <3>2. /\ listeners' \subseteq listeners /\ UNCHANGED <<raised, mainQueue>>
              /\ view' = NoView \/ view' = view
            BY <3>1 DEF RemoveListener
        <3>q. QED BY <1>1, <3>2, NothingTypes, QuietTells
    <2>q. QED BY <2>3, <2>4
<1>9. CASE Write
    <2>1. Show(Updated(view, Overlaid(cache, TRUE)), online) /\ UNCHANGED listeners
        BY <1>9 DEF Write
    <2>2. Overlaid(cache, TRUE) \in Documents
        BY <1>1, DocumentMade DEF CacheTypes
    <2>3. Updated(view, Overlaid(cache, TRUE)) \in ViewTypes
        BY <1>1, <2>2, ViewMade
    <2>q. QED BY <1>3, <2>1, <2>3
<1>10. CASE Acknowledged
    <2>1. Show(Updated(view, Overlaid(cache', acked' < Len(writes))), online)
          /\ UNCHANGED listeners
        BY <1>10 DEF Acknowledged
    <2>2. cache' \in CacheTypes /\ (acked' < Len(writes)) \in BOOLEAN
        BY <1>10, CommittedCache
    <2>3. Overlaid(cache', acked' < Len(writes)) \in Documents
        BY <2>2, DocumentMade DEF CacheTypes
    <2>4. Updated(view, Overlaid(cache', acked' < Len(writes))) \in ViewTypes
        BY <1>1, <2>3, ViewMade
    <2>q. QED BY <1>3, <2>1, <2>4
<1>11. CASE Callback
    <2>1. UNCHANGED <<view, raised, listeners>>
        BY <1>11 DEF Callback
    <2>q. QED BY <1>1, <1>11, <2>1
<1>q. QED BY <1>4, <1>5, <1>6, <1>7, <1>8, <1>9, <1>10, <1>11 DEF Next

LEMMA RestStep ==
    ASSUME TypeOK, [Next]_vars
    PROVE  RestTypes'
<1>1. /\ tasks \in Seq(TaskTypes) /\ muted \subseteq Reads /\ cache \in CacheTypes
      /\ view \in ViewTypes /\ raised \subseteq Reads /\ listeners \subseteq Reads
      /\ mainQueue \in Seq(EventTypes)
      /\ writes \in Seq(Versions) /\ acked \in 0..Len(writes) /\ Len(writes) \in Nat
      /\ version \in Versions /\ newest \in Versions /\ update \in Versions
      /\ asOf \in Versions /\ metadata \in FlagTypes
      /\ called \in 0..MaxReads /\ breaks \in 0..MaxBreaks
      /\ wrote \in [Reads -> Nat] /\ answers \in [Reads -> Nat]
    BY TypeParts DEF RestTypes, StoreTypes
<1>2. MaxVersion \in Nat /\ MaxBreaks \in Nat /\ MaxReads \in Nat /\ 0 \in Versions
    BY BoundsAssumption, NothingTypes
<1> DEFINE Shown == /\ view' \in ViewTypes /\ raised' \subseteq Reads /\ listeners' \subseteq Reads
                    /\ mainQueue' \in Seq(EventTypes)
           Quiet == /\ UNCHANGED <<tasks, muted, cache, acked, version, writes, called, wrote,
                                   answerVars, asOf>>
                    /\ breaks' \in 0..MaxBreaks
<1>3. ~Callback => Shown
    BY ViewStep DEF Tells
<1>4. Shown /\ Quiet => RestTypes'
    BY <1>1 DEF RestTypes
<1>5. MayBreak => breaks' \in 0..MaxBreaks
    BY <1>1, <1>2 DEF MayBreak
<1> HIDE DEF Quiet
<1>6. CASE GetDocument
    <2>1. /\ called' = called + 1 /\ called < MaxReads
          /\ wrote' = [wrote EXCEPT ![called'] = Len(writes)]
          /\ asOf' \in {asOf, version}
          /\ tasks' = Append(tasks, [op |-> "add", read |-> called'])
          /\ UNCHANGED <<muted, cache, acked, version, writes, answerVars, breaks,
                         view, raised, listeners, mainQueue>>
        BY <1>6 DEF GetDocument, viewVars
    <2>2. called' \in 0..MaxReads /\ called' \in Reads
        BY <1>1, <1>2, <2>1 DEF Reads
    <2>3. [op |-> "add", read |-> called'] \in TaskTypes
        BY <2>2 DEF TaskTypes
    <2>4. tasks' \in Seq(TaskTypes)
        BY <1>1, <2>1, <2>3
    <2>5. wrote' \in [Reads -> Nat]
        BY <1>1, <2>1, <2>2
    <2>q. QED BY <1>1, <2>1, <2>2, <2>4, <2>5 DEF RestTypes
<1>7. CASE RunTask
    <2>1. /\ tasks # <<>> /\ tasks' = Tail(tasks)
          /\ UNCHANGED <<cache, acked, muted, version, writes, called, wrote, answerVars, asOf,
                         breaks>>
        BY <1>7 DEF RunTask, historyVars
    <2>2. tasks' \in Seq(TaskTypes)
        BY <1>1, <2>1
    <2>3. Shown
        <3>1. CASE Callback
            BY <1>1, <1>7, <3>1 DEF RunTask, Callback, AddListener, RemoveListener
        <3>q. QED BY <1>3, <3>1
    <2>q. QED BY <1>1, <2>1, <2>2, <2>3 DEF RestTypes
<1>8. CASE Callback
    <2>1. /\ mainQueue # <<>> /\ mainQueue' = Tail(mainQueue)
          /\ UNCHANGED <<listeners, view, raised, cache, acked, version, writes, called, wrote,
                         asOf, breaks>>
        BY <1>8 DEF Callback
    <2>2. mainQueue' \in Seq(EventTypes) /\ Head(mainQueue) \in EventTypes
        BY <1>1, <2>1
    <2> DEFINE event == Head(mainQueue)
               r == event.read
               task == [op |-> "remove", read |-> r]
    <2>3. /\ r \in Reads /\ event.doc.version \in Versions
          /\ [hasPendingWrites |-> event.doc.kind = "local",
              isFromCache |-> event.fromCache] \in FlagTypes
        BY <2>2 DEF EventTypes, Documents, FlagTypes
    <2>4. task \in TaskTypes
        BY <2>3 DEF TaskTypes
    <2>5. \/ UNCHANGED <<tasks, muted, answerVars>>
          \/ /\ muted' = muted \cup {r} /\ tasks' = Append(tasks, task)
             /\ answers' = [answers EXCEPT ![r] = @ + 1] /\ newest' = event.doc.version
             /\ metadata' = [hasPendingWrites |-> event.doc.kind = "local",
                            isFromCache |-> event.fromCache]
        BY <1>8 DEF Callback, Muted
    <2> HIDE DEF event, r, task
    <2>6. /\ tasks' \in Seq(TaskTypes) /\ muted' \subseteq Reads /\ newest' \in Versions
          /\ metadata' \in FlagTypes
        <3>1. tasks' \in Seq(TaskTypes)
            <4>1. tasks' = tasks \/ tasks' = Append(tasks, task)
                BY <2>5
            <4>2. tasks \in Seq(TaskTypes)
                BY <1>1
            <4>3. Append(tasks, task) \in Seq(TaskTypes)
                BY <2>4, <4>2
            <4>q. QED BY <4>1, <4>2, <4>3
        <3>2. muted' \subseteq Reads
            BY <1>1, <2>3, <2>5
        <3>3. newest' \in Versions
            BY <1>1, <2>3, <2>5
        <3>4. metadata' \in FlagTypes
            BY <1>1, <2>3, <2>5
        <3>q. QED BY <3>1, <3>2, <3>3, <3>4
    <2>7. answers' \in [Reads -> Nat]
        <3>1. answers' = answers \/ answers' = [answers EXCEPT ![r] = @ + 1]
            BY <2>5
        <3>2. r \in Reads /\ answers \in [Reads -> Nat]
            BY <1>1, <2>3
        <3>q. QED BY <3>1, <3>2
    <2>q. QED BY <1>1, <2>1, <2>2, <2>6, <2>7 DEF RestTypes
<1>9. CASE Write
    <2>1. /\ writes' = Append(writes, 0)
          /\ UNCHANGED <<tasks, muted, cache, acked, version, called, wrote, answerVars, asOf,
                         breaks>>
        BY <1>9 DEF Write, historyVars
    <2>2. writes' \in Seq(Versions) /\ Len(writes') = Len(writes) + 1
        BY <1>1, <1>2, <2>1
    <2>3. acked' \in 0..Len(writes')
        BY <1>1, <2>1, <2>2
    <2>4. Shown
        <3>1. CASE Callback
            BY <1>1, <2>1, <2>2, <3>1 DEF Callback
        <3>q. QED BY <1>3, <3>1
    <2>q. QED BY <1>1, <2>1, <2>2, <2>3, <2>4 DEF RestTypes
<1>10. CASE Acknowledged
    <2>1. /\ cache' \in CacheTypes /\ acked' \in 1..Len(writes) /\ UNCHANGED writes
          /\ acked' = acked + 1
        BY <1>10, CommittedCache
    <2>2. UNCHANGED <<tasks, muted, version, called, wrote, answerVars, asOf, breaks>>
        BY <1>10 DEF Acknowledged, historyVars
    <2>3. Shown
        <3>1. CASE Callback
            BY <1>1, <2>1, <3>1 DEF Callback
        <3>q. QED BY <1>3, <3>1
    <2>4. acked' \in 0..Len(writes')
        BY <1>1, <2>1
    <2>q. QED BY <1>1, <2>1, <2>2, <2>3, <2>4 DEF RestTypes
<1>11. CASE WatchChange
    <2>1. /\ UNCHANGED <<tasks, muted, acked, version, writes, called, wrote, answerVars, asOf,
                         breaks>>
          /\ RaiseSnapshot \/ UNCHANGED <<cache, mainQueue>>
        BY <1>11 DEF WatchChange, Aggregate, historyVars, viewVars
    <2>2. cache' \in CacheTypes
        BY <1>1, <2>1, WatchedCache
    <2>3. Shown
        <3>1. CASE Callback
            BY <1>1, <1>11, <3>1 DEF Callback
        <3>q. QED BY <1>3, <3>1
    <2>q. QED BY <1>1, <2>1, <2>2, <2>3 DEF RestTypes
<1>12. CASE OtherWrites
    <2>1. /\ version < MaxVersion /\ version' = version + 1
          /\ UNCHANGED <<tasks, muted, cache, acked, writes, called, wrote, answerVars, asOf,
                         breaks, view, raised, listeners, mainQueue>>
        BY <1>12 DEF OtherWrites, serverFrame, historyVars, viewVars
    <2>2. version' \in Versions
        BY <1>1, <1>2, <2>1 DEF Versions
    <2>q. QED BY <1>1, <2>1, <2>2 DEF RestTypes
<1>13. CASE AppliesWrite
    <2>1. /\ version < MaxVersion /\ version' = version + 1
          /\ \E i \in DOMAIN writes : writes' = [writes EXCEPT ![i] = version + 1]
          /\ UNCHANGED <<tasks, muted, cache, acked, called, wrote, answerVars, asOf,
                         breaks, view, raised, listeners, mainQueue>>
        BY <1>13 DEF AppliesWrite, serverFrame, historyVars, viewVars
    <2>2. version + 1 \in Versions
        BY <1>1, <1>2, <2>1 DEF Versions
    <2>3. writes' \in Seq(Versions) /\ Len(writes') = Len(writes)
        BY <1>1, <2>1, <2>2
    <2>q. QED BY <1>1, <2>1, <2>2, <2>3 DEF RestTypes
<1>14. CASE \/ StreamOpens \/ StreamFails \/ IdleTimeout \/ OnlineTimeout \/ DisableNetwork
            \/ EnableNetwork \/ RestartNetwork \/ TakesRequest \/ CatchesUp \/ UNCHANGED vars
    <2>1. Quiet
        <3> USE DEF Quiet
        <3>1. CASE StreamOpens \/ IdleTimeout \/ OnlineTimeout \/ EnableNetwork
            BY <1>1, <3>1 DEF StreamOpens, IdleTimeout, OnlineTimeout, EnableNetwork, offlineVars
        <3>2. CASE StreamFails \/ DisableNetwork \/ RestartNetwork
            BY <1>5, <3>2 DEF StreamFails, DisableNetwork, RestartNetwork, offlineVars
        <3>3. CASE TakesRequest \/ CatchesUp
            BY <1>1, <3>3 DEF TakesRequest, CatchesUp, serverFrame, historyVars
        <3>4. CASE UNCHANGED vars
            BY <1>1, <3>4 DEF vars, historyVars
        <3>q. QED BY <1>14, <3>1, <3>2, <3>3, <3>4
    <2>2. CASE Callback
        BY <1>8, <2>2
    <2>q. QED BY <1>3, <1>4, <2>1, <2>2
<1>q. QED BY <1>6, <1>7, <1>8, <1>9, <1>10, <1>11, <1>12, <1>13, <1>14 DEF Next

LEMMA RestInit == Init => RestTypes
<1> SUFFICES ASSUME Init PROVE RestTypes
    OBVIOUS
<1>1. /\ MaxReads \in Nat /\ MaxBreaks \in Nat /\ 0 \in Versions /\ view \in ViewTypes
      /\ cache \in CacheTypes
    BY BoundsAssumption, NothingTypes DEF Init, CacheTypes
<1>2. tasks \in Seq(TaskTypes) /\ mainQueue \in Seq(EventTypes) /\ writes \in Seq(Versions)
      /\ acked \in 0..Len(writes)
    BY DEF Init
<1>3. wrote \in [Reads -> Nat] /\ answers \in [Reads -> Nat] /\ metadata \in FlagTypes
    BY DEF Init, FlagTypes
<1>q. QED BY <1>1, <1>2, <1>3 DEF Init, RestTypes

(* ----------------------- the types and the tracker ---------------------- *)

LEMMA Stored == Spec => [](TypeOK /\ Store)
<1>1. Init => TypeOK /\ Store
    BY StoreInit, RestInit, TypeParts DEF Store
<1>2. TypeOK /\ Store /\ [Next]_vars => TypeOK' /\ Store'
    <2>1. ASSUME TypeOK, Store, [Next]_vars PROVE TypeOK' /\ Store'
        <3>1. Store' /\ RestTypes'
            BY <2>1, StoreStep, RestStep
        <3>2. TypeOK' <=> StoreTypes' /\ RestTypes'
            BY DEF TypeOK, StoreTypes, RestTypes, TaskTypes, CacheTypes, FlagTypes, ViewTypes, EventTypes,
                   TargetTypes, ServingTypes, ChangeTypes
        <3>q. QED BY <3>1, <3>2 DEF Store
    <2>q. QED BY <2>1
<1>q. QED BY <1>1, <1>2, PTL DEF Spec

\* Every variable keeps its type, whatever the bounds: the queues, the wire and
\* the view of the read path hold what their handlers expect.
THEOREM ReadPathTypes == Spec => []TypeOK
<1>1. TypeOK /\ Store => TypeOK
    OBVIOUS
<1>q. QED BY Stored, <1>1, PTL

\* The assertions of OnlineStateTracker hold, whatever closes, starts, answers
\* or fails on the watch stream.
THEOREM TrackerNeverAsserts == Spec => []TrackerAssertions
<1>1. TypeOK /\ Store => TrackerAssertions
    BY DEF Store
<1>q. QED BY Stored, <1>1, PTL

(* ------------------------- one answer for a read ------------------------ *)

\* Only the two queues and the calls move reads along.
LEMMA QueuesRun ==
    ASSUME [Next]_vars
    PROVE  /\ Callback \/ UNCHANGED <<muted, answerVars>>
           /\ GetDocument \/ RunTask \/ UNCHANGED listeners
           /\ GetDocument \/ RunTask \/ Callback \/ UNCHANGED <<tasks, listeners>>
           /\ GetDocument \/ UNCHANGED <<called, wrote, asOf>>
<1>1. CASE GetDocument
    BY <1>1 DEF GetDocument
<1>2. CASE RunTask
    BY <1>2 DEF RunTask, historyVars
<1>3. CASE Callback
    BY <1>3 DEF Callback
<1>4. CASE Write \/ Acknowledged \/ WatchChange
    BY <1>4 DEF Write, Acknowledged, WatchChange, historyVars
<1>5. CASE StreamOpens \/ StreamFails \/ IdleTimeout \/ OnlineTimeout
    BY <1>5 DEF StreamOpens, StreamFails, IdleTimeout, OnlineTimeout, offlineVars
<1>6. CASE DisableNetwork \/ EnableNetwork \/ RestartNetwork
    BY <1>6 DEF DisableNetwork, EnableNetwork, RestartNetwork, offlineVars
<1>7. CASE OtherWrites \/ AppliesWrite \/ TakesRequest \/ CatchesUp
    BY <1>7 DEF OtherWrites, AppliesWrite, TakesRequest, CatchesUp, serverFrame, historyVars
<1>8. CASE UNCHANGED vars
    BY <1>8 DEF vars, historyVars
<1>q. QED BY <1>1, <1>2, <1>3, <1>4, <1>5, <1>6, <1>7, <1>8 DEF Next

\* A read that has had its callback is muted.
Once == \A r \in Reads : answers[r] <= 1 /\ (r \in muted \/ answers[r] = 0)

LEMMA OnceStep ==
    ASSUME TypeOK, Once, [Next]_vars
    PROVE  Once'
<1>1. CASE Callback
    <2>1. mainQueue # <<>> /\ mainQueue \in Seq(EventTypes) /\ answers \in [Reads -> Nat]
        BY <1>1, TypeParts DEF Callback, RestTypes
    <2> DEFINE r == Head(mainQueue).read
    <2>2. r \in Reads
        <3>1. Head(mainQueue) \in EventTypes
            BY <2>1
        <3>q. QED BY <3>1 DEF EventTypes
    <2>3. \/ UNCHANGED <<muted, answers>>
          \/ /\ r \notin muted /\ muted' = muted \cup {r}
             /\ answers' = [answers EXCEPT ![r] = @ + 1]
        BY <1>1 DEF Callback, Muted
    <2> HIDE DEF r
    <2>4. CASE UNCHANGED <<muted, answers>>
        BY <2>4 DEF Once
    <2>5. CASE /\ r \notin muted /\ muted' = muted \cup {r}
               /\ answers' = [answers EXCEPT ![r] = @ + 1]
        <3>1. answers[r] = 0
            BY <2>2, <2>5 DEF Once
        <3>2. \A q \in Reads : answers'[q] = IF q = r THEN 1 ELSE answers[q]
            BY <2>1, <2>5, <3>1
        <3>q. QED BY <2>5, <3>2 DEF Once
    <2>q. QED BY <2>3, <2>4, <2>5
<1>2. ASSUME UNCHANGED <<muted, answers>> PROVE Once'
    BY <1>2 DEF Once
<1>3. CASE ~Callback
    BY <1>2, <1>3, QueuesRun
<1>q. QED BY <1>1, <1>3

\* A getDocument calls its completion once: what the main queue still holds
\* for a listener that had an event finds it muted.
THEOREM OneAnswer == Spec => []AnsweredOnce
<1>1. Init => Once
    <2>1. Init => \A r \in Reads : answers[r] = 0
        BY DEF Init
    <2>q. QED BY <2>1 DEF Once
<1>2. TypeOK /\ Once /\ [Next]_vars => Once'
    BY OnceStep
<1>3. Once => AnsweredOnce
    BY DEF Once, AnsweredOnce
<1>q. QED BY ReadPathTypes, <1>1, <1>2, <1>3, PTL DEF Spec

(* ----------------- how the view follows cache and writes ---------------- *)

\* There is a view as long as somebody listens.
Lists == view.open <=> listeners # {}

\* The document of a view: it stays as it was, or is made from the cache and
\* the writes under way, or is kept as an own write that was acknowledged.
DocumentFollows ==
    view'.open =>
        \/ view.open /\ view'.doc = view.doc /\ UNCHANGED cache /\ (Pending' <=> Pending)
        \/ /\ view'.doc = Overlaid(cache', Pending')
           /\ view.open => ~Kept(view.doc, view'.doc)
        \/ view.open /\ view'.doc = view.doc /\ view.doc.kind = "local"

LEMMA UpdatedFollows ==
    ASSUME NEW v, v.open = view.open, v.doc = view.doc, NEW new, v \in ViewTypes,
           view' = Updated(v, new), new = Overlaid(cache', Pending')
    PROVE  view'.open = view.open /\ DocumentFollows
<1>1. CASE ~v.open
    BY <1>1 DEF Updated, DocumentFollows
<1>2. CASE v.open /\ Kept(v.doc, new)
    BY <1>2 DEF Updated, DocumentFollows, Kept
<1>3. CASE v.open /\ ~Kept(v.doc, new)
    <2>1. view' = [v EXCEPT !.doc = new]
        BY <1>3 DEF Updated
    <2>2. view'.open = v.open /\ view'.doc = new
        BY <2>1 DEF ViewTypes
    <2>q. QED BY <1>3, <2>2 DEF DocumentFollows
<1>q. QED BY <1>1, <1>2, <1>3

LEMMA DocumentStep ==
    ASSUME TypeOK, Lists, [Next]_vars
    PROVE  /\ Lists' /\ DocumentFollows
           /\ cache' \in CacheTypes /\ cache'.version >= cache.version
<1>1. /\ view \in ViewTypes /\ cache \in CacheTypes /\ cache.version \in Nat
      /\ cache.version >= cache.version
      /\ listeners \subseteq Reads /\ tasks \in Seq(TaskTypes)
      /\ acked \in Nat /\ Len(writes) \in Nat /\ acked <= Len(writes)
      /\ writes \in Seq(Versions)
    BY TypeParts DEF RestTypes, CacheTypes, Versions
<1> DEFINE Goal == /\ Lists' /\ DocumentFollows
                   /\ cache' \in CacheTypes /\ cache'.version >= cache.version
<1>2. ASSUME view'.open = view.open, view'.doc = view.doc, UNCHANGED <<listeners, cache, acked>>,
             Len(writes') = Len(writes)
      PROVE  Goal
    <2>1. Pending' <=> Pending
        BY <1>2 DEF Pending
    <2>q. QED BY <1>1, <1>2, <2>1 DEF Lists, DocumentFollows
<1>3. CASE \/ GetDocument \/ StreamOpens \/ IdleTimeout \/ EnableNetwork \/ RestartNetwork
           \/ OtherWrites \/ TakesRequest \/ CatchesUp \/ Callback \/ UNCHANGED vars
    <2>1. UNCHANGED <<view, listeners, cache, acked, writes>>
        <3>1. CASE GetDocument \/ Callback
            BY <3>1 DEF GetDocument, Callback, viewVars
        <3>2. CASE StreamOpens \/ IdleTimeout
            BY <3>2 DEF StreamOpens, IdleTimeout, viewVars, offlineVars
        <3>3. CASE EnableNetwork \/ RestartNetwork
            BY <3>3 DEF EnableNetwork, RestartNetwork, viewVars, offlineVars
        <3>4. CASE OtherWrites \/ TakesRequest \/ CatchesUp
            BY <3>4 DEF OtherWrites, TakesRequest, CatchesUp, viewVars, serverFrame
        <3>5. CASE UNCHANGED vars
            BY <3>5 DEF vars, viewVars
        <3>q. QED BY <1>3, <3>1, <3>2, <3>3, <3>4, <3>5
    <2>q. QED BY <1>2, <2>1
<1>4. CASE AppliesWrite
    <2>1. /\ UNCHANGED <<view, listeners, cache, acked>>
          /\ \E i \in DOMAIN writes : writes' = [writes EXCEPT ![i] = version + 1]
        BY <1>4 DEF AppliesWrite, viewVars, serverFrame
    <2>2. Len(writes') = Len(writes)
        BY <1>1, <2>1
    <2>q. QED BY <1>2, <2>1, <2>2
<1>5. CASE StreamFails
    <2>1. view' = Seen(view, online') /\ UNCHANGED <<listeners, cache, acked, writes>>
        BY <1>5 DEF StreamFails, Show, offlineVars
    <2>q. QED BY <1>1, <1>2, <2>1, ViewMade
<1>6. CASE OnlineTimeout \/ DisableNetwork
    <2>1. view' = Seen(view, "Offline") /\ UNCHANGED <<listeners, cache, acked, writes>>
        BY <1>6 DEF OnlineTimeout, DisableNetwork, Show, offlineVars
    <2>q. QED BY <1>1, <1>2, <2>1, ViewMade
<1>7. CASE WatchChange
    <2>1. UNCHANGED <<listeners, acked, writes>>
        BY <1>7 DEF WatchChange
    <2>2. CASE Head(changes).type # "snapshot"
        <3>1. UNCHANGED <<view, cache>>
            BY <1>7, <2>2 DEF WatchChange, Aggregate, viewVars
        <3>q. QED BY <1>2, <2>1, <3>1
    <2>3. CASE Head(changes).type = "snapshot"
        <3>1. RaiseSnapshot
            BY <1>7, <2>3 DEF WatchChange
        <3>2. /\ cache' \in CacheTypes /\ cache'.version >= cache.version
              /\ ~(update > 0 /\ Newer(cache, update)) => UNCHANGED cache
            BY <3>1, WatchedCache
        <3> DEFINE v == IF (Active /\ target.changed) /\ view.open
                        THEN [view EXCEPT !.current = target.current] ELSE view
        <3>3. target.current \in BOOLEAN
            BY TypeParts DEF StoreTypes, TargetTypes
        <3>4. v \in ViewTypes /\ v.open = view.open /\ v.doc = view.doc
            BY <1>1, <3>3 DEF ViewTypes
        <3>5. view' = IF update > 0 /\ Newer(cache, update)
                      THEN Updated(v, Overlaid(cache', Pending)) ELSE v
            BY <3>1 DEF RaiseSnapshot, Show
        <3> HIDE DEF v
        <3>6. Pending' <=> Pending
            BY <2>1 DEF Pending
        <3>7. view'.open = view.open /\ DocumentFollows
            <4>1. CASE update > 0 /\ Newer(cache, update)
                <5>1. Pending' = Pending
                    BY <2>1 DEF Pending
                <5>2. view' = Updated(v, Overlaid(cache', Pending'))
                    BY <3>5, <4>1, <5>1
                <5>q. QED BY <3>4, <5>2, UpdatedFollows
            <4>2. CASE ~(update > 0 /\ Newer(cache, update))
                BY <3>2, <3>4, <3>5, <3>6, <4>2 DEF DocumentFollows
            <4>q. QED BY <4>1, <4>2
        <3>q. QED BY <2>1, <3>2, <3>7 DEF Lists
    <2>q. QED BY <2>2, <2>3
<1>8. CASE RunTask
    <2>1. UNCHANGED <<cache, acked, writes>>
        BY <1>8 DEF RunTask
    <2>2. Pending' = Pending
        BY <2>1 DEF Pending
    <2> DEFINE r == Head(tasks).read
    <2>3. CASE Head(tasks).op = "add"
        <3> DEFINE doc == Overlaid(cache, Pending)
                   fresh == [open |-> TRUE, current |-> FALSE, since |-> version, doc |-> doc]
        <3>1. listeners' = listeners \cup {r} /\ view' = IF view.open THEN view ELSE fresh
            BY <1>8, <2>3 DEF RunTask, AddListener
        <3>2. fresh.open /\ fresh.doc = doc
            OBVIOUS
        <3>3. Overlaid(cache', Pending') = doc
            BY <2>1, <2>2
        <3> HIDE DEF fresh, doc, r
        <3>4. view'.open /\ DocumentFollows
            BY <2>1, <2>2, <3>1, <3>2, <3>3 DEF DocumentFollows
        <3>5. listeners' # {}
            BY <3>1
        <3>q. QED BY <1>1, <2>1, <3>4, <3>5 DEF Lists
    <2>4. CASE Head(tasks).op # "add"
        <3>1. /\ listeners' = listeners \ {r}
              /\ IF listeners' = {} THEN view' = NoView ELSE view' = view
            BY <1>8, <2>4 DEF RunTask, RemoveListener
        <3>2. ~NoView.open
            BY DEF NoView
        <3> HIDE DEF r
        <3>3. DocumentFollows
            BY <2>1, <2>2, <3>1, <3>2 DEF DocumentFollows
        <3>4. Lists'
            BY <3>1, <3>2 DEF Lists
        <3>q. QED BY <1>1, <2>1, <3>3, <3>4
    <2>q. QED BY <2>3, <2>4
<1>9. CASE Write
    <2>1. /\ view' = Updated(view, Overlaid(cache, TRUE)) /\ writes' = Append(writes, 0)
          /\ UNCHANGED <<listeners, cache, acked>>
        BY <1>9 DEF Write, Show
    <2>2. Pending' = TRUE
        <3>1. Len(writes') = Len(writes) + 1
            BY <1>1, <2>1
        <3>q. QED BY <1>1, <2>1, <3>1 DEF Pending
    <2>3. view'.open = view.open /\ DocumentFollows
        <3>1. Overlaid(cache, TRUE) = Overlaid(cache', Pending')
            BY <2>1, <2>2
        <3>q. QED BY <1>1, <2>1, <3>1, UpdatedFollows
    <2>q. QED BY <1>1, <2>1, <2>3 DEF Lists
<1>10. CASE Acknowledged
    <2>1. /\ view' = Updated(view, Overlaid(cache', acked' < Len(writes)))
          /\ UNCHANGED <<listeners, writes>>
        BY <1>10 DEF Acknowledged, Show
    <2>2. cache' \in CacheTypes /\ cache'.version >= cache.version
        BY <1>10, CommittedCache
    <2>3. view'.open = view.open /\ DocumentFollows
        <3>1. Overlaid(cache', acked' < Len(writes)) = Overlaid(cache', Pending')
            BY <2>1 DEF Pending
        <3>q. QED BY <1>1, <2>1, <3>1, UpdatedFollows
    <2>q. QED BY <2>1, <2>2, <2>3 DEF Lists
<1>q. QED BY <1>3, <1>4, <1>5, <1>6, <1>7, <1>8, <1>9, <1>10 DEF Next

(* ----------------------- versions never go back ------------------------- *)

\* What a read that is told now, or the next one, gets at least.
Latest == IF view.open THEN view.doc.version ELSE cache.version

Lags == view.open => view.doc.version <= cache.version

Ordered ==
    /\ Lags /\ newest <= Latest
    /\ \A i \in 1..Len(mainQueue) : mainQueue[i].doc.version <= Latest
    /\ VersionsNeverGoBack

LEMMA Numbers ==
    ASSUME TypeOK
    PROVE  /\ cache.version \in Int /\ view.doc.version \in Int /\ newest \in Int /\ Latest \in Int
           /\ mainQueue \in Seq(EventTypes) /\ Len(mainQueue) \in Nat
           /\ \A i \in 1..Len(mainQueue) : mainQueue[i].doc.version \in Int
           /\ acked \in Nat /\ Len(writes) \in Nat /\ acked <= Len(writes)
           /\ writes \in Seq(Versions) /\ \A w \in 1..Len(writes) : writes[w] \in Int
           /\ called \in Int
           /\ listeners \subseteq Reads /\ tasks \in Seq(TaskTypes) /\ Len(tasks) \in Nat
<1>1. /\ cache.version \in Versions /\ view.doc.version \in Versions /\ newest \in Versions
      /\ mainQueue \in Seq(EventTypes) /\ writes \in Seq(Versions) /\ acked \in 0..Len(writes)
      /\ called \in 0..MaxReads /\ listeners \subseteq Reads /\ tasks \in Seq(TaskTypes)
    BY TypeParts DEF RestTypes, CacheTypes, ViewTypes, Documents
<1>2. \A n \in Versions : n \in Int
    BY DEF Versions
<1>3. /\ Len(mainQueue) \in Nat /\ Len(writes) \in Nat /\ Len(tasks) \in Nat
    BY <1>1
<1>4. \A i \in 1..Len(mainQueue) : mainQueue[i].doc.version \in Int
    <2>1. \A e \in EventTypes : e.doc.version \in Int
        BY <1>2 DEF EventTypes, Documents
    <2>2. \A i \in 1..Len(mainQueue) : mainQueue[i] \in EventTypes
        BY <1>1
    <2>q. QED BY <2>1, <2>2
<1>5. \A w \in 1..Len(writes) : writes[w] \in Int
    BY <1>1, <1>2
<1>6. acked \in Nat /\ acked <= Len(writes) /\ called \in Int
    BY <1>1, <1>3
<1>q. QED BY <1>1, <1>2, <1>3, <1>4, <1>5, <1>6 DEF Latest

\* What is shown, or would be, only becomes newer.
LEMMA LatestGrows ==
    ASSUME TypeOK, TypeOK', Lists, Lags, [Next]_vars
    PROVE  Lags' /\ Latest' >= Latest
<1>1. /\ DocumentFollows /\ cache' \in CacheTypes /\ cache'.version >= cache.version
    BY DocumentStep
<1>2. /\ cache.version \in Int /\ view.doc.version \in Int /\ Latest \in Int
      /\ cache'.version \in Int /\ view'.doc.version \in Int /\ Latest' \in Int
    <2>1. cache'.version \in Versions /\ view'.doc.version \in Versions
        BY DEF TypeOK, Documents
    <2>q. QED BY <2>1, Numbers DEF Versions, Latest
<1>3. Overlaid(cache', Pending').version = cache'.version
    <2>1. Pending' \in BOOLEAN
        BY DEF Pending
    <2>q. QED BY <1>1, <2>1, DocumentMade DEF CacheTypes
<1>4. CASE ~view'.open
    BY <1>1, <1>2, <1>4 DEF Lags, Latest
<1>5. CASE view'.open
    <2>1. \/ view.open /\ view'.doc.version = view.doc.version
          \/ view'.doc.version = cache'.version
        BY <1>1, <1>3, <1>5 DEF DocumentFollows
    <2>q. QED BY <1>1, <1>2, <1>5, <2>1 DEF Lags, Latest
<1>q. QED BY <1>4, <1>5

LEMMA OrderedStep ==
    ASSUME TypeOK, TypeOK', Lists, Ordered, [Next]_vars
    PROVE  Ordered'
<1>1. Lags' /\ Latest' >= Latest
    BY LatestGrows DEF Ordered
<1>2. /\ Latest \in Int /\ newest \in Int /\ mainQueue \in Seq(EventTypes)
      /\ \A i \in 1..Len(mainQueue) : mainQueue[i].doc.version \in Int
    BY Numbers
<1>3. /\ Latest' \in Int /\ newest' \in Int /\ mainQueue' \in Seq(EventTypes)
    <2>1. /\ cache'.version \in Versions /\ view'.doc.version \in Versions
          /\ newest' \in Versions /\ mainQueue' \in Seq(EventTypes)
        BY DEF TypeOK, Documents, EventTypes
    <2>q. QED BY <2>1 DEF Versions, Latest
<1>4. /\ newest <= Latest
      /\ \A i \in 1..Len(mainQueue) : mainQueue[i].doc.version <= Latest
      /\ \A i \in 1..Len(mainQueue) : mainQueue[i].doc.version >= newest
      /\ \A i, j \in 1..Len(mainQueue) :
            j < i => mainQueue[j].doc.version <= mainQueue[i].doc.version
    <2>1. \A i, j \in 1..Len(mainQueue) : j < i => j \in 1..(i - 1)
        OBVIOUS
    <2>2. DOMAIN mainQueue = 1..Len(mainQueue)
        BY <1>2
    <2>q. QED BY <2>1, <2>2 DEF Ordered, VersionsNeverGoBack
<1>5. SUFFICES
        /\ newest' <= Latest'
        /\ \A i \in 1..Len(mainQueue') : mainQueue'[i].doc.version <= Latest'
        /\ \A i \in 1..Len(mainQueue') : mainQueue'[i].doc.version >= newest'
        /\ \A i, j \in 1..Len(mainQueue') :
              j < i => mainQueue'[j].doc.version <= mainQueue'[i].doc.version
    <2>1. DOMAIN mainQueue' = 1..Len(mainQueue') /\ Len(mainQueue') \in Nat
        BY <1>3
    <2>2. \A i \in 1..Len(mainQueue') : \A j \in 1..(i - 1) : j \in 1..Len(mainQueue') /\ j < i
        BY <2>1
    <2>q. QED BY <1>1, <2>1, <2>2 DEF Ordered, VersionsNeverGoBack
<1>6. CASE Callback
    <2>1. /\ mainQueue # <<>> /\ mainQueue' = Tail(mainQueue) /\ UNCHANGED <<view, cache>>
          /\ newest' = newest \/ newest' = Head(mainQueue).doc.version
        BY <1>6 DEF Callback
    <2>2. Latest' = Latest
        BY <2>1 DEF Latest
    <2>3. /\ Len(mainQueue) \in Nat /\ Len(mainQueue) >= 1
          /\ Len(mainQueue') = Len(mainQueue) - 1
          /\ \A i \in 1..Len(mainQueue') : mainQueue'[i] = mainQueue[i + 1]
                                           /\ i + 1 \in 1..Len(mainQueue)
          /\ Head(mainQueue) = mainQueue[1]
        BY <1>2, <2>1
    <2>4. \A i, j \in 1..Len(mainQueue') : j < i => j + 1 < i + 1
        BY <2>3
    <2>5. newest' = newest \/ newest' = mainQueue[1].doc.version
        BY <2>1, <2>3
    <2>6. \A i \in 1..Len(mainQueue') : mainQueue'[i].doc.version >= newest'
        <3>1. \A i \in 1..Len(mainQueue') : 1 \in 1..Len(mainQueue) /\ 1 < i + 1
            BY <2>3
        <3>q. QED BY <1>2, <1>4, <2>3, <2>5, <3>1
    <2>7. newest' <= Latest'
        <3>1. 1 \in 1..Len(mainQueue)
            BY <2>3
        <3>q. QED BY <1>4, <2>2, <2>5, <3>1
    <2>q. QED BY <1>4, <2>2, <2>3, <2>4, <2>6, <2>7
<1>7. CASE ~Callback
    <2>1. Tells(listeners') /\ newest' = newest
        BY <1>7, ViewStep, QueuesRun
    <2>2. \A i \in 1..Len(mainQueue') :
            IF i <= Len(mainQueue) THEN mainQueue'[i] = mainQueue[i] /\ i \in 1..Len(mainQueue)
            ELSE mainQueue'[i].doc.version = Latest'
        <3>1. /\ Len(mainQueue) \in Nat
              /\ \A i \in 1..Len(mainQueue) : mainQueue'[i] = mainQueue[i]
              /\ \A i \in 1..Len(mainQueue') :
                    i > Len(mainQueue) => \E r \in listeners' : mainQueue'[i] = Event(r, view')
            BY <1>2, <2>1 DEF Tells
        <3>2. listeners' # {} => view'.open
            BY DocumentStep DEF Lists
        <3>3. \A r : Event(r, view').doc = view'.doc
            BY DEF Event
        <3>4. ASSUME NEW i \in 1..Len(mainQueue'), ~(i <= Len(mainQueue))
              PROVE  mainQueue'[i].doc.version = Latest'
            <4>1. PICK r \in listeners' : mainQueue'[i] = Event(r, view')
                BY <3>1, <3>4
            <4>q. QED BY <3>2, <3>3, <4>1 DEF Latest
        <3>q. QED BY <3>1, <3>4
    <2>3. \A i \in 1..Len(mainQueue') :
            mainQueue'[i].doc.version \in Int /\ mainQueue'[i].doc.version <= Latest'
        BY <1>1, <1>2, <1>3, <1>4, <2>2
    <2>4. newest' <= Latest'
        BY <1>1, <1>2, <1>3, <1>4, <2>1
    <2>5. \A i \in 1..Len(mainQueue') : mainQueue'[i].doc.version >= newest'
        BY <1>2, <1>3, <1>4, <2>1, <2>2, <2>4
    <2>6. ASSUME NEW i \in 1..Len(mainQueue'), NEW j \in 1..Len(mainQueue'), j < i
          PROVE  mainQueue'[j].doc.version <= mainQueue'[i].doc.version
        <3>1. Len(mainQueue) \in Nat /\ Len(mainQueue') \in Nat
            BY <1>2, <1>3
        <3>2. CASE i <= Len(mainQueue)
            <4>1. j <= Len(mainQueue)
                BY <2>6, <3>1, <3>2
            <4>q. QED BY <1>4, <2>2, <2>6, <3>2, <4>1
        <3>3. CASE ~(i <= Len(mainQueue))
            BY <2>2, <2>3, <3>3
        <3>q. QED BY <3>2, <3>3
    <2>q. QED BY <2>3, <2>4, <2>5, <2>6
<1>q. QED BY <1>6, <1>7

LEMMA Watched == Spec => [](TypeOK /\ Lists)
<1>1. Init => Lists
    BY DEF Init, Lists, NoView
<1>2. TypeOK /\ Lists /\ [Next]_vars => Lists'
    BY DocumentStep
<1>q. QED BY ReadPathTypes, <1>1, <1>2, PTL DEF Spec

LEMMA OrderedInit == Init => Ordered
<1> SUFFICES ASSUME Init PROVE Ordered
    OBVIOUS
<1>1. Len(mainQueue) = 0 /\ DOMAIN mainQueue = {} /\ newest = 0 /\ ~view.open
      /\ cache.version = 0
    BY DEF Init, NoView, NoDocument
<1>q. QED BY <1>1 DEF Ordered, Lags, Latest, VersionsNeverGoBack

\* What the completions of getDocument are given never goes back to an older
\* version, whatever the streams, the acknowledgements and the cache do.
THEOREM CallbacksInOrder == Spec => []VersionsNeverGoBack
<1>1. TypeOK /\ Lists /\ Ordered /\ [Next]_vars /\ TypeOK' => Ordered'
    BY OrderedStep
<1>2. Ordered => VersionsNeverGoBack
    BY DEF Ordered
<1>q. QED BY Watched, OrderedInit, <1>1, <1>2, PTL DEF Spec

(* --------------------------- own writes shown --------------------------- *)

\* The cache has what was acknowledged.
Acks == \A w \in 1..acked : writes[w] > 0 /\ cache.version >= writes[w]

\* A view that shows no own write shows the cache, and none is under way.
Honest == view.open /\ view.doc.kind # "local" => ~Pending /\ view.doc = cache

\* Tasks, listeners and events are of reads that were called.
Known ==
    /\ \A r \in listeners : r <= called
    /\ \A i \in 1..Len(tasks) : tasks[i].read <= called
    /\ \A i \in 1..Len(mainQueue) : mainQueue[i].read <= called
    /\ \A r \in Reads : wrote[r] <= Len(writes)

OwnWrites == Acks /\ Honest /\ Known /\ ReadYourWrites

LEMMA WritesGrow ==
    ASSUME TypeOK, [Next]_vars
    PROVE  /\ Len(writes') \in Nat /\ Len(writes') >= Len(writes)
           /\ \A w \in 1..Len(writes) : writes[w] > 0 => writes'[w] = writes[w]
           /\ acked' = acked \/ Acknowledged
<1>1. writes \in Seq(Versions) /\ Len(writes) \in Nat
    BY Numbers
<1>2. ASSUME UNCHANGED writes
      PROVE  /\ Len(writes') \in Nat /\ Len(writes') >= Len(writes)
             /\ \A w \in 1..Len(writes) : writes[w] > 0 => writes'[w] = writes[w]
    BY <1>1, <1>2
<1>3. CASE Write
    <2>1. writes' = Append(writes, 0) /\ UNCHANGED acked
        BY <1>3 DEF Write
    <2>2. Len(writes') = Len(writes) + 1 /\ \A w \in 1..Len(writes) : writes'[w] = writes[w]
        BY <1>1, <2>1
    <2>q. QED BY <1>1, <2>1, <2>2
<1>4. CASE AppliesWrite
    <2>1. UNCHANGED acked /\ \E i \in DOMAIN writes :
             writes[i] = 0 /\ writes' = [writes EXCEPT ![i] = version + 1]
        BY <1>4 DEF AppliesWrite, serverFrame
    <2>2. PICK i \in DOMAIN writes : writes[i] = 0 /\ writes' = [writes EXCEPT ![i] = version + 1]
        BY <2>1
    <2>3. Len(writes') = Len(writes)
          /\ \A w \in 1..Len(writes) : w # i => writes'[w] = writes[w]
        BY <1>1, <2>2
    <2>q. QED BY <1>1, <2>1, <2>2, <2>3
<1>5. CASE ~Write /\ ~AppliesWrite
    <2>1. UNCHANGED writes /\ (UNCHANGED acked \/ Acknowledged)
        <3>1. CASE GetDocument \/ RunTask \/ Callback \/ Acknowledged \/ WatchChange
            BY <3>1 DEF GetDocument, RunTask, Callback, Acknowledged, WatchChange
        <3>2. CASE StreamOpens \/ StreamFails \/ IdleTimeout \/ OnlineTimeout
            BY <3>2 DEF StreamOpens, StreamFails, IdleTimeout, OnlineTimeout, offlineVars
        <3>3. CASE DisableNetwork \/ EnableNetwork \/ RestartNetwork
            BY <3>3 DEF DisableNetwork, EnableNetwork, RestartNetwork, offlineVars
        <3>4. CASE OtherWrites \/ TakesRequest \/ CatchesUp
            BY <3>4 DEF OtherWrites, TakesRequest, CatchesUp, serverFrame
        <3>5. CASE UNCHANGED vars
            BY <3>5 DEF vars
        <3>q. QED BY <1>5, <3>1, <3>2, <3>3, <3>4, <3>5 DEF Next
    <2>q. QED BY <1>2, <2>1
<1>q. QED BY <1>3, <1>4, <1>5

LEMMA AcksStep ==
    ASSUME TypeOK, TypeOK', Lists, Acks, [Next]_vars
    PROVE  Acks'
<1>1. /\ cache'.version >= cache.version
      /\ \A w \in 1..Len(writes) : writes[w] > 0 => writes'[w] = writes[w]
      /\ acked' = acked \/ Acknowledged
    BY DocumentStep, WritesGrow
<1>2. /\ cache.version \in Int /\ acked \in Nat /\ Len(writes) \in Nat /\ acked <= Len(writes)
      /\ \A w \in 1..Len(writes) : writes[w] \in Int
    BY Numbers
<1>3. cache'.version \in Int
    <2>1. cache'.version \in Versions
        BY DEF TypeOK
    <2>q. QED BY <2>1 DEF Versions
<1>4. ASSUME NEW w \in 1..acked
      PROVE  writes'[w] > 0 /\ cache'.version >= writes'[w]
    <2>1. w \in 1..Len(writes)
        BY <1>2, <1>4
    <2>2. writes[w] > 0 /\ cache.version >= writes[w]
        BY <1>4 DEF Acks
    <2>q. QED BY <1>1, <1>2, <1>3, <2>1, <2>2
<1>5. CASE acked' = acked
    BY <1>4, <1>5 DEF Acks
<1>6. CASE Acknowledged
    <2>1. /\ acked' = acked + 1 /\ UNCHANGED writes /\ writes[acked'] > 0
          /\ cache'.version >= writes[acked']
        BY <1>6, CommittedCache
    <2>2. \A w \in 1..acked' : w \in 1..acked \/ w = acked'
        BY <1>2, <2>1
    <2>q. QED BY <1>4, <2>1, <2>2 DEF Acks
<1>q. QED BY <1>1, <1>5, <1>6

LEMMA HonestStep ==
    ASSUME TypeOK, Lists, Honest, [Next]_vars
    PROVE  Honest'
<1>1. DocumentFollows /\ cache' \in CacheTypes
    BY DocumentStep
<1>2. SUFFICES ASSUME view'.open, view'.doc.kind # "local"
               PROVE  ~Pending' /\ view'.doc = cache'
    BY DEF Honest
<1>3. CASE view.open /\ view'.doc = view.doc /\ UNCHANGED cache /\ (Pending' <=> Pending)
    BY <1>2, <1>3 DEF Honest
<1>4. CASE view'.doc = Overlaid(cache', Pending')
    <2>1. Pending' \in BOOLEAN
        BY DEF Pending
    <2>2. /\ ~Pending' => Overlaid(cache', Pending') = cache'
          /\ Pending' => Overlaid(cache', Pending').kind = "local"
        BY <1>1, <2>1, DocumentMade DEF CacheTypes
    <2>q. QED BY <1>2, <1>4, <2>2
<1>q. QED BY <1>1, <1>2, <1>3, <1>4 DEF DocumentFollows

LEMMA KnownStep ==
    ASSUME TypeOK, TypeOK', Known, [Next]_vars
    PROVE  Known'
<1>1. /\ called \in Int /\ mainQueue \in Seq(EventTypes) /\ Len(mainQueue) \in Nat
      /\ tasks \in Seq(TaskTypes) /\ Len(tasks) \in Nat /\ listeners \subseteq Reads
      /\ wrote \in [Reads -> Nat] /\ Len(writes) \in Nat
    BY Numbers, TypeParts DEF RestTypes
<1>2. \A r \in Reads : r \in Int
    BY DEF Reads
<1>3. Len(writes') \in Nat /\ Len(writes') >= Len(writes)
    BY WritesGrow
<1>4. CASE GetDocument
    <2>1. /\ called' = called + 1 /\ called' \in Reads
          /\ wrote' = [wrote EXCEPT ![called'] = Len(writes)]
          /\ tasks' = Append(tasks, [op |-> "add", read |-> called'])
          /\ UNCHANGED <<listeners, mainQueue, writes>>
        <3>1. called' = called + 1 /\ called < MaxReads /\ called \in 0..MaxReads /\ MaxReads \in Nat
            BY <1>4, BoundsAssumption DEF GetDocument, TypeOK
        <3>2. called' \in Reads
            BY <3>1 DEF Reads
        <3>q. QED BY <1>4, <3>1, <3>2 DEF GetDocument, viewVars
    <2>2. \A r \in Reads : wrote'[r] <= Len(writes')
        <3>1. wrote \in [Reads -> Nat] /\ Len(writes) \in Nat
            BY DEF TypeOK
        <3>2. \A r \in Reads : wrote'[r] = IF r = called' THEN Len(writes) ELSE wrote[r]
            BY <2>1, <3>1
        <3>3. \A r \in Reads : wrote[r] <= Len(writes)
            BY DEF Known
        <3>q. QED BY <2>1, <3>1, <3>2, <3>3
    <2>3. /\ \A r \in listeners' : r <= called'
          /\ \A i \in 1..Len(mainQueue') : mainQueue'[i].read <= called'
        <3>1. \A n \in Int : n <= called => n <= called'
            BY <1>1, <2>1
        <3>2. \A i \in 1..Len(mainQueue) : mainQueue[i].read \in Int
            <4>1. \A e \in EventTypes : e.read \in Int
                BY <1>2 DEF EventTypes
            <4>2. \A i \in 1..Len(mainQueue) : mainQueue[i] \in EventTypes
                BY <1>1
            <4>q. QED BY <4>1, <4>2
        <3>q. QED BY <1>1, <1>2, <2>1, <3>1, <3>2 DEF Known
    <2>4. \A i \in 1..Len(tasks') : tasks'[i].read <= called'
        <3> DEFINE task == [op |-> "add", read |-> called']
        <3>1. task.read = called'
            OBVIOUS
        <3> HIDE DEF task
        <3>2. \A i \in 1..Len(tasks') :
                (i \in 1..Len(tasks) /\ tasks'[i] = tasks[i]) \/ tasks'[i] = task
            BY <1>1, <2>1 DEF task
        <3>3. \A i \in 1..Len(tasks) : tasks[i].read \in Int /\ tasks[i].read <= called
            <4>1. \A t \in TaskTypes : t.read \in Int
                BY <1>2 DEF TaskTypes
            <4>2. \A i \in 1..Len(tasks) : tasks[i] \in TaskTypes
                BY <1>1
            <4>q. QED BY <4>1, <4>2 DEF Known
        <3>4. \A n \in Int : n <= called => n <= called'
            BY <1>1, <2>1
        <3>5. called' <= called'
            BY <1>1, <2>1
        <3>q. QED BY <3>1, <3>2, <3>3, <3>4, <3>5
    <2>q. QED BY <2>2, <2>3, <2>4 DEF Known
<1>5. CASE ~GetDocument
    <2>1. UNCHANGED <<called, wrote>>
        BY <1>5, QueuesRun
    <2>2. \A r \in Reads : wrote'[r] <= Len(writes')
        BY <1>1, <1>3, <2>1 DEF Known
    <2>3. /\ \A r \in listeners' : r <= called
          /\ Callback \/ \A i \in 1..Len(tasks') : tasks'[i].read <= called
        <3>1. CASE RunTask
            <4>1. /\ tasks # <<>> /\ tasks' = Tail(tasks)
                  /\ listeners' \subseteq listeners \cup {Head(tasks).read}
                BY <3>1 DEF RunTask, AddListener, RemoveListener
            <4>2. /\ Head(tasks) = tasks[1] /\ 1 \in 1..Len(tasks)
                  /\ \A i \in 1..Len(tasks') : tasks'[i] = tasks[i + 1] /\ i + 1 \in 1..Len(tasks)
                BY <1>1, <4>1
            <4>q. QED BY <4>1, <4>2 DEF Known
        <3>2. CASE Callback
            BY <3>2 DEF Callback, Known
        <3>3. CASE UNCHANGED <<tasks, listeners>>
            BY <3>3 DEF Known
        <3>q. QED BY <1>5, <3>1, <3>2, <3>3, QueuesRun
    <2>4. CASE Callback
        <3>1. /\ mainQueue # <<>> /\ mainQueue' = Tail(mainQueue)
              /\ \/ UNCHANGED tasks
                 \/ tasks' = Append(tasks, [op |-> "remove", read |-> Head(mainQueue).read])
            BY <2>4 DEF Callback
        <3>2. /\ Head(mainQueue) = mainQueue[1] /\ 1 \in 1..Len(mainQueue)
              /\ \A i \in 1..Len(mainQueue') :
                    mainQueue'[i] = mainQueue[i + 1] /\ i + 1 \in 1..Len(mainQueue)
            BY <1>1, <3>1
        <3> DEFINE task == [op |-> "remove", read |-> Head(mainQueue).read]
        <3>3. task.read = mainQueue[1].read
            BY <3>2
        <3> HIDE DEF task
        <3>4. \A i \in 1..Len(tasks') :
                (i \in 1..Len(tasks) /\ tasks'[i] = tasks[i]) \/ tasks'[i] = task
            BY <1>1, <3>1 DEF task
        <3>q. QED BY <2>1, <2>2, <2>3, <3>2, <3>3, <3>4 DEF Known
    <2>5. CASE ~Callback
        <3>1. Tells(listeners')
            BY <2>5, ViewStep
        <3>2. \A r : Event(r, view').read = r
            BY DEF Event
        <3>3. ASSUME NEW i \in 1..Len(mainQueue') PROVE mainQueue'[i].read <= called
            <4>1. Len(mainQueue') \in Nat
                BY <3>1 DEF Tells
            <4>2. CASE i > Len(mainQueue)
                BY <2>3, <3>1, <3>2, <4>2 DEF Tells
            <4>3. CASE ~(i > Len(mainQueue))
                <5>1. i \in 1..Len(mainQueue)
                    BY <1>1, <4>1, <4>3
                <5>q. QED BY <3>1, <5>1 DEF Tells, Known
            <4>q. QED BY <4>2, <4>3
        <3>q. QED BY <2>1, <2>2, <2>3, <2>5, <3>3 DEF Known
    <2>q. QED BY <2>4, <2>5
<1>q. QED BY <1>4, <1>5

LEMMA ReadYourWritesStep ==
    ASSUME TypeOK, TypeOK', Lists, OwnWrites, [Next]_vars
    PROVE  OwnWrites'
<1>1. Acks' /\ Honest' /\ Known'
    BY AcksStep, HonestStep, KnownStep DEF OwnWrites
<1>2. /\ mainQueue \in Seq(EventTypes) /\ Len(mainQueue) \in Nat /\ called \in Int
      /\ wrote \in [Reads -> Nat] /\ Len(writes) \in Nat
      /\ mainQueue' \in Seq(EventTypes) /\ Len(mainQueue') \in Nat
      /\ wrote' \in [Reads -> Nat] /\ acked' \in 0..Len(writes') /\ Len(writes') \in Nat
    <2>1. /\ mainQueue' \in Seq(EventTypes) /\ wrote' \in [Reads -> Nat]
          /\ acked' \in 0..Len(writes')
        BY DEF TypeOK, EventTypes
    <2>q. QED BY <2>1, Numbers, TypeParts, WritesGrow DEF RestTypes
<1> DEFINE Sees(event, wr, ws) ==
        event.doc.kind # "local" =>
            \A w \in 1..wr[event.read] : ws[w] > 0 /\ event.doc.version >= ws[w]
<1>3. SUFFICES \A i \in 1..Len(mainQueue') : Sees(mainQueue'[i], wrote', writes')
    <2>1. DOMAIN mainQueue' = 1..Len(mainQueue')
        BY <1>2
    <2>q. QED BY <1>1, <2>1 DEF OwnWrites, ReadYourWrites
<1>4. \A i \in 1..Len(mainQueue) : /\ Sees(mainQueue[i], wrote, writes)
                                   /\ mainQueue[i].read \in Reads /\ mainQueue[i].read <= called
    <2>1. DOMAIN mainQueue = 1..Len(mainQueue)
        BY <1>2
    <2>2. \A e \in EventTypes : e.read \in Reads
        BY DEF EventTypes
    <2>3. \A i \in 1..Len(mainQueue) : mainQueue[i] \in EventTypes
        BY <1>2
    <2>q. QED BY <2>1, <2>2, <2>3 DEF OwnWrites, ReadYourWrites, Known
\* An event that was there still sees the writes that were made before its read.
<1>5. ASSUME NEW event, event.read \in Reads, event.read <= called, Sees(event, wrote, writes)
      PROVE  Sees(event, wrote', writes')
    <2>1. wrote'[event.read] = wrote[event.read]
        <3>1. CASE GetDocument
            <4>1. wrote' = [wrote EXCEPT ![called + 1] = Len(writes)]
                BY <3>1 DEF GetDocument
            <4>2. event.read # called + 1
                BY <1>2, <1>5
            <4>q. QED BY <1>2, <1>5, <4>1, <4>2
        <3>2. CASE UNCHANGED wrote
            BY <3>2
        <3>q. QED BY <3>1, <3>2, QueuesRun
    <2>2. wrote[event.read] \in Nat /\ wrote[event.read] <= Len(writes)
        BY <1>2, <1>5 DEF OwnWrites, Known
    <2>3. \A w \in 1..wrote[event.read] :
             w \in 1..Len(writes) /\ (writes[w] > 0 => writes'[w] = writes[w])
        <3>1. \A w \in 1..wrote[event.read] : w \in 1..Len(writes)
            BY <1>2, <2>2
        <3>q. QED BY <3>1, WritesGrow
    <2>q. QED BY <1>5, <2>1, <2>3
<1>6. CASE Callback
    <2>1. mainQueue # <<>> /\ mainQueue' = Tail(mainQueue)
        BY <1>6 DEF Callback
    <2>2. \A i \in 1..Len(mainQueue') :
             mainQueue'[i] = mainQueue[i + 1] /\ i + 1 \in 1..Len(mainQueue)
        BY <1>2, <2>1
    <2> HIDE DEF Sees
    <2>q. QED BY <1>4, <1>5, <2>2
<1>7. CASE ~Callback
    <2>1. Tells(listeners')
        BY <1>7, ViewStep
    <2>2. ASSUME NEW i \in 1..Len(mainQueue'), ~(i <= Len(mainQueue))
          PROVE  Sees(mainQueue'[i], wrote', writes')
        <3>1. PICK r \in listeners' : mainQueue'[i] = Event(r, view')
            BY <1>2, <2>1, <2>2 DEF Tells
        <3>2. view'.open
            BY <3>1, DocumentStep DEF Lists
        <3>3. Event(r, view').read = r /\ Event(r, view').doc = view'.doc
            BY DEF Event
        <3>4. r \in Reads
            BY <3>1 DEF TypeOK
        <3>5. ASSUME view'.doc.kind # "local", NEW w \in 1..wrote'[r]
              PROVE  writes'[w] > 0 /\ view'.doc.version >= writes'[w]
            <4>1. ~(acked' < Len(writes')) /\ view'.doc = cache'
                BY <1>1, <3>2, <3>5 DEF Honest, Pending
            <4>2. wrote'[r] \in Nat /\ wrote'[r] <= Len(writes')
                BY <1>1, <1>2, <3>4 DEF Known
            <4>3. w \in 1..acked'
                BY <1>2, <4>1, <4>2
            <4>q. QED BY <1>1, <4>1, <4>3 DEF Acks
        <3>q. QED BY <3>1, <3>3, <3>5
    <2>3. ASSUME NEW i \in 1..Len(mainQueue'), i <= Len(mainQueue)
          PROVE  Sees(mainQueue'[i], wrote', writes')
        <3>1. i \in 1..Len(mainQueue)
            BY <1>2, <2>3
        <3>2. mainQueue'[i] = mainQueue[i]
            BY <2>1, <3>1 DEF Tells
        <3> HIDE DEF Sees
        <3>q. QED BY <1>4, <1>5, <3>1, <3>2
    <2>q. QED BY <2>2, <2>3
<1>q. QED BY <1>6, <1>7

LEMMA OwnWritesInit == Init => OwnWrites
<1> SUFFICES ASSUME Init PROVE OwnWrites
    OBVIOUS
<1>1. /\ acked = 0 /\ ~view.open /\ listeners = {} /\ Len(tasks) = 0 /\ Len(mainQueue) = 0
      /\ DOMAIN mainQueue = {} /\ Len(writes) = 0 /\ \A r \in Reads : wrote[r] = 0
    BY DEF Init, NoView
<1>2. Acks /\ Honest /\ Known
    BY <1>1 DEF Acks, Honest, Known
<1>q. QED BY <1>1, <1>2 DEF OwnWrites, ReadYourWrites

\* A getDocument sees every write its device made before it: in the own writes
\* on top, or in the version, which is at least what each of them made.
THEOREM OwnWritesSeen == Spec => []ReadYourWrites
<1>1. TypeOK /\ Lists /\ OwnWrites /\ [Next]_vars /\ TypeOK' => OwnWrites'
    BY ReadYourWritesStep
<1>2. OwnWrites => ReadYourWrites
    BY DEF OwnWrites
<1>q. QED BY Watched, OwnWritesInit, <1>1, <1>2, PTL DEF Spec

(* ---------------------- from the server, and fresh ---------------------- *)

\* Whose steps change the cache, what is pending for it, and what is on the wire.
LEMMA WhoChanges ==
    ASSUME [Next]_vars
    PROVE  /\ UNCHANGED cache \/ Acknowledged \/ (WatchChange /\ RaiseSnapshot)
           /\ update' \in {0, update} \/ (WatchChange /\ Aggregate(Head(changes)))
           /\ changes' \in {<<>>, changes} \/ WatchChange \/ TakesRequest \/ CatchesUp
           /\ UNCHANGED writes \/ Write \/ AppliesWrite
           /\ UNCHANGED version \/ OtherWrites \/ AppliesWrite
<1> USE DEF storeVars, wireVars, historyVars
<1>1. CASE GetDocument \/ Callback \/ Write \/ Acknowledged
    BY <1>1 DEF GetDocument, Callback, Write, Acknowledged
<1>2. CASE RunTask
    <2>1. UNCHANGED <<cache, writes, version>>
        BY <1>2 DEF RunTask
    <2>2. Listen \/ StopListening \/ UNCHANGED <<update, changes>>
        BY <1>2 DEF RunTask, AddListener, RemoveListener
    <2>3. update' \in {0, update} /\ UNCHANGED changes
        BY <2>2 DEF Listen, StopListening, Send, FreshAggregator
    <2>q. QED BY <2>1, <2>3
<1>3. CASE StreamOpens
    BY <1>3 DEF StreamOpens, offlineVars, Send
<1>4. CASE StreamFails \/ IdleTimeout \/ OnlineTimeout
    BY <1>4 DEF StreamFails, IdleTimeout, OnlineTimeout, offlineVars, FreshAggregator, Disconnected
<1>5. CASE DisableNetwork \/ EnableNetwork \/ RestartNetwork
    BY <1>5 DEF DisableNetwork, EnableNetwork, RestartNetwork, offlineVars, StartAgain,
                FreshAggregator, Disconnected
<1>6. CASE WatchChange
    <2>1. UNCHANGED <<writes, version>>
        BY <1>6 DEF WatchChange
    <2>2. CASE Head(changes).type = "snapshot"
        BY <1>6, <2>1, <2>2 DEF WatchChange, RaiseSnapshot
    <2>3. CASE Head(changes).type # "snapshot"
        BY <1>6, <2>1, <2>3 DEF WatchChange, Aggregate
    <2>q. QED BY <2>2, <2>3
<1>7. CASE OtherWrites \/ AppliesWrite \/ TakesRequest \/ CatchesUp
    BY <1>7 DEF OtherWrites, AppliesWrite, TakesRequest, CatchesUp, serverFrame
<1>8. CASE UNCHANGED vars
    BY <1>8 DEF vars
<1>q. QED BY <1>1, <1>2, <1>3, <1>4, <1>5, <1>6, <1>7, <1>8 DEF Next

\* A view is opened by a listen, and made current by a snapshot.
LEMMA OpenStep ==
    ASSUME TypeOK, Lists, [Next]_vars, view'.open
    PROVE  \/ /\ view.open /\ view'.since = view.since
              /\ view'.current =>
                    \/ view.current
                    \/ /\ WatchChange /\ RaiseSnapshot
                       /\ Active /\ target.changed /\ target.current
           \/ /\ ~view.open /\ view'.since = version /\ ~view'.current
              /\ RunTask /\ Listen /\ UNCHANGED <<cache, acked, writes, version>>
<1>1. view \in ViewTypes /\ cache \in CacheTypes /\ target.current \in BOOLEAN
    BY TypeParts DEF RestTypes, StoreTypes, TargetTypes
<1> DEFINE Stays == view'.open = view.open /\ view'.since = view.since
                    /\ (view'.current => view.current)
<1>2. \A new : \A v \in ViewTypes :
         /\ Updated(v, new).open = v.open /\ Updated(v, new).since = v.since
         /\ Updated(v, new).current = v.current
    BY DEF Updated, ViewTypes
<1>3. CASE \/ GetDocument \/ Callback \/ Write \/ Acknowledged \/ StreamOpens \/ StreamFails
           \/ IdleTimeout \/ OnlineTimeout
    <2>1. CASE GetDocument \/ Callback \/ StreamOpens \/ IdleTimeout
        BY <2>1 DEF GetDocument, Callback, StreamOpens, IdleTimeout, viewVars
    <2>2. CASE Write
        BY <1>1, <1>2, <2>2 DEF Write, Show
    <2>3. CASE Acknowledged
        BY <1>1, <1>2, <2>3 DEF Acknowledged, Show
    <2>4. CASE StreamFails
        <3>1. view' = Seen(view, online')
            BY <2>4 DEF StreamFails, Show
        <3>q. QED BY <1>1, <3>1, ViewMade
    <2>5. CASE OnlineTimeout
        <3>1. view' = Seen(view, "Offline")
            BY <2>5 DEF OnlineTimeout, Show
        <3>q. QED BY <1>1, <3>1, ViewMade
    <2>q. QED BY <1>3, <2>1, <2>2, <2>3, <2>4, <2>5
<1>4. CASE \/ DisableNetwork \/ EnableNetwork \/ RestartNetwork
           \/ OtherWrites \/ AppliesWrite \/ TakesRequest \/ CatchesUp \/ UNCHANGED vars
    <2>1. CASE DisableNetwork
        <3>1. view' = Seen(view, "Offline")
            BY <2>1 DEF DisableNetwork, Show
        <3>q. QED BY <1>1, <3>1, ViewMade
    <2>2. CASE EnableNetwork \/ RestartNetwork
        BY <2>2 DEF EnableNetwork, RestartNetwork, viewVars
    <2>3. CASE OtherWrites \/ AppliesWrite \/ TakesRequest \/ CatchesUp
        BY <2>3 DEF OtherWrites, AppliesWrite, TakesRequest, CatchesUp, viewVars, serverFrame
    <2>4. CASE UNCHANGED vars
        BY <2>4 DEF vars, viewVars
    <2>q. QED BY <1>4, <2>1, <2>2, <2>3, <2>4
<1>5. CASE WatchChange
    <2>1. CASE Head(changes).type # "snapshot"
        BY <1>5, <2>1 DEF WatchChange, Aggregate, viewVars
    <2>2. CASE Head(changes).type = "snapshot"
        <3>1. RaiseSnapshot
            BY <1>5, <2>2 DEF WatchChange
        <3> DEFINE moved == (Active /\ target.changed) /\ view.open
                   v == IF moved THEN [view EXCEPT !.current = target.current] ELSE view
        <3>2. /\ v \in ViewTypes /\ v.open = view.open /\ v.since = view.since
              /\ v.current => view.current \/ (moved /\ target.current)
            BY <1>1 DEF ViewTypes
        <3>3. view' = v \/ view' = Updated(v, Overlaid(cache', Pending))
            BY <3>1 DEF RaiseSnapshot, Show
        <3> HIDE DEF v
        <3>4. /\ view'.open = view.open /\ view'.since = view.since
              /\ view'.current => view.current \/ (moved /\ target.current)
            BY <1>2, <3>2, <3>3
        <3>q. QED BY <1>5, <3>1, <3>4
    <2>q. QED BY <2>1, <2>2
<1>6. CASE RunTask
    <2>1. UNCHANGED <<cache, acked, writes, version>>
        BY <1>6 DEF RunTask
    <2>2. CASE Head(tasks).op = "add"
        <3> DEFINE doc == Overlaid(cache, Pending)
                   fresh == [open |-> TRUE, current |-> FALSE, since |-> version, doc |-> doc]
        <3>1. view' = IF view.open THEN view ELSE fresh
            BY <1>6, <2>2 DEF RunTask, AddListener
        <3>2. ~view.open => Listen
            BY <1>6, <2>2 DEF RunTask, AddListener
        <3>3. fresh.since = version /\ ~fresh.current
            OBVIOUS
        <3> HIDE DEF fresh
        <3>q. QED BY <1>6, <2>1, <3>1, <3>2, <3>3
    <2>3. CASE Head(tasks).op # "add"
        <3>1. view' = NoView \/ view' = view
            BY <1>6, <2>3 DEF RunTask, RemoveListener
        <3>q. QED BY <3>1 DEF NoView
    <2>q. QED BY <2>2, <2>3
<1>q. QED BY <1>3, <1>4, <1>5, <1>6 DEF Next

\* No answer to a request follows position m of s.
Final(s, m) == \A j \in 1..Len(s) : j > m => ~IsAnswer(s[j])

\* What the server sends at version n: after its last answer, documents are of
\* that version, and the target becomes current after a document.
Brought(s, n) ==
    \A m \in 1..Len(s) : Final(s, m) =>
        /\ s[m].type = "document" => s[m].version = n /\ n > 0
        /\ s[m].type = "current" =>
              n = 0 \/ \E j \in 1..Len(s) : j < m /\ s[j].type = "document" /\ Final(s, j)

LEMMA Indexes ==
    ASSUME NEW s \in Seq(ChangeTypes), NEW t \in Seq(ChangeTypes)
    PROVE  /\ s \o t \in Seq(ChangeTypes) /\ Len(s \o t) = Len(s) + Len(t)
           /\ \A i \in 1..Len(s) : (s \o t)[i] = s[i]
           /\ \A i \in 1..Len(t) : (s \o t)[i + Len(s)] = t[i]
OBVIOUS

\* w is t and u, one after the other.
Joins(w, t, u) ==
    /\ Len(w) = Len(t) + Len(u)
    /\ \A i \in 1..Len(t) : w[i] = t[i]
    /\ \A i \in 1..Len(u) : w[i + Len(t)] = u[i]

LEMMA Joined ==
    ASSUME NEW s \in Seq(ChangeTypes), NEW t \in Seq(ChangeTypes), NEW u \in Seq(ChangeTypes),
           NEW w \in Seq(ChangeTypes), Joins(w, t, u)
    PROVE  (s \o t) \o u = s \o w
<1> USE DEF Joins
<1> DEFINE st == s \o t
           left == st \o u
           right == s \o w
<1>1. /\ st \in Seq(ChangeTypes) /\ Len(st) = Len(s) + Len(t)
      /\ \A i \in 1..Len(s) : st[i] = s[i]
      /\ \A i \in 1..Len(t) : st[i + Len(s)] = t[i]
    BY Indexes
<1>2. /\ right \in Seq(ChangeTypes) /\ Len(right) = Len(s) + Len(w)
      /\ \A i \in 1..Len(s) : right[i] = s[i]
      /\ \A i \in 1..Len(w) : right[i + Len(s)] = w[i]
    BY Indexes
<1> HIDE DEF st, right
<1>3. /\ left \in Seq(ChangeTypes) /\ Len(left) = Len(st) + Len(u)
      /\ \A i \in 1..Len(st) : left[i] = st[i]
      /\ \A i \in 1..Len(u) : left[i + Len(st)] = u[i]
    BY <1>1, Indexes
<1> HIDE DEF left
<1>4. /\ Len(s) \in Nat /\ Len(t) \in Nat /\ Len(u) \in Nat /\ Len(w) \in Nat
    OBVIOUS
<1>5. Len(left) = Len(right)
    BY <1>1, <1>2, <1>3, <1>4
<1>6. ASSUME NEW i \in 1..Len(left) PROVE left[i] = right[i]
    <2>1. CASE i <= Len(s)
        <3>1. i \in 1..Len(s) /\ i \in 1..Len(st)
            BY <1>1, <1>2, <1>3, <1>4, <2>1
        <3>q. QED BY <1>1, <1>2, <1>3, <3>1
    <2>2. CASE i > Len(s) /\ i <= Len(st)
        <3>1. /\ i - Len(s) \in 1..Len(t) /\ (i - Len(s)) + Len(s) = i /\ i \in 1..Len(st)
              /\ i - Len(s) \in 1..Len(w)
            BY <1>1, <1>2, <1>3, <1>4, <2>2
        <3>2. left[i] = st[i] /\ st[i] = t[i - Len(s)] /\ right[i] = w[i - Len(s)]
            BY <1>1, <1>2, <1>3, <3>1
        <3>q. QED BY <3>1, <3>2
    <2>3. CASE i > Len(st)
        <3> DEFINE k == i - Len(st)
        <3>1. /\ k \in 1..Len(u) /\ k + Len(st) = i
              /\ k + Len(t) \in 1..Len(w) /\ (k + Len(t)) + Len(s) = i
            BY <1>1, <1>2, <1>3, <1>4, <2>3
        <3> HIDE DEF k
        <3>2. left[i] = u[k] /\ right[i] = w[k + Len(t)] /\ w[k + Len(t)] = u[k]
            BY <1>1, <1>2, <1>3, <3>1
        <3>q. QED BY <3>2
    <2>q. QED BY <1>1, <1>2, <1>3, <1>4, <2>1, <2>2, <2>3
<1>7. left = right
    BY <1>2, <1>3, <1>5, <1>6, SeqEqual
<1>q. QED BY <1>7 DEF left, right, st

LEMMA ConcatTwo ==
    ASSUME NEW s \in Seq(ChangeTypes), NEW a \in ChangeTypes, NEW b \in ChangeTypes
    PROVE  (s \o <<a>>) \o <<b>> = s \o <<a, b>>
<1> DEFINE t == <<a>>
           u == <<b>>
           w == <<a, b>>
<1>1. /\ t \in Seq(ChangeTypes) /\ Len(t) = 1 /\ t[1] = a
      /\ u \in Seq(ChangeTypes) /\ Len(u) = 1 /\ u[1] = b
      /\ w \in Seq(ChangeTypes) /\ Len(w) = 2 /\ w[1] = a /\ w[2] = b
    OBVIOUS
<1> HIDE DEF t, u, w
<1>2. Joins(w, t, u)
    <2>1. (\A i \in 1..Len(t) : i = 1) /\ (\A i \in 1..Len(u) : i = 1 /\ i + Len(t) = 2)
        BY <1>1
    <2>q. QED BY <1>1, <2>1 DEF Joins
<1>3. (s \o t) \o u = s \o w
    BY <1>1, <1>2, Joined
<1>q. QED BY <1>3 DEF t, u, w

LEMMA Answered ==
    ASSUME TypeOK, TakesRequest \/ CatchesUp
    PROVE  \E s \in Seq(ChangeTypes) :
              /\ changes' = changes \o s
              /\ \A i \in 1..Len(s) : s[i].version = version \/ s[i].version = 0
              /\ \/ UNCHANGED requests /\ Brought(s, version) /\ \A m \in 1..Len(s) : s[m].type # "current"
                 \/ /\ requests # <<>> /\ requests' = Tail(requests) /\ Head(requests) = "watch"
                    /\ Brought(s, version) /\ Len(s) > 0 /\ IsAnswer(s[1])
                 \/ requests # <<>> /\ requests' = Tail(requests) /\ Head(requests) # "watch"
<1> DEFINE doc == [type |-> "document", version |-> version]
           added == Message("added")
           current == Message("current")
           snapshot == Message("snapshot")
           removed == Message("removed")
<1>1. /\ changes \in Seq(ChangeTypes) /\ version \in Int /\ version >= 0
      /\ added \in ChangeTypes /\ current \in ChangeTypes /\ snapshot \in ChangeTypes
      /\ removed \in ChangeTypes /\ doc \in ChangeTypes
      /\ 0 \in Versions
    <2>1. doc \in ChangeTypes
        BY DEF TypeOK, ChangeTypes
    <2>2. changes \in Seq(ChangeTypes) /\ version \in Int /\ version >= 0
        BY DEF TypeOK, ChangeTypes, Versions
    <2>q. QED BY <2>1, <2>2, Sent, NothingTypes
<1>2. /\ added.type = "added" /\ current.type = "current" /\ snapshot.type = "snapshot"
      /\ removed.type = "removed" /\ doc.type = "document" /\ doc.version = version
      /\ added.version = 0 /\ current.version = 0 /\ snapshot.version = 0 /\ removed.version = 0
    BY DEF Message
<1>3. News(0) = IF version > 0 THEN <<doc>> ELSE <<>>
    <2>1. 0 < version <=> version > 0
        BY <1>1
    <2>q. QED BY <2>1 DEF News
<1>4. \A n \in Versions : News(n) = <<>> \/ (News(n) = <<doc>> /\ version > 0)
    <2>1. \A n \in Versions : n < version => version > 0
        BY <1>1 DEF Versions
    <2>q. QED BY <2>1 DEF News
<1>5. /\ IsAnswer(added) /\ ~IsAnswer(doc) /\ ~IsAnswer(current) /\ ~IsAnswer(snapshot)
    BY <1>2 DEF IsAnswer
<1> HIDE DEF doc, added, current, snapshot, removed
<1>6. CASE TakesRequest
    <2>1. requests # <<>> /\ requests' = Tail(requests)
        BY <1>6 DEF TakesRequest
    <2>2. CASE Head(requests) = "watch" /\ version > 0
        <3> DEFINE s == <<added, doc, current, snapshot>>
        <3>1. changes' = ((changes \o <<added>>) \o <<doc>>) \o <<current, snapshot>>
            BY <1>3, <1>6, <2>2 DEF TakesRequest, added, current, snapshot
        <3>2. changes' = changes \o s
            <4> DEFINE first == <<added, doc>>
                       last == <<current, snapshot>>
            <4>1. (changes \o <<added>>) \o <<doc>> = changes \o first
                <5>1. changes \in Seq(ChangeTypes) /\ added \in ChangeTypes /\ doc \in ChangeTypes
                    BY <1>1
                <5>q. QED BY <5>1, ConcatTwo
            <4>2. /\ first \in Seq(ChangeTypes) /\ Len(first) = 2
                  /\ first[1] = added /\ first[2] = doc
                  /\ last \in Seq(ChangeTypes) /\ Len(last) = 2
                  /\ last[1] = current /\ last[2] = snapshot
                  /\ s \in Seq(ChangeTypes) /\ Len(s) = 4
                  /\ s[1] = added /\ s[2] = doc /\ s[3] = current /\ s[4] = snapshot
                BY <1>1
            <4>3. changes' = (changes \o first) \o last
                BY <3>1, <4>1, Zenon
            <4> HIDE DEF first, last, s
            <4>4. Joins(s, first, last)
                <5>1. /\ \A i \in 1..Len(first) : i = 1 \/ i = 2
                      /\ \A i \in 1..Len(last) : \/ i = 1 /\ i + Len(first) = 3
                                                 \/ i = 2 /\ i + Len(first) = 4
                    BY <4>2
                <5>q. QED BY <4>2, <5>1 DEF Joins
            <4>5. first \in Seq(ChangeTypes) /\ last \in Seq(ChangeTypes)
                  /\ s \in Seq(ChangeTypes) /\ changes \in Seq(ChangeTypes)
                BY <1>1, <4>2
            <4>6. (changes \o first) \o last = changes \o s
                <5>1. \A c, t, u, w \in Seq(ChangeTypes) :
                        Joins(w, t, u) => (c \o t) \o u = c \o w
                    BY Joined
                <5>2. /\ changes \in Seq(ChangeTypes) /\ first \in Seq(ChangeTypes)
                      /\ last \in Seq(ChangeTypes) /\ s \in Seq(ChangeTypes)
                    BY <4>5
                <5>3. Joins(s, first, last) => (changes \o first) \o last = changes \o s
                    BY <5>1, <5>2
                <5>q. QED BY <4>4, <5>3
            <4>q. QED BY <4>3, <4>6, Zenon
        <3>3. s \in Seq(ChangeTypes) /\ Len(s) = 4 /\ s[1] = added /\ s[2] = doc
              /\ s[3] = current /\ s[4] = snapshot
            BY <1>1
        <3> HIDE DEF s
        <3>4. \A m \in 1..Len(s) : m = 1 \/ m = 2 \/ m = 3 \/ m = 4
            BY <3>3
        <3>5. Final(s, 2)
            BY <1>5, <3>3, <3>4 DEF Final
        <3>6. Brought(s, version)
            <4>1. \A m \in 1..Len(s) : s[m].type = "document" => s[m].version = version
                BY <1>2, <3>3, <3>4
            <4>2. \A m \in 1..Len(s) : s[m].type = "current" => m = 3
                BY <1>2, <3>3, <3>4
            <4>3. 2 \in 1..Len(s) /\ 2 < 3 /\ s[2].type = "document"
                BY <1>2, <3>3
            <4>q. QED BY <2>2, <3>5, <4>1, <4>2, <4>3 DEF Brought
        <3>7. \A i \in 1..Len(s) : s[i].version = version \/ s[i].version = 0
            BY <1>2, <3>3, <3>4
        <3>8. Len(s) > 0 /\ IsAnswer(s[1])
            BY <1>5, <3>3
        <3>q. QED BY <2>1, <2>2, <3>2, <3>3, <3>6, <3>7, <3>8
    <2>3. CASE Head(requests) = "watch" /\ ~(version > 0)
        <3> DEFINE s == <<added, current, snapshot>>
        <3>1. changes' = ((changes \o <<added>>) \o <<>>) \o <<current, snapshot>>
            BY <1>3, <1>6, <2>3 DEF TakesRequest, added, current, snapshot
        <3>2. changes' = changes \o s
            BY <1>1, <3>1
        <3>3. s \in Seq(ChangeTypes) /\ Len(s) = 3 /\ s[1] = added
              /\ s[2] = current /\ s[3] = snapshot
            BY <1>1
        <3> HIDE DEF s
        <3>4. \A m \in 1..Len(s) : m = 1 \/ m = 2 \/ m = 3
            BY <3>3
        <3>5. \A m \in 1..Len(s) : s[m].type # "document"
            BY <1>2, <3>3, <3>4
        <3>6. Brought(s, version)
            BY <1>1, <2>3, <3>5 DEF Brought
        <3>7. \A i \in 1..Len(s) : s[i].version = version \/ s[i].version = 0
            BY <1>2, <3>3, <3>4
        <3>8. Len(s) > 0 /\ IsAnswer(s[1])
            BY <1>5, <3>3
        <3>q. QED BY <2>1, <2>3, <3>2, <3>3, <3>6, <3>7, <3>8
    <2>4. CASE Head(requests) # "watch"
        <3> DEFINE s == <<removed>>
        <3>1. changes' = Append(changes, removed)
            BY <1>6, <2>4 DEF TakesRequest, removed
        <3>2. changes' = changes \o s /\ s \in Seq(ChangeTypes) /\ Len(s) = 1 /\ s[1] = removed
            BY <1>1, <3>1
        <3> HIDE DEF s
        <3>3. \A i \in 1..Len(s) : s[i].version = version \/ s[i].version = 0
            BY <1>2, <3>2
        <3>q. QED BY <2>1, <2>4, <3>2, <3>3
    <2>q. QED BY <2>2, <2>3, <2>4
<1>7. CASE CatchesUp
    <2>1. UNCHANGED requests
          /\ changes' = (changes \o News(serving.sent)) \o <<snapshot>>
        BY <1>7 DEF CatchesUp, snapshot
    <2>2. serving.sent \in Versions
        BY DEF TypeOK
    <2>3. CASE News(serving.sent) = <<>>
        <3> DEFINE s == <<snapshot>>
        <3>1. changes' = (changes \o <<>>) \o <<snapshot>>
            BY <2>1, <2>3
        <3>2. changes' = changes \o s /\ s \in Seq(ChangeTypes) /\ Len(s) = 1 /\ s[1] = snapshot
            BY <1>1, <3>1
        <3> HIDE DEF s
        <3>3. \A m \in 1..Len(s) : s[m].type # "document" /\ s[m].type # "current" /\ s[m].version = 0
            BY <1>2, <3>2
        <3>4. Brought(s, version)
            BY <3>3 DEF Brought
        <3>q. QED BY <2>1, <3>2, <3>3, <3>4
    <2>4. CASE News(serving.sent) = <<doc>> /\ version > 0
        <3> DEFINE s == <<doc, snapshot>>
        <3>1. changes' = (changes \o <<doc>>) \o <<snapshot>>
            BY <2>1, <2>4
        <3>2. changes' = changes \o s /\ s \in Seq(ChangeTypes) /\ Len(s) = 2
              /\ s[1] = doc /\ s[2] = snapshot
            <4>1. changes' = changes \o s
                BY <1>1, <3>1, ConcatTwo
            <4>q. QED BY <1>1, <4>1
        <3> HIDE DEF s
        <3>3. \A m \in 1..Len(s) : m = 1 \/ m = 2
            BY <3>2
        <3>4. \A m \in 1..Len(s) : /\ s[m].type = "document" => s[m].version = version
                                   /\ s[m].type # "current"
                                   /\ s[m].version = version \/ s[m].version = 0
            BY <1>2, <3>2, <3>3
        <3>5. Brought(s, version)
            BY <2>4, <3>4 DEF Brought
        <3>q. QED BY <2>1, <3>2, <3>4, <3>5
    <2>q. QED BY <1>4, <2>2, <2>3, <2>4
<1>q. QED BY <1>6, <1>7

\* The server has every version the device has, and a target without an answer
\* outstanding is the listen of the view.
ServerAhead ==
    /\ cache.version <= version /\ update <= version
    /\ view.open => view.since <= version
    /\ \A i \in 1..Len(changes) : changes[i].version <= version
    /\ \A w \in 1..Len(writes) : writes[w] <= version
    /\ cache.kind = "committed" => cache.version > 0

LEMMA ServerNumbers ==
    ASSUME TypeOK
    PROVE  /\ version \in Int /\ update \in Int /\ cache.version \in Int /\ view.since \in Int
           /\ version >= 0 /\ update >= 0
           /\ changes \in Seq(ChangeTypes) /\ Len(changes) \in Nat
           /\ \A i \in 1..Len(changes) : changes[i].version \in Int
           /\ writes \in Seq(Versions) /\ Len(writes) \in Nat
           /\ \A w \in 1..Len(writes) : writes[w] \in Int
<1>1. /\ version \in Versions /\ update \in Versions /\ cache.version \in Versions
      /\ view.since \in Versions /\ changes \in Seq(ChangeTypes) /\ writes \in Seq(Versions)
    BY TypeParts DEF RestTypes, StoreTypes, CacheTypes, ViewTypes
<1>2. \A n \in Versions : n \in Int /\ n >= 0
    BY DEF Versions
<1>3. \A i \in 1..Len(changes) : changes[i] \in ChangeTypes
    BY <1>1
<1>4. \A c \in ChangeTypes : c.version \in Int
    BY <1>2 DEF ChangeTypes
<1>5. \A w \in 1..Len(writes) : writes[w] \in Int
    BY <1>1, <1>2
<1>q. QED BY <1>1, <1>2, <1>3, <1>4, <1>5

LEMMA ServerAheadStep ==
    ASSUME TypeOK, TypeOK', Lists, ServerAhead, [Next]_vars
    PROVE  ServerAhead'
<1>1. /\ version \in Int /\ update \in Int /\ cache.version \in Int /\ view.since \in Int
      /\ version >= 0 /\ update >= 0
      /\ changes \in Seq(ChangeTypes) /\ Len(changes) \in Nat
      /\ \A i \in 1..Len(changes) : changes[i].version \in Int
      /\ writes \in Seq(Versions) /\ Len(writes) \in Nat
      /\ \A w \in 1..Len(writes) : writes[w] \in Int
    BY ServerNumbers
<1>2. version' \in Int /\ version' >= version
    <2>1. version' = version \/ version' = version + 1
        BY WhoChanges DEF OtherWrites, AppliesWrite
    <2>q. QED BY <1>1, <2>1
<1>3. cache'.version \in Int
    <2>1. cache'.version \in Versions
        BY DEF TypeOK
    <2>q. QED BY <2>1 DEF Versions
<1>4. \A n \in Int : n <= version => n <= version'
    BY <1>1, <1>2
<1>5. cache'.version <= version' /\ (cache'.kind = "committed" => cache'.version > 0)
    <2>1. CASE UNCHANGED cache
        BY <1>1, <1>4, <2>1 DEF ServerAhead
    <2>2. CASE Acknowledged
        <3>1. /\ acked' \in 1..Len(writes) /\ writes[acked'] > 0
              /\ cache' = Committed(cache, writes[acked'])
            BY <2>2, CommittedCache DEF Acknowledged
        <3> DEFINE v == writes[acked']
        <3>2. v \in Int /\ v > 0 /\ v <= version
            BY <1>1, <3>1 DEF ServerAhead
        <3> HIDE DEF v
        <3>3. CASE cache.version < v
            <4>1. cache' = [version |-> v, kind |-> "committed"]
                BY <3>1, <3>3 DEF v, Committed
            <4>2. cache'.version = v
                BY <4>1
            <4>q. QED BY <1>4, <3>2, <4>2
        <3>4. CASE ~(cache.version < v)
            <4>1. cache' = cache
                BY <3>1, <3>4 DEF v, Committed
            <4>q. QED BY <1>1, <1>4, <4>1 DEF ServerAhead
        <3>q. QED BY <3>3, <3>4
    <2>3. CASE RaiseSnapshot
        <3>1. \/ cache'.version = update /\ cache'.kind = "plain"
              \/ UNCHANGED cache
            BY <2>3, WatchedCache
        <3>q. QED BY <1>1, <1>4, <3>1 DEF ServerAhead
    <2>q. QED BY <2>1, <2>2, <2>3, WhoChanges
<1>6. update' <= version'
    <2>1. CASE update' \in {0, update}
        BY <1>1, <1>2, <1>4, <2>1 DEF ServerAhead
    <2>2. CASE WatchChange /\ Aggregate(Head(changes))
        <3>1. Head(changes) = changes[1] /\ 1 \in 1..Len(changes)
            BY <1>1, <2>2 DEF WatchChange
        <3>2. update' = update \/ update' = Head(changes).version
            BY <2>2 DEF Aggregate
        <3>q. QED BY <1>1, <1>4, <3>1, <3>2 DEF ServerAhead
    <2>q. QED BY <2>1, <2>2, WhoChanges
<1>7. view'.open => view'.since <= version'
    <2>1. view'.open => (view.open /\ view'.since = view.since) \/ view'.since = version
        BY OpenStep
    <2>q. QED BY <1>1, <1>2, <1>4, <2>1 DEF ServerAhead
<1>8. \A i \in 1..Len(changes') : changes'[i].version <= version'
    <2>1. CASE changes' = <<>>
        BY <2>1
    <2>2. CASE UNCHANGED changes
        BY <1>1, <1>4, <2>2 DEF ServerAhead
    <2>3. CASE WatchChange
        <3>1. changes # <<>> /\ changes' = Tail(changes)
            BY <2>3 DEF WatchChange
        <3>2. \A i \in 1..Len(changes') : changes'[i] = changes[i + 1] /\ i + 1 \in 1..Len(changes)
            BY <1>1, <3>1
        <3>q. QED BY <1>1, <1>4, <3>2 DEF ServerAhead
    <2>4. CASE TakesRequest \/ CatchesUp
        <3>1. \E s \in Seq(ChangeTypes) :
                /\ changes' = changes \o s
                /\ \A i \in 1..Len(s) : s[i].version <= version
            <4>1. \A n : n = version \/ n = 0 => n <= version
                BY <1>1
            <4>q. QED BY <2>4, <4>1, Answered
        <3>2. PICK s \in Seq(ChangeTypes) :
                /\ changes' = changes \o s
                /\ \A i \in 1..Len(s) : s[i].version <= version
            BY <3>1
        <3>3. UNCHANGED version
            BY <2>4 DEF TakesRequest, CatchesUp
        <3>4. /\ Len(changes') = Len(changes) + Len(s) /\ Len(s) \in Nat
              /\ \A i \in 1..Len(changes) : changes'[i] = changes[i]
              /\ \A i \in 1..Len(changes') : i > Len(changes) =>
                    changes'[i] = s[i - Len(changes)] /\ i - Len(changes) \in 1..Len(s)
            BY <1>1, <3>2
        <3>5. ASSUME NEW i \in 1..Len(changes') PROVE changes'[i].version <= version
            <4>1. CASE i > Len(changes)
                BY <3>2, <3>4, <4>1
            <4>2. CASE ~(i > Len(changes))
                <5>1. i \in 1..Len(changes)
                    BY <1>1, <3>4, <4>2
                <5>q. QED BY <3>4, <5>1 DEF ServerAhead
            <4>q. QED BY <4>1, <4>2
        <3>q. QED BY <3>3, <3>5
    <2>q. QED BY <2>1, <2>2, <2>3, <2>4, WhoChanges
<1>9. \A w \in 1..Len(writes') : writes'[w] <= version'
    <2>1. CASE UNCHANGED writes
        BY <1>1, <1>4, <2>1 DEF ServerAhead
    <2>2. CASE Write
        <3>1. writes' = Append(writes, 0)
            BY <2>2 DEF Write
        <3>2. \A w \in 1..Len(writes') : (w \in 1..Len(writes) /\ writes'[w] = writes[w])
                                         \/ writes'[w] = 0
            BY <1>1, <3>1
        <3>3. 0 <= version
            BY <1>1
        <3>q. QED BY <1>1, <1>4, <3>2, <3>3 DEF ServerAhead
    <2>3. CASE AppliesWrite
        <3>1. /\ version' = version + 1
              /\ \E i \in DOMAIN writes : writes' = [writes EXCEPT ![i] = version + 1]
            BY <2>3 DEF AppliesWrite
        <3>2. \A w \in 1..Len(writes') : (w \in 1..Len(writes) /\ writes'[w] = writes[w])
                                         \/ writes'[w] = version'
            BY <1>1, <3>1
        <3>3. version' <= version'
            BY <1>2
        <3>q. QED BY <1>1, <1>4, <3>2, <3>3 DEF ServerAhead
    <2>q. QED BY <2>1, <2>2, <2>3, WhoChanges
<1>q. QED BY <1>5, <1>6, <1>7, <1>8, <1>9 DEF ServerAhead

\* A document shown as acknowledged, which the watch stream has not brought, is
\* what the cache had when the view was opened.
Guess == view.open /\ view.doc.kind = "committed" =>
            cache.version <= view.since /\ cache.version > 0

LEMMA NoNewGuess ==
    ASSUME TypeOK, Lists, Honest, [Next]_vars, view.open, view'.open,
           view'.doc.kind = "committed"
    PROVE  view.doc.kind = "committed" /\ UNCHANGED cache
<1>1. DocumentFollows /\ cache' \in CacheTypes
    BY DocumentStep
<1>2. CASE view'.doc = view.doc /\ UNCHANGED cache
    BY <1>2
<1>3. CASE view'.doc = Overlaid(cache', Pending') /\ ~Kept(view.doc, view'.doc)
    <2>1. view.doc.kind # "local"
        BY <1>3 DEF Kept
    <2>2. ~Pending /\ view.doc = cache
        BY <2>1 DEF Honest
    <2>3. view'.doc = cache'
        <3>1. Pending' \in BOOLEAN
            BY DEF Pending
        <3>2. /\ ~Pending' => Overlaid(cache', Pending') = cache'
              /\ Pending' => Overlaid(cache', Pending').kind = "local"
            BY <1>1, <3>1, DocumentMade DEF CacheTypes
        <3>q. QED BY <1>3, <3>2
    <2>4. ~Acknowledged
        BY <2>2 DEF Acknowledged
    <2>5. UNCHANGED cache
        <3>1. CASE RaiseSnapshot
            BY <2>3, <3>1, WatchedCache
        <3>q. QED BY <2>4, <3>1, WhoChanges
    <2>q. QED BY <2>2, <2>3, <2>5
<1>q. QED BY <1>1, <1>2, <1>3 DEF DocumentFollows

LEMMA GuessStep ==
    ASSUME TypeOK, TypeOK', Lists, Honest, Honest', ServerAhead, Guess, [Next]_vars
    PROVE  Guess'
<1>1. SUFFICES ASSUME view'.open, view'.doc.kind = "committed"
               PROVE  cache'.version <= view'.since /\ cache'.version > 0
    BY DEF Guess
<1>2. CASE view.open /\ view'.since = view.since
    <2>1. view.doc.kind = "committed" /\ UNCHANGED cache
        BY <1>1, <1>2, NoNewGuess
    <2>q. QED BY <1>2, <2>1 DEF Guess
<1>3. CASE view'.since = version /\ UNCHANGED cache
    <2>1. view'.doc = cache'
        BY <1>1 DEF Honest
    <2>q. QED BY <1>1, <1>3, <2>1 DEF ServerAhead
<1>q. QED BY <1>1, <1>2, <1>3, OpenStep

\* The view has at least what the server had when it was opened, and no guess;
\* or a snapshot will make it so.
Settled == cache.version >= view.since /\ view.doc.kind # "committed"
Ready == Settled \/ (update > 0 /\ update >= view.since)

LEMMA SettledStays ==
    ASSUME TypeOK, TypeOK', Lists, Honest, [Next]_vars, view.open, view'.open,
           view'.since = view.since, Settled
    PROVE  Settled'
<1>1. cache'.version >= cache.version /\ cache.version >= view.since
    BY DocumentStep DEF Settled
<1>2. cache.version \in Int /\ view.since \in Int
    BY ServerNumbers
<1>3. cache'.version \in Int
    <2>1. cache'.version \in Versions
        BY DEF TypeOK
    <2>q. QED BY <2>1 DEF Versions
<1>4. cache'.version >= view'.since
    BY <1>1, <1>2, <1>3
<1>5. view'.doc.kind # "committed"
    BY NoNewGuess DEF Settled
<1>q. QED BY <1>4, <1>5 DEF Settled

LEMMA ReadySettles ==
    ASSUME TypeOK, TypeOK', Lists, Honest, Guess, [Next]_vars, view.open, view'.open,
           view'.since = view.since, RaiseSnapshot, Ready
    PROVE  Settled'
<1>1. CASE Settled
    BY <1>1, SettledStays
<1>2. CASE update > 0 /\ update >= view.since
    <2>1. cache.version \in Int /\ view.since \in Int /\ update \in Int
        BY ServerNumbers
    <2>2. CASE Newer(cache, update)
        <3>1. cache'.version = update /\ cache'.kind = "plain"
            BY <1>2, <2>2, WatchedCache
        <3>2. view'.doc.kind # "committed"
            <4>1. SUFFICES ASSUME view'.doc.kind = "committed" PROVE FALSE
                OBVIOUS
            <4>2. view.doc.kind = "committed" /\ UNCHANGED cache
                BY <4>1, NoNewGuess
            <4>3. view.doc = cache
                BY <4>2 DEF Honest
            <4>q. QED BY <3>1, <4>2, <4>3
        <3>q. QED BY <1>2, <3>1, <3>2 DEF Settled
    <2>3. CASE ~Newer(cache, update)
        <3>1. UNCHANGED cache
            BY <2>3, WatchedCache
        <3>2. /\ ~(update > cache.version)
              /\ update = cache.version => cache.kind # "committed"
            BY <2>3 DEF Newer
        <3>3. cache.version >= view.since /\ cache.version >= update
            BY <1>2, <2>1, <3>2
        <3>4. view'.doc.kind # "committed"
            <4>1. SUFFICES ASSUME view'.doc.kind = "committed" PROVE FALSE
                OBVIOUS
            <4>2. view.doc.kind = "committed"
                BY <4>1, NoNewGuess
            <4>3. view.doc = cache /\ cache.version <= view.since
                BY <4>2 DEF Honest, Guess
            <4>4. update = cache.version
                BY <1>2, <2>1, <3>3, <4>3
            <4>q. QED BY <3>2, <4>2, <4>3, <4>4
        <3>q. QED BY <3>1, <3>3, <3>4 DEF Settled
    <2>q. QED BY <2>2, <2>3
<1>q. QED BY <1>1, <1>2 DEF Ready

\* A step that leaves the pending update, or raises it, leaves what was ready so.
LEMMA ReadyStays ==
    ASSUME TypeOK, TypeOK', Lists, Honest, Guess, [Next]_vars, view.open, view'.open,
           view'.since = view.since, Ready, RaiseSnapshot \/ UNCHANGED update
    PROVE  Ready'
<1>1. CASE RaiseSnapshot
    BY <1>1, ReadySettles DEF Ready
<1>2. CASE UNCHANGED update
    <2>1. Settled => Settled'
        BY SettledStays
    <2>q. QED BY <1>2, <2>1 DEF Ready
<1>q. QED BY <1>1, <1>2

\* What a step does to the stream, for a view that is open after it.
Listens == listened <=> view.open

LEMMA StreamMoves ==
    ASSUME TypeOK, Store, Lists, Listens, [Next]_vars
    PROVE  /\ Listens'
           /\ \/ ~view'.open
              \/ view.open /\ UNCHANGED <<requests, changes, target, update>>
              \/ requests' = <<>> /\ changes' = <<>> /\ target' = NoTarget
              \/ requests' = Append(requests, "watch") /\ target'.outstanding > 0
              \/ view.open /\ WatchChange
              \/ view.open /\ (TakesRequest \/ CatchesUp)
<1> USE DEF storeVars, wireVars
<1>1. view \in ViewTypes /\ listened \in BOOLEAN /\ target \in TargetTypes
      /\ requests \in Seq({"watch", "unwatch"})
    BY TypeParts DEF RestTypes, StoreTypes
<1>2. view'.open \in BOOLEAN
    <2>1. view' \in ViewTypes
        BY ViewStep
    <2>q. QED BY <2>1 DEF ViewTypes
<1> DEFINE Still == view.open /\ UNCHANGED <<requests, changes, target, update>>
           Cut == requests' = <<>> /\ changes' = <<>> /\ target' = NoTarget
           Asked == requests' = Append(requests, "watch") /\ target'.outstanding > 0
\* Only a task opens or closes the view.
<1>3. ~RunTask => (view'.open => view.open)
    BY OpenStep
<1>4. ASSUME ~RunTask, UNCHANGED listened, view.open = view'.open PROVE Listens'
    BY <1>4 DEF Listens
<1>5. Send("watch") => Asked
    BY <1>1 DEF Send, TargetTypes
<1>6. stream # "open" => requests = <<>> /\ changes = <<>> /\ target = NoTarget
    BY DEF Store, Wire
<1>7. CASE GetDocument \/ Callback \/ Write \/ Acknowledged
    <2>1. UNCHANGED <<listened, requests, changes, target, update>>
        BY <1>7 DEF GetDocument, Callback, Write, Acknowledged
    <2>2. view'.open = view.open
        <3>1. view' = view \/ \E new : view' = Updated(view, new)
            BY <1>7 DEF GetDocument, Callback, Write, Acknowledged, viewVars, Show
        <3>2. \A new : Updated(view, new).open = view.open
            BY <1>1 DEF Updated, ViewTypes
        <3>q. QED BY <3>1, <3>2
    <2>q. QED BY <1>1, <1>2, <2>1, <2>2 DEF Listens
<1>8. CASE RunTask
    <2>1. CASE Head(tasks).op = "add"
        <3>1. /\ IF view.open THEN view' = view /\ UNCHANGED <<storeVars, wireVars>>
                 ELSE view'.open /\ Listen
            BY <1>8, <2>1 DEF RunTask, AddListener
        <3>2. CASE view.open
            BY <3>1, <3>2 DEF Listens
        <3>3. CASE ~view.open
            <4>1. listened' = TRUE
                BY <3>1, <3>3 DEF Listen
            <4>2. CASE enabled /\ stream = "stopped"
                <5>1. FreshAggregator /\ UNCHANGED <<requests, changes>>
                    BY <3>1, <3>3, <4>2 DEF Listen
                <5>q. QED BY <1>6, <3>1, <3>3, <4>1, <4>2, <5>1 DEF FreshAggregator, Listens
            <4>3. CASE stream = "open"
                <5>1. Send("watch")
                    BY <3>1, <3>3, <4>3 DEF Listen
                <5>q. QED BY <1>5, <3>1, <3>3, <4>1, <5>1 DEF Listens
            <4>4. CASE ~(enabled /\ stream = "stopped") /\ stream # "open"
                <5>1. UNCHANGED <<target, requests, changes>>
                    BY <3>1, <3>3, <4>4 DEF Listen
                <5>q. QED BY <1>6, <3>1, <3>3, <4>1, <4>4, <5>1 DEF Listens
            <4>q. QED BY <4>2, <4>3, <4>4
        <3>q. QED BY <3>2, <3>3
    <2>2. CASE Head(tasks).op # "add"
        <3>1. \/ view' = NoView /\ listened' = FALSE
              \/ view' = view /\ UNCHANGED <<storeVars, wireVars>>
            BY <1>8, <2>2 DEF RunTask, RemoveListener, StopListening
        <3>2. ~NoView.open
            BY DEF NoView
        <3>q. QED BY <3>1, <3>2 DEF Listens
    <2>q. QED BY <2>1, <2>2
<1>9. CASE StreamOpens
    <2>1. UNCHANGED <<view, listened>>
          /\ IF listened THEN Send("watch") ELSE UNCHANGED <<target, update, requests, changes>>
        BY <1>9 DEF StreamOpens, viewVars
    <2>q. QED BY <1>5, <2>1 DEF Listens
<1>10. CASE StreamFails \/ IdleTimeout \/ DisableNetwork \/ RestartNetwork
    <2>1. Cut
        BY <1>10 DEF StreamFails, IdleTimeout, DisableNetwork, RestartNetwork, StartAgain,
                     Disconnected, FreshAggregator
    <2>2. UNCHANGED listened
        BY <1>10 DEF StreamFails, IdleTimeout, DisableNetwork, RestartNetwork
    <2>3. view'.open = view.open
        <3>1. view' = view \/ \E state : view' = Seen(view, state)
            BY <1>10 DEF StreamFails, IdleTimeout, DisableNetwork, RestartNetwork, viewVars, Show
        <3>q. QED BY <1>1, <3>1, ViewMade
    <2>q. QED BY <2>1, <2>2, <2>3 DEF Listens
<1>11. CASE OnlineTimeout
    <2>1. UNCHANGED <<listened, requests, changes, target, update>>
          /\ view' = Seen(view, "Offline")
        BY <1>11 DEF OnlineTimeout, Show
    <2>2. view'.open = view.open
        BY <1>1, <2>1, ViewMade
    <2>q. QED BY <1>1, <1>2, <2>1, <2>2 DEF Listens
<1>12. CASE EnableNetwork
    <2>1. ~enabled /\ UNCHANGED <<view, listened, requests, changes>> /\ FreshAggregator
        BY <1>12 DEF EnableNetwork, StartAgain, viewVars
    <2>2. stream # "open"
        BY <2>1 DEF Store, Wire
    <2>q. QED BY <1>6, <2>1, <2>2 DEF FreshAggregator, Listens
<1>13. CASE WatchChange
    <2>1. UNCHANGED listened
        BY <1>13 DEF WatchChange
    <2>2. view'.open = view.open
        <3>1. CASE Head(changes).type # "snapshot"
            BY <1>13, <3>1 DEF WatchChange, Aggregate, viewVars
        <3>2. CASE Head(changes).type = "snapshot"
            <4>1. RaiseSnapshot
                BY <1>13, <3>2 DEF WatchChange
            <4> DEFINE v == IF (Active /\ target.changed) /\ view.open
                            THEN [view EXCEPT !.current = target.current] ELSE view
            <4>2. v \in ViewTypes /\ v.open = view.open
                BY <1>1 DEF ViewTypes, TargetTypes
            <4>3. view' = v \/ view' = Updated(v, Overlaid(cache', Pending))
                BY <4>1 DEF RaiseSnapshot, Show
            <4> HIDE DEF v
            <4>q. QED BY <4>2, <4>3 DEF Updated, ViewTypes
        <3>q. QED BY <3>1, <3>2
    <2>q. QED BY <1>13, <2>1, <2>2, <1>1, <1>2 DEF Listens
<1>14. CASE TakesRequest \/ CatchesUp
    <2>1. UNCHANGED <<listened, view>>
        BY <1>14 DEF TakesRequest, CatchesUp, serverFrame, viewVars
    <2>q. QED BY <1>1, <1>14, <2>1 DEF Listens, ViewTypes
<1>15. CASE OtherWrites \/ AppliesWrite \/ UNCHANGED vars
    <2>1. UNCHANGED <<listened, view, requests, changes, target, update>>
        BY <1>15 DEF OtherWrites, AppliesWrite, serverFrame, viewVars, vars
    <2>q. QED BY <1>1, <2>1 DEF Listens, ViewTypes
<1>q. QED BY <1>7, <1>8, <1>9, <1>10, <1>11, <1>12, <1>13, <1>14, <1>15 DEF Next

\* The last request the server has not taken is the watch of the view.
LastWatch == view.open /\ requests # <<>> => requests[Len(requests)] = "watch"

\* What is on its way after the last answer is of the listen of the view.
Brings ==
    view.open /\ requests = <<>> =>
        \A m \in 1..Len(changes) : Final(changes, m) =>
            /\ changes[m].type = "document" =>
                  changes[m].version > 0 /\ changes[m].version >= view.since
            /\ changes[m].type = "current" =>
                  \/ Ready
                  \/ \E j \in 1..Len(changes) :
                        j < m /\ changes[j].type = "document" /\ Final(changes, j)

\* A snapshot that would make the view current has what it needs.
Turns ==
    view.open /\ target.outstanding = 0 /\ target.current /\ target.changed => Ready

Current == view.open /\ view.current => Settled

Stream == Listens /\ LastWatch /\ Brings /\ Turns /\ Current

LEMMA NothingOutstanding ==
    ASSUME TypeOK, Store
    PROVE  target.outstanding = 0 <=>
              requests = <<>> /\ \A j \in 1..Len(changes) : ~IsAnswer(changes[j])
<1>1. /\ target.outstanding = Len(requests) + Cardinality(AnswersIn(changes))
      /\ requests \in Seq({"watch", "unwatch"}) /\ changes \in Seq(ChangeTypes)
    BY DEF Store, Wire, StoreTypes
<1>2. IsFiniteSet(AnswersIn(changes)) /\ Cardinality(AnswersIn(changes)) \in Nat
    BY <1>1, AnswersFinite
<1>3. Cardinality(AnswersIn(changes)) = 0 <=> AnswersIn(changes) = {}
    BY <1>2, FS_EmptySet
<1>4. AnswersIn(changes) = {} <=> \A j \in 1..Len(changes) : ~IsAnswer(changes[j])
    BY DEF AnswersIn
<1>5. Len(requests) \in Nat /\ (Len(requests) = 0 <=> requests = <<>>)
    BY <1>1
<1> DEFINE n == Cardinality(AnswersIn(changes))
<1>6. n \in Nat /\ target.outstanding = Len(requests) + n
    BY <1>1, <1>2
<1> HIDE DEF n
<1>7. target.outstanding = 0 <=> Len(requests) = 0 /\ n = 0
    BY <1>5, <1>6
<1>q. QED BY <1>3, <1>4, <1>5, <1>7 DEF n

\* A document that arrives is taken when nothing is outstanding, and is then
\* one of the listen of the view.
LEMMA DocumentArrives ==
    ASSUME TypeOK, Store, Listens, Brings, view.open, WatchChange,
           changes[1].type = "document", requests = <<>>, Final(changes, 1)
    PROVE  update' > 0 /\ update' >= view.since
<1>1. changes # <<>> /\ changes \in Seq(ChangeTypes)
    BY DEF WatchChange, TypeOK, ChangeTypes
<1>2. Head(changes) = changes[1] /\ 1 \in 1..Len(changes)
    BY <1>1
<1>3. target.outstanding = 0
    <2>1. \A j \in 1..Len(changes) : j = 1 \/ j > 1
        BY <1>1
    <2>2. \A j \in 1..Len(changes) : ~IsAnswer(changes[j])
        BY <2>1 DEF Final, IsAnswer
    <2>q. QED BY <2>2, NothingOutstanding
<1>4. Active
    BY <1>3 DEF Active, Listens
<1>5. Aggregate(Head(changes))
    BY <1>2 DEF WatchChange
<1>6. update' = changes[1].version
    BY <1>2, <1>4, <1>5 DEF Aggregate
<1>7. changes[1].version > 0 /\ changes[1].version >= view.since
    BY <1>2 DEF Brings
<1>q. QED BY <1>6, <1>7

\* What was ready stays so when something arrives.
LEMMA ReadyArrives ==
    ASSUME TypeOK, TypeOK', Store, Listens, Brings, Lists, Honest, Guess, [Next]_vars,
           view.open, view'.open, view'.since = view.since, WatchChange, Ready
    PROVE  Ready'
<1>1. CASE RaiseSnapshot \/ UNCHANGED update
    BY <1>1, ReadyStays
<1>2. CASE ~RaiseSnapshot /\ update' # update
    <2>1. changes # <<>> /\ changes \in Seq(ChangeTypes)
        BY DEF WatchChange, TypeOK, ChangeTypes
    <2>2. Head(changes) = changes[1]
        BY <2>1
    <2>3. Aggregate(Head(changes))
        BY <1>2 DEF WatchChange
    <2>4. changes[1].type = "document" /\ Active
        BY <1>2, <2>2, <2>3 DEF Aggregate
    <2>5. requests = <<>> /\ Final(changes, 1)
        BY <2>4, NothingOutstanding DEF Active, Final
    <2>6. update' > 0 /\ update' >= view.since
        BY <2>4, <2>5, DocumentArrives
    <2>q. QED BY <2>6 DEF Ready
<1>q. QED BY <1>1, <1>2

\* What the server takes or adds is of the listen of the view.
LEMMA BringsServed ==
    ASSUME TypeOK, TypeOK', Store, Lists, Honest, Guess, ServerAhead, LastWatch, Brings,
           [Next]_vars, view.open, TakesRequest \/ CatchesUp
    PROVE  LastWatch' /\ Brings'
<1>1. UNCHANGED <<view, cache, version, update>>
    BY DEF TakesRequest, CatchesUp, serverFrame, storeVars, viewVars
<1>2. /\ requests \in Seq({"watch", "unwatch"}) /\ changes \in Seq(ChangeTypes)
      /\ version \in Int /\ version >= 0 /\ view.since \in Int /\ cache.version \in Int
      /\ view.since <= version
    BY ServerNumbers, TypeParts DEF StoreTypes, ServerAhead
<1>3. PICK s \in Seq(ChangeTypes) :
         /\ changes' = changes \o s
         /\ \/ UNCHANGED requests /\ Brought(s, version)
               /\ \A m \in 1..Len(s) : s[m].type # "current"
            \/ /\ requests # <<>> /\ requests' = Tail(requests) /\ Head(requests) = "watch"
               /\ Brought(s, version) /\ Len(s) > 0 /\ IsAnswer(s[1])
            \/ requests # <<>> /\ requests' = Tail(requests) /\ Head(requests) # "watch"
    <2>1. \E s \in Seq(ChangeTypes) :
             /\ changes' = changes \o s
             /\ \/ UNCHANGED requests /\ Brought(s, version)
                   /\ \A m \in 1..Len(s) : s[m].type # "current"
                \/ /\ requests # <<>> /\ requests' = Tail(requests) /\ Head(requests) = "watch"
                   /\ Brought(s, version) /\ Len(s) > 0 /\ IsAnswer(s[1])
                \/ requests # <<>> /\ requests' = Tail(requests) /\ Head(requests) # "watch"
        BY Answered
    <2>q. QED BY <2>1
<1>4. LastWatch'
    <2>1. requests' # <<>> =>
             requests # <<>> /\ requests'[Len(requests')] = requests[Len(requests)]
        <3>1. CASE UNCHANGED requests
            BY <3>1
        <3>2. CASE requests # <<>> /\ requests' = Tail(requests)
            BY <1>2, <3>2
        <3>q. QED BY <1>3, <3>1, <3>2
    <2>q. QED BY <1>1, <2>1 DEF LastWatch
<1>5. /\ Len(changes) \in Nat /\ Len(s) \in Nat /\ Len(changes') = Len(changes) + Len(s)
      /\ \A i \in 1..Len(changes) : changes'[i] = changes[i] /\ i \in 1..Len(changes')
      /\ \A i \in 1..Len(s) : changes'[i + Len(changes)] = s[i]
                              /\ i + Len(changes) \in 1..Len(changes')
    BY <1>2, <1>3
\* A position after the last answer stays one, seen from either part.
<1>6. ASSUME NEW m \in 1..Len(changes), Final(changes', m) PROVE Final(changes, m)
    BY <1>5, <1>6 DEF Final
<1>7. ASSUME NEW m \in 1..Len(s), Final(changes', m + Len(changes)) PROVE Final(s, m)
    <2>1. \A j \in 1..Len(s) : j > m => j + Len(changes) > m + Len(changes)
        BY <1>5
    <2>q. QED BY <1>5, <1>7, <2>1 DEF Final
<1>8. ASSUME NEW j \in 1..Len(s), Final(s, j) PROVE Final(changes', j + Len(changes))
    <2>1. ASSUME NEW k \in 1..Len(changes'), k > j + Len(changes) PROVE ~IsAnswer(changes'[k])
        <3>1. k - Len(changes) \in 1..Len(s) /\ k - Len(changes) > j
              /\ (k - Len(changes)) + Len(changes) = k
            BY <1>5, <2>1
        <3>q. QED BY <1>5, <1>8, <3>1 DEF Final
    <2>q. QED BY <2>1 DEF Final
<1>9. ASSUME NEW j \in 1..Len(changes), Final(changes, j), \A k \in 1..Len(s) : ~IsAnswer(s[k])
      PROVE  Final(changes', j)
    <2>1. ASSUME NEW k \in 1..Len(changes'), k > j PROVE ~IsAnswer(changes'[k])
        <3>1. CASE k \in 1..Len(changes)
            BY <1>5, <1>9, <2>1, <3>1 DEF Final
        <3>2. CASE ~(k \in 1..Len(changes))
            <4>1. k - Len(changes) \in 1..Len(s) /\ (k - Len(changes)) + Len(changes) = k
                BY <1>5, <3>2
            <4>q. QED BY <1>5, <1>9, <4>1
        <3>q. QED BY <3>1, <3>2
    <2>q. QED BY <2>1 DEF Final
\* A new message.
<1>10. ASSUME NEW m \in 1..Len(s), Final(changes', m + Len(changes)), Brought(s, version)
       PROVE  /\ s[m].type = "document" => s[m].version > 0 /\ s[m].version >= view.since
              /\ s[m].type = "current" =>
                    \/ Ready
                    \/ \E j \in 1..Len(changes') :
                         j < m + Len(changes) /\ changes'[j].type = "document"
                         /\ Final(changes', j)
    <2>1. Final(s, m)
        BY <1>7, <1>10
    <2>2. s[m].type = "document" => s[m].version > 0 /\ s[m].version >= view.since
        <3>1. s[m].type = "document" => s[m].version = version /\ version > 0
            BY <1>10, <2>1 DEF Brought
        <3>2. version >= view.since
            BY <1>2
        <3>q. QED BY <3>1, <3>2
    <2>3. ASSUME s[m].type = "current", version = 0 PROVE Ready
        <3>1. view.doc.kind # "committed"
            BY <1>2, <2>3 DEF Guess
        <3>2. cache.version >= view.since
            <4>1. cache.version \in Versions
                BY TypeParts DEF RestTypes, CacheTypes
            <4>2. cache.version >= 0
                BY <4>1 DEF Versions
            <4>q. QED BY <1>2, <2>3, <4>2
        <3>q. QED BY <3>1, <3>2 DEF Ready, Settled
    <2>4. ASSUME NEW j \in 1..Len(s), j < m, s[j].type = "document", Final(s, j)
          PROVE  \E i \in 1..Len(changes') :
                    i < m + Len(changes) /\ changes'[i].type = "document" /\ Final(changes', i)
        <3>1. j + Len(changes) \in 1..Len(changes') /\ changes'[j + Len(changes)] = s[j]
            BY <1>5
        <3>2. j + Len(changes) < m + Len(changes)
            BY <1>5, <2>4
        <3>3. Final(changes', j + Len(changes))
            BY <1>8, <2>4
        <3>q. QED BY <2>4, <3>1, <3>2, <3>3
    <2>5. s[m].type = "current" =>
             version = 0 \/ \E j \in 1..Len(s) : j < m /\ s[j].type = "document" /\ Final(s, j)
        BY <1>10, <2>1 DEF Brought
    <2>q. QED BY <2>2, <2>3, <2>4, <2>5
<1>11. Ready' <=> Ready
    BY <1>1 DEF Ready, Settled
<1>12. SUFFICES ASSUME requests' = <<>>, NEW m \in 1..Len(changes'), Final(changes', m)
       PROVE  /\ changes'[m].type = "document" =>
                    changes'[m].version > 0 /\ changes'[m].version >= view.since
              /\ changes'[m].type = "current" =>
                    \/ Ready
                    \/ \E j \in 1..Len(changes') :
                          j < m /\ changes'[j].type = "document" /\ Final(changes', j)
    BY <1>1, <1>4, <1>11 DEF Brings
<1>13. Head(requests) = "watch" \/ UNCHANGED requests
    <2>1. CASE requests # <<>> /\ requests' = Tail(requests)
        <3>1. Len(requests) = 1 /\ Head(requests) = requests[Len(requests)]
            <4>1. Len(Tail(requests)) = 0
                <5>1. Tail(requests) = <<>>
                    BY <1>12, <2>1, Zenon
                <5>2. Len(<<>>) = 0
                    OBVIOUS
                <5>q. QED BY <5>1, <5>2, Zenon
            <4>2. Len(requests) = 1
                BY <1>2, <2>1, <4>1
            <4>3. Head(requests) = requests[1]
                BY <1>2, <2>1
            <4>q. QED BY <4>2, <4>3
        <3>q. QED BY <2>1, <3>1 DEF LastWatch
    <2>q. QED BY <1>3, <2>1
<1>14. CASE m > Len(changes)
    <2>1. m - Len(changes) \in 1..Len(s) /\ (m - Len(changes)) + Len(changes) = m
        BY <1>5, <1>14
    <2>2. PICK k \in 1..Len(s) : k + Len(changes) = m
        BY <2>1
    <2>3. Brought(s, version)
        BY <1>3, <1>13, <1>12
    <2>4. changes'[m] = s[k]
        BY <1>5, <2>2
    <2>q. QED BY <1>10, <1>12, <2>2, <2>3, <2>4
<1>15. CASE ~(m > Len(changes))
    <2>1. m \in 1..Len(changes)
        BY <1>5, <1>15
    <2>2. Final(changes, m)
        BY <1>6, <1>12, <2>1
    \* An answer among the new messages would come after this one.
    <2>3. \A k \in 1..Len(s) : ~IsAnswer(s[k])
        <3>1. ASSUME NEW k \in 1..Len(s) PROVE ~IsAnswer(s[k])
            <4>1. k + Len(changes) > m
                BY <1>5, <2>1
            <4>q. QED BY <1>5, <1>12, <4>1 DEF Final
        <3>q. QED BY <3>1
    <2>4. UNCHANGED requests
        <3>1. ASSUME Len(s) > 0, IsAnswer(s[1]) PROVE FALSE
            <4>1. 1 \in 1..Len(s)
                BY <1>5, <3>1
            <4>q. QED BY <2>3, <3>1, <4>1
        <3>q. QED BY <1>3, <1>13, <3>1
    <2>5. /\ changes[m].type = "document" =>
                changes[m].version > 0 /\ changes[m].version >= view.since
          /\ changes[m].type = "current" =>
                \/ Ready
                \/ \E j \in 1..Len(changes) :
                      j < m /\ changes[j].type = "document" /\ Final(changes, j)
        BY <1>12, <2>1, <2>2, <2>4 DEF Brings
    <2>6. ASSUME NEW j \in 1..Len(changes), j < m, changes[j].type = "document", Final(changes, j)
          PROVE  \E i \in 1..Len(changes') :
                    i < m /\ changes'[i].type = "document" /\ Final(changes', i)
        <3>1. Final(changes', j)
            BY <1>9, <2>3, <2>6
        <3>q. QED BY <1>5, <2>6, <3>1
    <2>q. QED BY <1>5, <2>1, <2>5, <2>6
<1>q. QED BY <1>14, <1>15

LEMMA BringsStep ==
    ASSUME TypeOK, TypeOK', Store, Lists, Honest, Guess, ServerAhead, Stream, [Next]_vars
    PROVE  LastWatch' /\ Brings'
<1>1. CASE ~view'.open
    BY <1>1 DEF LastWatch, Brings
<1>2. CASE view'.open /\ view.open
    <2>1. view'.since = view.since
        BY <1>2, OpenStep
    <2>2. /\ changes \in Seq(ChangeTypes) /\ requests \in Seq({"watch", "unwatch"})
        BY ServerNumbers, TypeParts DEF StoreTypes
    <2>3. CASE UNCHANGED <<requests, changes, target, update>>
        <3>1. Ready => Ready'
            BY <1>2, <2>1, <2>3, ReadyStays
        <3>q. QED BY <1>2, <2>1, <2>3, <3>1 DEF Stream, LastWatch, Brings
    <2>4. CASE requests' = <<>> /\ changes' = <<>> /\ target' = NoTarget
        BY <2>4 DEF LastWatch, Brings
    <2>5. CASE requests' = Append(requests, "watch")
        <3>1. requests' # <<>> /\ requests'[Len(requests')] = "watch"
            BY <2>2, <2>5
        <3>q. QED BY <3>1 DEF LastWatch, Brings
    <2>6. CASE WatchChange
        <3>1. changes # <<>> /\ changes' = Tail(changes) /\ UNCHANGED requests
            BY <2>6 DEF WatchChange
        <3>2. /\ Len(changes) \in Nat /\ Len(changes') = Len(changes) - 1
              /\ \A i \in 1..Len(changes') :
                    changes'[i] = changes[i + 1] /\ i + 1 \in 1..Len(changes)
            BY <2>2, <3>1
        <3>3. LastWatch'
            BY <1>2, <3>1 DEF Stream, LastWatch
        \* Positions move up by one.
        <3>4. ASSUME NEW m \in 1..Len(changes'), Final(changes', m) PROVE Final(changes, m + 1)
            <4>1. ASSUME NEW k \in 1..Len(changes), k > m + 1 PROVE ~IsAnswer(changes[k])
                <5>1. k - 1 \in 1..Len(changes') /\ k - 1 > m /\ (k - 1) + 1 = k
                    BY <3>2, <4>1
                <5>2. changes'[k - 1] = changes[k]
                    BY <3>2, <5>1
                <5>q. QED BY <3>4, <5>1, <5>2 DEF Final
            <4>q. QED BY <4>1 DEF Final
        <3>5. ASSUME NEW j \in 1..Len(changes), j > 1, Final(changes, j)
              PROVE  j - 1 \in 1..Len(changes') /\ changes'[j - 1] = changes[j] /\ Final(changes', j - 1)
            <4>1. j - 1 \in 1..Len(changes') /\ (j - 1) + 1 = j
                BY <3>2, <3>5
            <4>2. changes'[j - 1] = changes[j]
                BY <3>2, <4>1
            <4>3. ASSUME NEW k \in 1..Len(changes'), k > j - 1 PROVE ~IsAnswer(changes'[k])
                <5>1. k + 1 \in 1..Len(changes) /\ k + 1 > j /\ changes'[k] = changes[k + 1]
                    BY <3>2, <3>5, <4>3
                <5>q. QED BY <3>5, <5>1 DEF Final
            <4>q. QED BY <4>1, <4>2, <4>3 DEF Final
        <3>6. Ready => Ready'
            BY <1>2, <2>1, <2>6, ReadyArrives DEF Stream
        <3>7. ASSUME requests' = <<>>, NEW m \in 1..Len(changes'), Final(changes', m)
              PROVE  /\ changes'[m].type = "document" =>
                           changes'[m].version > 0 /\ changes'[m].version >= view'.since
                     /\ changes'[m].type = "current" =>
                           \/ Ready'
                           \/ \E j \in 1..Len(changes') :
                                 j < m /\ changes'[j].type = "document" /\ Final(changes', j)
            <4>1. /\ m + 1 \in 1..Len(changes) /\ changes'[m] = changes[m + 1]
                  /\ Final(changes, m + 1) /\ requests = <<>>
                BY <3>1, <3>2, <3>4, <3>7
            <4>2. /\ changes[m + 1].type = "document" =>
                        changes[m + 1].version > 0 /\ changes[m + 1].version >= view.since
                  /\ changes[m + 1].type = "current" =>
                        \/ Ready
                        \/ \E j \in 1..Len(changes) :
                              j < m + 1 /\ changes[j].type = "document" /\ Final(changes, j)
                BY <1>2, <4>1 DEF Stream, Brings
            <4>3. ASSUME NEW j \in 1..Len(changes), j < m + 1, changes[j].type = "document",
                         Final(changes, j)
                  PROVE  \/ Ready'
                         \/ \E i \in 1..Len(changes') :
                               i < m /\ changes'[i].type = "document" /\ Final(changes', i)
                <5>1. CASE j = 1
                    <6>1. update' > 0 /\ update' >= view.since
                        BY <1>2, <2>6, <4>1, <4>3, <5>1, DocumentArrives DEF Stream
                    <6>q. QED BY <2>1, <6>1 DEF Ready
                <5>2. CASE j # 1
                    <6>1. j > 1
                        BY <5>2
                    <6>2. j - 1 \in 1..Len(changes') /\ changes'[j - 1] = changes[j]
                          /\ Final(changes', j - 1)
                        BY <3>5, <4>3, <6>1
                    <6>3. j - 1 < m
                        BY <4>3
                    <6>q. QED BY <4>3, <6>2, <6>3
                <5>q. QED BY <5>1, <5>2
            <4>q. QED BY <2>1, <3>6, <4>1, <4>2, <4>3
        <3>q. QED BY <3>3, <3>7 DEF Brings
    <2>7. CASE TakesRequest \/ CatchesUp
        BY <1>2, <2>7, BringsServed DEF Stream
    <2>q. QED BY <1>2, <2>3, <2>4, <2>5, <2>6, <2>7, StreamMoves DEF Stream
<1>3. CASE view'.open /\ ~view.open
    <2>1. requests \in Seq({"watch", "unwatch"})
        BY TypeParts DEF StoreTypes
    <2>2. CASE requests' = <<>> /\ changes' = <<>>
        BY <2>2 DEF LastWatch, Brings
    <2>3. CASE requests' = Append(requests, "watch")
        <3>1. requests' # <<>> /\ requests'[Len(requests')] = "watch"
            BY <2>1, <2>3
        <3>q. QED BY <3>1 DEF LastWatch, Brings
    <2>q. QED BY <1>3, <2>2, <2>3, StreamMoves DEF Stream
<1>4. view'.open \in BOOLEAN /\ view.open \in BOOLEAN
    BY DEF TypeOK
<1>q. QED BY <1>1, <1>2, <1>3, <1>4

LEMMA TurnsStep ==
    ASSUME TypeOK, TypeOK', Store, Lists, Honest, Guess, Stream, [Next]_vars
    PROVE  Turns'
<1>1. SUFFICES ASSUME view'.open, target'.outstanding = 0, target'.current, target'.changed
               PROVE  Ready'
    BY DEF Turns
<1>2. target' # NoTarget
    BY <1>1 DEF NoTarget
<1>3. view.open /\ view'.since = view.since
    <2>1. view.open
        BY <1>1, <1>2, StreamMoves DEF Stream
    <2>q. QED BY <1>1, <2>1, OpenStep
<1>4. CASE UNCHANGED target /\ UNCHANGED update
    BY <1>1, <1>3, <1>4, ReadyStays DEF Stream, Turns
<1>5. CASE TakesRequest \/ CatchesUp
    BY <1>4, <1>5 DEF TakesRequest, CatchesUp, serverFrame, storeVars
<1>6. CASE WatchChange
    <2>1. Ready => Ready'
        BY <1>1, <1>3, <1>6, ReadyArrives DEF Stream
    <2>2. changes # <<>> /\ changes \in Seq(ChangeTypes) /\ target \in TargetTypes
        BY <1>6, TypeParts DEF WatchChange, StoreTypes
    <2>3. Head(changes) = changes[1] /\ 1 \in 1..Len(changes)
        BY <2>2
    <2>4. CASE Head(changes).type = "snapshot"
        <3>1. RaiseSnapshot
            BY <1>6, <2>4 DEF WatchChange
        <3>2. target.outstanding = target'.outstanding /\ target.current = target'.current
              /\ (target'.changed => target.changed)
            BY <2>2, <3>1 DEF RaiseSnapshot, TargetTypes
        <3>3. Ready
            BY <1>1, <1>3, <3>2 DEF Stream, Turns
        <3>q. QED BY <2>1, <3>3
    <2>5. CASE Head(changes).type # "snapshot"
        <3> DEFINE change == Head(changes)
        <3>1. Aggregate(change)
            BY <1>6, <2>5 DEF WatchChange
        <3>2. CASE change.type = "added"
            <4>1. target' = [target EXCEPT !.outstanding = @ - 1,
                                           !.changed = @ /\ target.outstanding # 1]
                BY <3>1, <3>2 DEF Aggregate
            <4>2. target'.outstanding = target.outstanding - 1
                  /\ (target'.changed => target.outstanding # 1)
                BY <2>2, <4>1 DEF TargetTypes
            <4>3. target.outstanding \in Nat
                BY <2>2 DEF TargetTypes
            <4>q. QED BY <1>1, <4>2, <4>3
        <3>3. CASE change.type = "removed"
            <4>1. target' = [target EXCEPT !.outstanding = @ - 1] /\ target.outstanding # 1
                BY <1>2, <3>1, <3>3 DEF Aggregate
            <4>2. target'.outstanding = target.outstanding - 1
                BY <2>2, <4>1 DEF TargetTypes
            <4>3. target.outstanding \in Nat
                BY <2>2 DEF TargetTypes
            <4>q. QED BY <1>1, <4>1, <4>2, <4>3
        <3>4. CASE change.type = "current" /\ Active
            <4>1. requests = <<>> /\ Final(changes, 1)
                BY <3>4, NothingOutstanding DEF Active, Final
            <4>2. \/ Ready
                  \/ \E j \in 1..Len(changes) : j < 1
                BY <1>3, <2>3, <3>4, <4>1 DEF Stream, Brings
            <4>3. Ready
                BY <4>2
            <4>q. QED BY <2>1, <4>3
        <3>5. CASE change.type = "document" /\ Active
            <4>1. requests = <<>> /\ Final(changes, 1)
                BY <3>5, NothingOutstanding DEF Active, Final
            <4>2. update' > 0 /\ update' >= view.since
                BY <1>3, <1>6, <2>3, <3>5, <4>1, DocumentArrives DEF Stream
            <4>q. QED BY <1>3, <4>2 DEF Ready
        <3>6. CASE /\ change.type \notin {"added", "removed"}
                   /\ ~(change.type = "current" /\ Active)
                   /\ ~(change.type = "document" /\ Active)
            <4>1. UNCHANGED <<target, update>>
                BY <3>1, <3>6 DEF Aggregate
            <4>q. QED BY <1>4, <4>1
        <3>q. QED BY <3>2, <3>3, <3>4, <3>5, <3>6
    <2>q. QED BY <2>4, <2>5
<1>7. CASE target'.outstanding > 0
    BY <1>1, <1>7
<1>q. QED BY <1>1, <1>2, <1>4, <1>5, <1>6, <1>7, StreamMoves DEF Stream

LEMMA CurrentStep ==
    ASSUME TypeOK, TypeOK', Store, Lists, Honest, Guess, Stream, [Next]_vars
    PROVE  Current'
<1>1. SUFFICES ASSUME view'.open, view'.current PROVE Settled'
    BY DEF Current
<1>2. CASE view.open /\ view'.since = view.since /\ view.current
    <2>1. Settled
        BY <1>2 DEF Stream, Current
    <2>q. QED BY <1>1, <1>2, <2>1, SettledStays
<1>3. CASE /\ view.open /\ view'.since = view.since
           /\ RaiseSnapshot /\ Active /\ target.changed /\ target.current
    <2>1. Ready
        BY <1>3 DEF Stream, Turns, Active
    <2>q. QED BY <1>1, <1>3, <2>1, ReadySettles
<1>q. QED BY <1>1, <1>2, <1>3, OpenStep

\* What keeps the events on the main queue fresh.
FreshReads ==
    ReadsAreFresh /\ Honest /\ ServerAhead /\ Guess /\ Stream

LEMMA FreshReadsStep ==
    ASSUME TypeOK, TypeOK', Store, Lists, FreshReads, [Next]_vars
    PROVE  FreshReads'
<1>1. Honest /\ ServerAhead /\ Guess /\ Stream
    BY DEF FreshReads
<1>2. Honest' /\ ServerAhead'
    BY <1>1, HonestStep, ServerAheadStep
<1>3. Guess'
    BY <1>1, <1>2, GuessStep
<1>4. Listens' /\ LastWatch' /\ Brings' /\ Turns' /\ Current'
    BY <1>1, StreamMoves, BringsStep, TurnsStep, CurrentStep DEF Stream
<1> DEFINE Good(event) ==
        ~event.fromCache /\ event.doc.kind # "local" =>
            event.doc.version >= event.since /\ event.doc.kind = "plain"
<1>5. /\ mainQueue \in Seq(EventTypes) /\ mainQueue' \in Seq(EventTypes)
      /\ view'.open \in BOOLEAN
      /\ view'.doc.kind \in {"plain", "committed", "local"} /\ view'.current \in BOOLEAN
    BY DEF TypeOK, EventTypes, Documents
<1>6. \A i \in 1..Len(mainQueue) : Good(mainQueue[i])
    <2>1. DOMAIN mainQueue = 1..Len(mainQueue)
        BY <1>5
    <2>q. QED BY <2>1 DEF FreshReads, ReadsAreFresh
<1>7. SUFFICES \A i \in 1..Len(mainQueue') : Good(mainQueue'[i])
    <2>1. DOMAIN mainQueue' = 1..Len(mainQueue')
        BY <1>5
    <2>q. QED BY <1>2, <1>3, <1>4, <2>1 DEF FreshReads, ReadsAreFresh, Stream
<1>8. CASE Callback
    <2>1. mainQueue # <<>> /\ mainQueue' = Tail(mainQueue)
        BY <1>8 DEF Callback
    <2>2. \A i \in 1..Len(mainQueue') :
             mainQueue'[i] = mainQueue[i + 1] /\ i + 1 \in 1..Len(mainQueue)
        BY <1>5, <2>1
    <2> HIDE DEF Good
    <2>q. QED BY <1>6, <2>2
<1>9. CASE ~Callback
    <2>1. Tells(listeners')
        BY <1>9, ViewStep
    <2>2. ASSUME NEW i \in 1..Len(mainQueue'), ~(i <= Len(mainQueue))
          PROVE  Good(mainQueue'[i])
        <3>1. PICK r \in listeners' : mainQueue'[i] = Event(r, view')
            BY <1>5, <2>1, <2>2 DEF Tells
        <3>2. view'.open
            BY <3>1, DocumentStep DEF Lists
        <3>3. /\ Event(r, view').fromCache = ~view'.current /\ Event(r, view').doc = view'.doc
              /\ Event(r, view').since = view'.since
            BY DEF Event
        <3>4. ASSUME view'.current, view'.doc.kind # "local"
              PROVE  view'.doc.version >= view'.since /\ view'.doc.kind = "plain"
            <4>1. cache'.version >= view'.since /\ view'.doc.kind # "committed"
                BY <1>4, <3>2, <3>4 DEF Current, Settled
            <4>2. view'.doc = cache'
                BY <1>2, <3>2, <3>4 DEF Honest
            <4>q. QED BY <1>5, <3>4, <4>1, <4>2
        <3>q. QED BY <1>5, <3>1, <3>3, <3>4
    <2>3. ASSUME NEW i \in 1..Len(mainQueue'), i <= Len(mainQueue)
          PROVE  Good(mainQueue'[i])
        <3>1. i \in 1..Len(mainQueue)
            BY <1>5, <2>3
        <3>2. mainQueue'[i] = mainQueue[i]
            BY <2>1, <3>1 DEF Tells
        <3> HIDE DEF Good
        <3>q. QED BY <1>6, <3>1, <3>2
    <2>q. QED BY <1>5, <2>2, <2>3
<1>q. QED BY <1>8, <1>9

LEMMA FreshReadsInit == Init => FreshReads
<1> SUFFICES ASSUME Init PROVE FreshReads
    OBVIOUS
<1>1. /\ ~view.open /\ ~listened /\ version = 0 /\ update = 0 /\ cache = NoDocument
      /\ Len(changes) = 0 /\ Len(writes) = 0 /\ DOMAIN mainQueue = {}
    BY DEF Init, NoView
<1>2. ServerAhead
    BY <1>1 DEF ServerAhead, NoDocument
<1>3. Stream
    BY <1>1 DEF Stream, Listens, LastWatch, Brings, Turns, Current
<1>q. QED BY <1>1, <1>2, <1>3 DEF FreshReads, ReadsAreFresh, Honest, Guess

\* A read that is answered as from the server has at least what the server had
\* when its view was opened, and no guess: answers of an earlier listen, a stale
\* pending document and acknowledgements that overtake the stream cannot make a
\* view current that is not.
THEOREM FreshFromServer == Spec => []ReadsAreFresh
<1>1. TypeOK /\ Store /\ Lists /\ FreshReads /\ [Next]_vars /\ TypeOK' => FreshReads'
    BY FreshReadsStep
<1>2. FreshReads => ReadsAreFresh
    BY DEF FreshReads
<1>q. QED BY Stored, Watched, FreshReadsInit, <1>1, <1>2, PTL DEF Spec

(* ------------------- what a read is promised: queues ------------------- *)

AddAt(i) == tasks[i].op = "add"
RemoveAt(i, r) == tasks[i] = [op |-> "remove", read |-> r]

\* The muted reads are those that were answered, and they were called.
Finished == \A r \in Reads : (r \in muted <=> answers[r] > 0) /\ (r \in muted => r <= called)

\* Listeners are added in the order of the calls: nothing is known yet of a read
\* whose listener is still to be added.
Queued ==
    \A i \in 1..Len(tasks) : AddAt(i) =>
        /\ \A r \in listeners \cup muted : r < tasks[i].read
        /\ \A k \in 1..Len(mainQueue) : mainQueue[k].read < tasks[i].read
        /\ \A j \in 1..(i - 1) : AddAt(j) => tasks[j].read < tasks[i].read

\* A listener that had its callback is to be removed.
Leaving == \A r \in listeners \cap muted : \E i \in 1..Len(tasks) : RemoveAt(i, r)

\* The listeners of a view that is too old for the reads under way were all
\* answered, and are removed before the next one is added.
TooOld == view.open /\ view.since < asOf
Departs == TooOld =>
    \A r \in listeners :
        r \in muted /\ \E i \in 1..Len(tasks) : RemoveAt(i, r) /\ \A j \in 1..i : ~AddAt(j)

\* What was raised for a read under way is of a view that is not.
Promised ==
    /\ asOf <= version
    /\ \A k \in 1..Len(mainQueue) :
         answers[mainQueue[k].read] = 0 => mainQueue[k].since >= asOf

\* Own writes are shown when there are some.
Overlays ==
    /\ view.open /\ view.doc.kind = "local" => writes # <<>>
    /\ \A k \in 1..Len(mainQueue) : mainQueue[k].doc.kind = "local" => writes # <<>>

Conversation == Finished /\ Queued /\ Leaving /\ Departs /\ Promised

\* Where the variables of these are.
LEMMA QueueNumbers ==
    ASSUME TypeOK
    PROVE  /\ tasks \in Seq(TaskTypes) /\ Len(tasks) \in Nat
           /\ \A i \in 1..Len(tasks) : tasks[i] \in TaskTypes /\ tasks[i].read \in Reads
           /\ \A i \in 1..Len(tasks) : tasks[i].read \in Int
           /\ mainQueue \in Seq(EventTypes) /\ Len(mainQueue) \in Nat
           /\ \A k \in 1..Len(mainQueue) : /\ mainQueue[k] \in EventTypes
                                           /\ mainQueue[k].read \in Reads
                                           /\ mainQueue[k].read \in Int
                                           /\ mainQueue[k].since \in Int
           /\ listeners \subseteq Reads /\ muted \subseteq Reads
           /\ \A r \in Reads : r \in Int /\ r >= 1
           /\ called \in Nat /\ called <= MaxReads
           /\ asOf \in Int /\ version \in Int /\ view.since \in Int
           /\ answers \in [Reads -> Nat]
<1>1. /\ tasks \in Seq(TaskTypes) /\ mainQueue \in Seq(EventTypes)
      /\ listeners \subseteq Reads /\ muted \subseteq Reads /\ called \in 0..MaxReads
      /\ asOf \in Versions /\ version \in Versions /\ view \in ViewTypes
      /\ answers \in [Reads -> Nat]
    BY TypeParts DEF RestTypes
<1>2. \A r \in Reads : r \in Int /\ r >= 1
    BY DEF Reads
<1>3. \A t \in TaskTypes : t.read \in Reads
    BY DEF TaskTypes
<1>4. \A e \in EventTypes : e.read \in Reads /\ e.since \in Versions
    BY DEF EventTypes
<1>5. \A n \in Versions : n \in Int
    BY DEF Versions
<1>6. Len(tasks) \in Nat /\ \A i \in 1..Len(tasks) : tasks[i] \in TaskTypes
    BY <1>1
<1>7. Len(mainQueue) \in Nat /\ \A k \in 1..Len(mainQueue) : mainQueue[k] \in EventTypes
    BY <1>1
<1>8. MaxReads \in Nat /\ called \in Nat /\ called <= MaxReads
    BY <1>1, BoundsAssumption
<1>9. view.since \in Versions
    BY <1>1 DEF ViewTypes
<1>q. QED BY <1>1, <1>2, <1>3, <1>4, <1>5, <1>6, <1>7, <1>8, <1>9

\* The steps of the queues.
LEMMA CallMoves ==
    ASSUME TypeOK, GetDocument
    PROVE  /\ called' = called + 1 /\ called + 1 \in Reads
           /\ Len(tasks') = Len(tasks) + 1
           /\ \A i \in 1..Len(tasks) : tasks'[i] = tasks[i]
           /\ tasks'[Len(tasks) + 1] = [op |-> "add", read |-> called + 1]
           /\ UNCHANGED <<listeners, muted, answers, newest, metadata, view, mainQueue,
                          version, writes>>
           /\ wrote' = [wrote EXCEPT ![called + 1] = Len(writes)]
           /\ asOf' = IF \A r \in 1..called : answers[r] > 0 THEN version ELSE asOf
<1>1. /\ called' = called + 1 /\ called < MaxReads
      /\ tasks' = Append(tasks, [op |-> "add", read |-> called + 1])
      /\ UNCHANGED <<listeners, muted, answers, newest, metadata, view, mainQueue,
                     version, writes>>
      /\ wrote' = [wrote EXCEPT ![called + 1] = Len(writes)]
      /\ asOf' = IF \A r \in 1..called : answers[r] > 0 THEN version ELSE asOf
    BY DEF GetDocument, viewVars
<1>2. called + 1 \in Reads
    BY <1>1, QueueNumbers, BoundsAssumption DEF Reads
<1>3. /\ Len(tasks') = Len(tasks) + 1 /\ \A i \in 1..Len(tasks) : tasks'[i] = tasks[i]
      /\ tasks'[Len(tasks) + 1] = [op |-> "add", read |-> called + 1]
    BY <1>1, QueueNumbers
<1>q. QED BY <1>1, <1>2, <1>3

LEMMA TaskMoves ==
    ASSUME TypeOK, Lists, [Next]_vars, RunTask
    PROVE  /\ Len(tasks) > 0 /\ Len(tasks') = Len(tasks) - 1
           /\ \A i \in 1..Len(tasks') : tasks'[i] = tasks[i + 1]
           /\ UNCHANGED <<muted, called, answers, newest, metadata, asOf, version>>
           /\ \/ /\ AddAt(1) /\ listeners' = listeners \cup {tasks[1].read} /\ view'.open
                 /\ view'.since = IF view.open THEN view.since ELSE version
                 /\ Tells({tasks[1].read})
              \/ /\ ~AddAt(1) /\ tasks[1] = [op |-> "remove", read |-> tasks[1].read]
                 /\ listeners' = listeners \ {tasks[1].read}
                 /\ view' = IF listeners' = {} THEN NoView ELSE view
                 /\ UNCHANGED mainQueue
<1>1. /\ tasks \in Seq(TaskTypes) /\ tasks # <<>> /\ tasks' = Tail(tasks)
      /\ UNCHANGED <<muted, called, answers, newest, metadata, asOf, version>>
    BY QueueNumbers DEF RunTask, historyVars
<1>2. /\ Len(tasks) > 0 /\ Len(tasks') = Len(tasks) - 1 /\ Head(tasks) = tasks[1]
      /\ \A i \in 1..Len(tasks') : tasks'[i] = tasks[i + 1]
    BY <1>1
<1>3. tasks[1] \in TaskTypes /\ tasks[1].read \in Reads
    BY <1>2, QueueNumbers
<1>4. CASE AddAt(1)
    <2> DEFINE doc == Overlaid(cache, Pending)
               fresh == [open |-> TRUE, current |-> FALSE, since |-> version, doc |-> doc]
               v == IF view.open THEN view ELSE fresh
               r == tasks[1].read
    <2>1. /\ listeners' = listeners \cup {r} /\ view' = v
          /\ UNCHANGED mainQueue \/ mainQueue' = Append(mainQueue, Event(r, v))
        BY <1>2, <1>4 DEF RunTask, AddListener, AddAt
    <2>2. v.open /\ v.since = IF view.open THEN view.since ELSE version
        OBVIOUS
    <2>3. v \in ViewTypes
        BY <2>1, ViewStep
    <2> HIDE DEF v, r
    <2>4. Tells({r})
        <3>1. r \in Reads
            BY <1>3 DEF r
        <3>q. QED BY <2>1, <2>3, <3>1, QuietTells, OneTells
    <2>q. QED BY <1>1, <1>2, <1>4, <2>1, <2>2, <2>4 DEF r
<1>5. CASE ~AddAt(1)
    <2>1. tasks[1] = [op |-> "remove", read |-> tasks[1].read]
        BY <1>3, <1>5 DEF TaskTypes, AddAt
    <2>2. /\ listeners' = listeners \ {tasks[1].read}
          /\ view' = IF listeners' = {} THEN NoView ELSE view
          /\ UNCHANGED mainQueue
        BY <1>2, <1>5 DEF RunTask, RemoveListener, AddAt
    <2>q. QED BY <1>1, <1>2, <1>5, <2>1, <2>2
<1>q. QED BY <1>4, <1>5

LEMMA CallbackMoves ==
    ASSUME TypeOK, Callback
    PROVE  /\ Len(mainQueue) > 0 /\ Len(mainQueue') = Len(mainQueue) - 1
           /\ \A k \in 1..Len(mainQueue') : mainQueue'[k] = mainQueue[k + 1]
           /\ UNCHANGED <<listeners, view, called, wrote, asOf, version, writes>>
           /\ \/ UNCHANGED <<tasks, muted, answers, newest, metadata>>
              \/ \E r \in Reads :
                    /\ r = mainQueue[1].read /\ r \notin muted /\ muted' = muted \cup {r}
                    /\ answers' = [answers EXCEPT ![r] = @ + 1]
                    /\ Len(tasks') = Len(tasks) + 1
                    /\ \A i \in 1..Len(tasks) : tasks'[i] = tasks[i]
                    /\ tasks'[Len(tasks) + 1] = [op |-> "remove", read |-> r]
                    /\ newest' = mainQueue[1].doc.version
                    /\ metadata' = [hasPendingWrites |-> mainQueue[1].doc.kind = "local",
                                    isFromCache |-> mainQueue[1].fromCache]
<1>1. /\ mainQueue \in Seq(EventTypes) /\ mainQueue # <<>> /\ mainQueue' = Tail(mainQueue)
      /\ UNCHANGED <<listeners, view, called, wrote, asOf, version, writes>>
    BY QueueNumbers DEF Callback
<1>2. /\ Len(mainQueue) > 0 /\ Len(mainQueue') = Len(mainQueue) - 1
      /\ \A k \in 1..Len(mainQueue') : mainQueue'[k] = mainQueue[k + 1]
      /\ Head(mainQueue) = mainQueue[1]
    BY <1>1
<1> DEFINE r == mainQueue[1].read
<1>3. r \in Reads
    BY <1>2, QueueNumbers
<1>4. \/ UNCHANGED <<tasks, muted, answers, newest, metadata>>
      \/ /\ r \notin muted /\ muted' = muted \cup {r}
         /\ answers' = [answers EXCEPT ![r] = @ + 1]
         /\ tasks' = Append(tasks, [op |-> "remove", read |-> r])
         /\ newest' = mainQueue[1].doc.version
         /\ metadata' = [hasPendingWrites |-> mainQueue[1].doc.kind = "local",
                         isFromCache |-> mainQueue[1].fromCache]
    BY <1>2 DEF Callback, Muted
<1>5. tasks' = Append(tasks, [op |-> "remove", read |-> r]) =>
        /\ Len(tasks') = Len(tasks) + 1
        /\ \A i \in 1..Len(tasks) : tasks'[i] = tasks[i]
        /\ tasks'[Len(tasks) + 1] = [op |-> "remove", read |-> r]
    BY QueueNumbers
<1>q. QED BY <1>1, <1>2, <1>3, <1>4, <1>5

\* Every other step leaves the reads where they are, and may raise events.
LEMMA OthersMove ==
    ASSUME TypeOK, Lists, [Next]_vars, ~GetDocument, ~RunTask, ~Callback
    PROVE  /\ UNCHANGED <<tasks, listeners, muted, answers, newest, metadata, called, wrote,
                          asOf>>
           /\ Tells(listeners)
           /\ view'.open => view.open /\ view'.since = view.since
           /\ version' \in Int /\ version' >= version
<1>1. UNCHANGED <<tasks, listeners, muted, answers, newest, metadata, called, wrote, asOf>>
    BY QueuesRun
<1>2. Tells(listeners)
    BY <1>1, ViewStep
<1>3. view'.open => view.open /\ view'.since = view.since
    BY OpenStep
<1>4. version' = version \/ version' = version + 1
    BY WhoChanges DEF OtherWrites, AppliesWrite
<1>q. QED BY <1>1, <1>2, <1>3, <1>4, QueueNumbers

LEMMA FinishedStep ==
    ASSUME TypeOK, Lists, Known, Finished, [Next]_vars
    PROVE  Finished'
<1>1. CASE GetDocument
    <2>1. called' = called + 1 /\ UNCHANGED <<muted, answers>>
        BY <1>1, CallMoves
    <2>q. QED BY <2>1, QueueNumbers DEF Finished
<1>2. CASE Callback
    <2>1. CASE UNCHANGED <<muted, answers>>
        BY <1>2, <2>1, CallbackMoves DEF Finished
    <2>2. ASSUME NEW r \in Reads, r = mainQueue[1].read, muted' = muted \cup {r},
                 answers' = [answers EXCEPT ![r] = @ + 1]
          PROVE  Finished'
        <3>1. r <= called /\ UNCHANGED called
            BY <1>2, <2>2, CallbackMoves, QueueNumbers DEF Known
        <3>2. answers[r] \in Nat /\ \A q \in Reads :
                 answers'[q] = IF q = r THEN answers[r] + 1 ELSE answers[q]
            BY <2>2, QueueNumbers
        <3>q. QED BY <2>2, <3>1, <3>2 DEF Finished
    <2>q. QED BY <1>2, <2>1, <2>2, CallbackMoves
<1>3. CASE RunTask
    BY <1>3, TaskMoves DEF Finished
<1>4. CASE ~GetDocument /\ ~RunTask /\ ~Callback
    BY <1>4, OthersMove DEF Finished
<1>q. QED BY <1>1, <1>2, <1>3, <1>4

LEMMA QueuedStep ==
    ASSUME TypeOK, TypeOK', Lists, Known, Finished, Queued, [Next]_vars
    PROVE  Queued'
<1>1. CASE GetDocument
    <2>1. ASSUME NEW i \in 1..Len(tasks'), AddAt(i)', ~(i <= Len(tasks))
          PROVE  /\ \A r \in (listeners \cup muted)' : r < tasks'[i].read
                 /\ \A k \in 1..Len(mainQueue') : mainQueue'[k].read < tasks'[i].read
                 /\ \A j \in 1..(i - 1) : AddAt(j)' => tasks'[j].read < tasks'[i].read
        <3>1. i = Len(tasks) + 1 /\ tasks'[i].read = called + 1
            BY <1>1, <2>1, CallMoves, QueueNumbers
        <3>2. \A r \in listeners \cup muted : r \in Int /\ r <= called
            BY QueueNumbers DEF Known, Finished
        <3>3. \A k \in 1..Len(mainQueue) : mainQueue[k].read \in Int /\ mainQueue[k].read <= called
            BY QueueNumbers DEF Known
        <3>4. \A j \in 1..Len(tasks) : tasks'[j].read \in Int /\ tasks'[j].read <= called
            BY <1>1, CallMoves, QueueNumbers DEF Known
        <3>5. UNCHANGED <<listeners, muted, mainQueue>>
            BY <1>1, CallMoves
        <3>6. \A j \in 1..(i - 1) : j \in 1..Len(tasks)
            BY <3>1, QueueNumbers
        <3>7. called \in Int
            BY QueueNumbers
        <3>8. \A r \in (listeners \cup muted)' : r < called + 1
            BY <3>2, <3>5, <3>7
        <3>9. \A k \in 1..Len(mainQueue') : mainQueue'[k].read < called + 1
            BY <3>3, <3>5, <3>7
        <3>10. \A j \in 1..(i - 1) : tasks'[j].read < called + 1
            BY <3>4, <3>6, <3>7
        <3>q. QED BY <3>1, <3>8, <3>9, <3>10
    <2>2. ASSUME NEW i \in 1..Len(tasks'), AddAt(i)', i <= Len(tasks)
          PROVE  /\ \A r \in (listeners \cup muted)' : r < tasks'[i].read
                 /\ \A k \in 1..Len(mainQueue') : mainQueue'[k].read < tasks'[i].read
                 /\ \A j \in 1..(i - 1) : AddAt(j)' => tasks'[j].read < tasks'[i].read
        <3>1. \A j \in 1..i : j \in 1..Len(tasks) /\ tasks'[j] = tasks[j] /\ (AddAt(j)' <=> AddAt(j))
            BY <1>1, <2>2, CallMoves, QueueNumbers DEF AddAt
        <3>2. i \in 1..Len(tasks) /\ AddAt(i) /\ tasks'[i] = tasks[i]
            BY <2>2, <3>1
        <3>3. UNCHANGED <<listeners, muted, mainQueue>>
            BY <1>1, CallMoves
        <3>4. \A j \in 1..(i - 1) : j \in 1..i
            OBVIOUS
        <3>q. QED BY <3>1, <3>2, <3>3, <3>4 DEF Queued
    <2>q. QED BY <2>1, <2>2 DEF Queued
<1>2. CASE RunTask
    <2>1. ASSUME NEW i \in 1..Len(tasks'), AddAt(i)'
          PROVE  /\ \A r \in (listeners \cup muted)' : r < tasks'[i].read
                 /\ \A k \in 1..Len(mainQueue') : mainQueue'[k].read < tasks'[i].read
                 /\ \A j \in 1..(i - 1) : AddAt(j)' => tasks'[j].read < tasks'[i].read
        <3>1. \A j \in 1..i : /\ j + 1 \in 1..Len(tasks) /\ tasks'[j] = tasks[j + 1]
                              /\ (AddAt(j)' <=> AddAt(j + 1))
            BY <1>2, <2>1, TaskMoves, QueueNumbers DEF AddAt
        <3>2. i + 1 \in 1..Len(tasks) /\ AddAt(i + 1) /\ tasks'[i] = tasks[i + 1]
            BY <2>1, <3>1
        <3>3. /\ \A r \in listeners \cup muted : r < tasks[i + 1].read
              /\ \A k \in 1..Len(mainQueue) : mainQueue[k].read < tasks[i + 1].read
              /\ \A j \in 1..i : AddAt(j) => tasks[j].read < tasks[i + 1].read
            BY <2>1, <3>2 DEF Queued
        <3>4. \A j \in 1..(i - 1) : j + 1 \in 1..i /\ j \in 1..i
            OBVIOUS
        <3>5. \A j \in 1..(i - 1) : AddAt(j)' => tasks'[j].read < tasks'[i].read
            BY <3>1, <3>2, <3>3, <3>4
        <3>6. UNCHANGED muted
            BY <1>2, TaskMoves
        <3>7. CASE AddAt(1)
            <4>1. tasks[1].read < tasks[i + 1].read
                BY <3>3, <3>7
            <4>2. listeners' = listeners \cup {tasks[1].read} /\ Tells({tasks[1].read})
                BY <1>2, <3>7, TaskMoves
            <4>3. \A k \in 1..Len(mainQueue') : mainQueue'[k].read < tasks[i + 1].read
                <5>1. ASSUME NEW k \in 1..Len(mainQueue'), k <= Len(mainQueue)
                      PROVE  mainQueue'[k].read < tasks[i + 1].read
                    <6>1. k \in 1..Len(mainQueue)
                        BY <5>1, QueueNumbers
                    <6>q. QED BY <3>3, <4>2, <6>1 DEF Tells
                <5>2. ASSUME NEW k \in 1..Len(mainQueue'), k > Len(mainQueue)
                      PROVE  mainQueue'[k].read < tasks[i + 1].read
                    <6>1. mainQueue'[k] = Event(tasks[1].read, view')
                        BY <4>2, <5>2 DEF Tells
                    <6>2. mainQueue'[k].read = tasks[1].read
                        BY <6>1 DEF Event
                    <6>q. QED BY <4>1, <6>2
                <5>3. \A k \in 1..Len(mainQueue') : k <= Len(mainQueue) \/ k > Len(mainQueue)
                    BY QueueNumbers
                <5>q. QED BY <5>1, <5>2, <5>3
            <4>q. QED BY <3>2, <3>3, <3>5, <3>6, <4>1, <4>2, <4>3
        <3>8. CASE ~AddAt(1)
            <4>1. listeners' = listeners \ {tasks[1].read} /\ UNCHANGED mainQueue
                BY <1>2, <3>8, TaskMoves
            <4>q. QED BY <3>2, <3>3, <3>5, <3>6, <4>1
        <3>q. QED BY <3>7, <3>8
    <2>q. QED BY <2>1 DEF Queued
\* A callback mutes the read of an event, and its task is no addition.
<1>3. CASE Callback
    <2>1. \A k \in 1..Len(mainQueue') : mainQueue'[k] = mainQueue[k + 1] /\ k + 1 \in 1..Len(mainQueue)
        BY <1>3, CallbackMoves, QueueNumbers
    <2>2. UNCHANGED listeners /\ 1 \in 1..Len(mainQueue)
        BY <1>3, CallbackMoves, QueueNumbers
    <2>3. muted' \subseteq muted \cup {mainQueue[1].read}
        BY <1>3, CallbackMoves
    <2>4. ASSUME NEW i \in 1..Len(tasks'), AddAt(i)'
          PROVE  /\ i \in 1..Len(tasks)
                 /\ \A j \in 1..i : tasks'[j] = tasks[j] /\ (AddAt(j)' <=> AddAt(j))
        <3>1. i \in 1..Len(tasks)
            <4>1. CASE UNCHANGED tasks
                BY <2>4, <4>1
            <4>2. CASE /\ Len(tasks') = Len(tasks) + 1
                       /\ \E r \in Reads : tasks'[Len(tasks) + 1] = [op |-> "remove", read |-> r]
                <5>1. i # Len(tasks) + 1
                    BY <2>4, <4>2 DEF AddAt
                <5>q. QED BY <2>4, <4>2, <5>1, QueueNumbers
            <4>q. QED BY <1>3, <4>1, <4>2, CallbackMoves
        <3>2. \A j \in 1..Len(tasks) : tasks'[j] = tasks[j]
            BY <1>3, CallbackMoves
        <3>3. \A j \in 1..i : j \in 1..Len(tasks)
            BY <3>1, QueueNumbers
        <3>q. QED BY <3>1, <3>2, <3>3 DEF AddAt
    <2>5. ASSUME NEW i \in 1..Len(tasks'), AddAt(i)'
          PROVE  /\ \A r \in (listeners \cup muted)' : r < tasks'[i].read
                 /\ \A k \in 1..Len(mainQueue') : mainQueue'[k].read < tasks'[i].read
                 /\ \A j \in 1..(i - 1) : AddAt(j)' => tasks'[j].read < tasks'[i].read
        <3>1. i \in 1..Len(tasks) /\ AddAt(i) /\ tasks'[i] = tasks[i]
            BY <2>4, <2>5
        <3>2. /\ \A r \in listeners \cup muted : r < tasks[i].read
              /\ \A k \in 1..Len(mainQueue) : mainQueue[k].read < tasks[i].read
              /\ \A j \in 1..(i - 1) : AddAt(j) => tasks[j].read < tasks[i].read
            BY <3>1 DEF Queued
        <3>3. \A j \in 1..(i - 1) : AddAt(j)' => tasks'[j].read < tasks'[i].read
            BY <2>4, <2>5, <3>1, <3>2
        <3>4. \A r \in (listeners \cup muted)' : r < tasks[i].read
            BY <2>2, <2>3, <3>2
        <3>q. QED BY <2>1, <3>1, <3>2, <3>3, <3>4
    <2>q. QED BY <2>5 DEF Queued
<1>4. CASE ~GetDocument /\ ~RunTask /\ ~Callback
    <2>1. UNCHANGED <<tasks, listeners, muted>> /\ Tells(listeners)
        BY <1>4, OthersMove
    <2>2. ASSUME NEW i \in 1..Len(tasks), AddAt(i), NEW k \in 1..Len(mainQueue')
          PROVE  mainQueue'[k].read < tasks[i].read
        <3>1. CASE k <= Len(mainQueue)
            <4>1. k \in 1..Len(mainQueue)
                BY <3>1, QueueNumbers
            <4>q. QED BY <2>1, <2>2, <4>1 DEF Tells, Queued
        <3>2. CASE k > Len(mainQueue)
            <4>1. PICK r \in listeners : mainQueue'[k] = Event(r, view')
                BY <2>1, <3>2 DEF Tells
            <4>2. mainQueue'[k].read = r
                BY <4>1 DEF Event
            <4>q. QED BY <2>2, <4>1, <4>2 DEF Queued
        <3>q. QED BY <3>1, <3>2, QueueNumbers
    <2>q. QED BY <2>1, <2>2 DEF Queued, AddAt
<1>q. QED BY <1>1, <1>2, <1>3, <1>4

\* A task that was queued is queued, or has just run.
LEMMA TasksStay ==
    ASSUME TypeOK, Lists, [Next]_vars
    PROVE  \/ /\ ~RunTask
              /\ \A i \in 1..Len(tasks) : i \in 1..Len(tasks') /\ tasks'[i] = tasks[i]
           \/ /\ RunTask
              /\ \A i \in 1..Len(tasks) :
                   i # 1 => i - 1 \in 1..Len(tasks') /\ tasks'[i - 1] = tasks[i]
<1>1. CASE GetDocument /\ ~RunTask
    BY <1>1, CallMoves, QueueNumbers
<1>2. CASE RunTask
    <2>1. ASSUME NEW i \in 1..Len(tasks), i # 1
          PROVE  i - 1 \in 1..Len(tasks') /\ tasks'[i - 1] = tasks[i]
        <3>1. i - 1 \in 1..Len(tasks') /\ (i - 1) + 1 = i
            BY <1>2, <2>1, TaskMoves, QueueNumbers
        <3>q. QED BY <1>2, <3>1, TaskMoves
    <2>q. QED BY <1>2, <2>1
<1>3. CASE Callback /\ ~RunTask
    <2>1. CASE UNCHANGED tasks
        BY <1>3, <2>1
    <2>2. CASE Len(tasks') = Len(tasks) + 1 /\ \A i \in 1..Len(tasks) : tasks'[i] = tasks[i]
        BY <1>3, <2>2, QueueNumbers
    <2>q. QED BY <1>3, <2>1, <2>2, CallbackMoves
<1>4. CASE ~GetDocument /\ ~RunTask /\ ~Callback
    BY <1>4, OthersMove
<1>q. QED BY <1>1, <1>2, <1>3, <1>4

LEMMA LeavingStep ==
    ASSUME TypeOK, Lists, Queued, Leaving, [Next]_vars
    PROVE  Leaving'
<1> SUFFICES ASSUME NEW r \in (listeners \cap muted)'
             PROVE  \E i \in 1..Len(tasks') : RemoveAt(i, r)'
    BY DEF Leaving
<1>1. ASSUME r \in listeners \cap muted, ~RunTask
      PROVE  \E i \in 1..Len(tasks') : RemoveAt(i, r)'
    <2>1. PICK i \in 1..Len(tasks) : RemoveAt(i, r)
        BY <1>1 DEF Leaving
    <2>2. i \in 1..Len(tasks') /\ tasks'[i] = tasks[i]
        BY <1>1, TasksStay
    <2>q. QED BY <2>1, <2>2 DEF RemoveAt
<1>2. CASE RunTask
    <2>1. UNCHANGED muted
        BY <1>2, TaskMoves
    <2>2. ASSUME r \in listeners, NEW i \in 1..Len(tasks), RemoveAt(i, r), i # 1
          PROVE  \E j \in 1..Len(tasks') : RemoveAt(j, r)'
        <3>1. i - 1 \in 1..Len(tasks') /\ tasks'[i - 1] = tasks[i]
            BY <1>2, <2>2, TasksStay
        <3>q. QED BY <2>2, <3>1 DEF RemoveAt
    <2>3. CASE AddAt(1)
        <3>1. 1 \in 1..Len(tasks) /\ listeners' = listeners \cup {tasks[1].read}
            BY <1>2, <2>3, TaskMoves, QueueNumbers
        <3>2. r # tasks[1].read
            BY <2>1, <2>3, <3>1, QueueNumbers DEF Queued
        <3>3. r \in listeners \cap muted
            BY <2>1, <3>1, <3>2
        <3>4. PICK i \in 1..Len(tasks) : RemoveAt(i, r)
            BY <3>3 DEF Leaving
        <3>5. i # 1
            BY <2>3, <3>4 DEF RemoveAt, AddAt
        <3>q. QED BY <2>2, <3>3, <3>4, <3>5
    <2>4. CASE ~AddAt(1)
        <3>1. listeners' = listeners \ {tasks[1].read}
            BY <1>2, <2>4, TaskMoves
        <3>2. r \in listeners \cap muted /\ r # tasks[1].read
            BY <2>1, <3>1
        <3>3. PICK i \in 1..Len(tasks) : RemoveAt(i, r)
            BY <3>2 DEF Leaving
        <3>4. i # 1
            BY <3>2, <3>3 DEF RemoveAt
        <3>q. QED BY <2>2, <3>2, <3>3, <3>4
    <2>q. QED BY <2>3, <2>4
<1>3. CASE Callback /\ ~RunTask
    <2>1. UNCHANGED listeners
        BY <1>3, CallbackMoves
    <2>2. CASE r \in muted
        BY <1>1, <1>3, <2>1, <2>2
    <2>3. CASE r \notin muted
        <3>1. Len(tasks') = Len(tasks) + 1 /\ tasks'[Len(tasks) + 1] = [op |-> "remove", read |-> r]
            BY <1>3, <2>3, CallbackMoves
        <3>2. Len(tasks) + 1 \in 1..Len(tasks')
            BY <3>1, QueueNumbers
        <3>q. QED BY <3>1, <3>2 DEF RemoveAt
    <2>q. QED BY <2>2, <2>3
<1>4. CASE ~RunTask /\ ~Callback
    <2>1. UNCHANGED <<listeners, muted>>
        <3>1. CASE GetDocument
            BY <3>1, CallMoves
        <3>2. CASE ~GetDocument
            BY <1>4, <3>2, OthersMove
        <3>q. QED BY <3>1, <3>2
    <2>q. QED BY <1>1, <1>4, <2>1
<1>q. QED BY <1>2, <1>3, <1>4

\* Calls that find no read under way find every listener about to leave.
LEMMA NobodyWaits ==
    ASSUME TypeOK, Known, Finished, Leaving, \A r \in 1..called : answers[r] > 0
    PROVE  /\ \A i \in 1..Len(tasks) : AddAt(i) => tasks[i].read \in muted
           /\ \A r \in listeners : r \in muted /\ \E i \in 1..Len(tasks) : RemoveAt(i, r)
           /\ \A k \in 1..Len(mainQueue) : answers[mainQueue[k].read] # 0
<1>1. \A r \in Reads : r <= called => r \in muted /\ answers[r] > 0
    BY QueueNumbers DEF Finished
<1>2. \A i \in 1..Len(tasks) : tasks[i].read \in muted
    BY <1>1, QueueNumbers DEF Known
<1>3. \A r \in listeners : r \in muted
    BY <1>1, QueueNumbers DEF Known
<1>4. \A k \in 1..Len(mainQueue) : answers[mainQueue[k].read] > 0
    BY <1>1, QueueNumbers DEF Known
<1>5. \A k \in 1..Len(mainQueue) : answers[mainQueue[k].read] # 0
    BY <1>4
<1>q. QED BY <1>2, <1>3, <1>5 DEF Leaving

LEMMA DepartsStep ==
    ASSUME TypeOK, TypeOK', Lists, Known, Finished, Queued, Leaving, Departs, Promised, [Next]_vars
    PROVE  Departs'
<1> DEFINE Goes(r) == r \in muted
                      /\ \E i \in 1..Len(tasks) : RemoveAt(i, r) /\ \A j \in 1..i : ~AddAt(j)
<1> SUFFICES ASSUME TooOld', NEW r \in listeners'
             PROVE  Goes(r)'
    BY DEF Departs
\* No step but the next task takes a listener out of its way.
<1>1. ASSUME ~RunTask, UNCHANGED <<listeners>>, muted \subseteq muted', Goes(r)
      PROVE  Goes(r)'
    <2>1. PICK i \in 1..Len(tasks) : RemoveAt(i, r) /\ \A j \in 1..i : ~AddAt(j)
        BY <1>1
    <2>2. \A j \in 1..i : j \in 1..Len(tasks)
        BY QueueNumbers
    <2>3. i \in 1..Len(tasks') /\ tasks'[i] = tasks[i] /\ \A j \in 1..i : tasks'[j] = tasks[j]
        BY <1>1, <2>2, TasksStay
    <2>q. QED BY <1>1, <2>1, <2>3 DEF RemoveAt, AddAt
<1>2. CASE GetDocument /\ ~RunTask
    <2>1. /\ UNCHANGED <<listeners, muted, answers, view>>
          /\ asOf' = IF \A q \in 1..called : answers[q] > 0 THEN version ELSE asOf
        BY <1>2, CallMoves
    <2>2. CASE \A q \in 1..called : answers[q] > 0
        <3>1. \A i \in 1..Len(tasks) : ~AddAt(i)
            <4>1. ASSUME NEW i \in 1..Len(tasks), AddAt(i) PROVE FALSE
                <5>1. tasks[i].read \in muted /\ tasks[i].read \in Int
                    BY <2>2, <4>1, NobodyWaits, QueueNumbers
                <5>2. tasks[i].read < tasks[i].read
                    BY <4>1, <5>1 DEF Queued
                <5>q. QED BY <5>1, <5>2
            <4>q. QED BY <4>1
        <3>2. r \in muted /\ \E i \in 1..Len(tasks) : RemoveAt(i, r)
            BY <2>1, <2>2, NobodyWaits
        <3>3. Goes(r)
            <4>1. \A i \in 1..Len(tasks) : \A j \in 1..i : j \in 1..Len(tasks)
                BY QueueNumbers
            <4>q. QED BY <3>1, <3>2, <4>1
        <3>q. QED BY <1>1, <1>2, <2>1, <3>3
    <2>3. CASE ~(\A q \in 1..called : answers[q] > 0)
        <3>1. TooOld
            BY <2>1, <2>3 DEF TooOld
        <3>q. QED BY <1>1, <1>2, <2>1, <3>1 DEF Departs
    <2>q. QED BY <2>2, <2>3
<1>3. CASE RunTask
    <2>1. UNCHANGED <<muted, asOf>> /\ 1 \in 1..Len(tasks)
        BY <1>3, TaskMoves, QueueNumbers
    <2>2. CASE AddAt(1)
        <3>1. view'.open /\ view'.since = IF view.open THEN view.since ELSE version
            BY <1>3, <2>2, TaskMoves
        <3>2. view.open /\ TooOld
            BY <2>1, <3>1, QueueNumbers DEF TooOld, Promised
        <3>3. PICK q \in listeners : TRUE
            BY <3>2 DEF Lists
        <3>4. PICK i \in 1..Len(tasks) : \A j \in 1..i : ~AddAt(j)
            BY <3>2, <3>3 DEF Departs
        <3>5. 1 \in 1..i
            OBVIOUS
        <3>q. QED BY <2>2, <3>4, <3>5
    <2>3. CASE ~AddAt(1)
        <3>1. /\ listeners' = listeners \ {tasks[1].read}
              /\ view' = IF listeners' = {} THEN NoView ELSE view
            BY <1>3, <2>3, TaskMoves
        <3>2. TooOld /\ r \in listeners /\ r # tasks[1].read
            BY <2>1, <3>1 DEF TooOld, NoView
        <3>3. r \in muted
            BY <3>2 DEF Departs
        <3>4. PICK i \in 1..Len(tasks) : RemoveAt(i, r) /\ \A j \in 1..i : ~AddAt(j)
            BY <3>2 DEF Departs
        <3>5. i # 1
            BY <3>2, <3>4 DEF RemoveAt
        <3>6. i - 1 \in 1..Len(tasks') /\ tasks'[i - 1] = tasks[i]
            BY <1>3, <3>5, TasksStay
        <3>7. \A j \in 1..(i - 1) : j \in 1..Len(tasks') /\ j + 1 \in 1..i
            BY <3>6, QueueNumbers, TaskMoves, <1>3
        <3>8. \A j \in 1..(i - 1) : tasks'[j] = tasks[j + 1]
            BY <1>3, <3>7, TaskMoves
        <3>q. QED BY <2>1, <3>3, <3>4, <3>6, <3>7, <3>8 DEF RemoveAt, AddAt
    <2>q. QED BY <2>2, <2>3
<1>4. CASE Callback /\ ~RunTask
    <2>1. UNCHANGED <<listeners, view, asOf>> /\ muted \subseteq muted'
        BY <1>4, CallbackMoves
    <2>2. TooOld
        BY <2>1 DEF TooOld
    <2>q. QED BY <1>1, <1>4, <2>1, <2>2 DEF Departs
<1>5. CASE ~GetDocument /\ ~RunTask /\ ~Callback
    <2>1. /\ UNCHANGED <<listeners, muted, asOf>>
          /\ view'.open => view.open /\ view'.since = view.since
        BY <1>5, OthersMove
    <2>2. TooOld
        BY <2>1 DEF TooOld
    <2>q. QED BY <1>1, <1>5, <2>1, <2>2 DEF Departs
<1>q. QED BY <1>2, <1>3, <1>4, <1>5

LEMMA PromisedStep ==
    ASSUME TypeOK, TypeOK', Lists, Lists', Known, Finished, Finished', Leaving, Departs', Promised,
           [Next]_vars
    PROVE  Promised'
<1> DEFINE Keeps(e) == answers'[e.read] = 0 => e.since >= asOf'
<1>1. asOf' \in Int /\ version' \in Int
    BY DEF TypeOK, Versions
<1>2. version' >= version
    <2>1. version' = version \/ version' = version + 1
        BY WhoChanges DEF OtherWrites, AppliesWrite
    <2>q. QED BY <2>1, QueueNumbers
<1>3. asOf' <= version'
    <2>1. CASE GetDocument
        <3>1. asOf' \in {asOf, version}
            BY <2>1, CallMoves
        <3>q. QED BY <1>1, <1>2, <3>1, QueueNumbers DEF Promised
    <2>2. CASE ~GetDocument
        <3>1. UNCHANGED asOf
            BY <2>2, QueuesRun
        <3>q. QED BY <1>1, <1>2, <3>1, QueueNumbers DEF Promised
    <2>q. QED BY <2>1, <2>2
<1>4. SUFFICES \A k \in 1..Len(mainQueue') : Keeps(mainQueue'[k])
    BY <1>3 DEF Promised
\* An event that was raised before.
<1>5. ASSUME NEW k \in 1..Len(mainQueue)
      PROVE  Keeps(mainQueue[k])
    <2>1. mainQueue[k].read \in Reads
        BY QueueNumbers
    <2>2. CASE GetDocument
        <3>1. UNCHANGED answers /\ asOf' = IF \A q \in 1..called : answers[q] > 0 THEN version ELSE asOf
            BY <2>2, CallMoves
        <3>2. CASE \A q \in 1..called : answers[q] > 0
            BY <3>1, <3>2, NobodyWaits
        <3>3. CASE ~(\A q \in 1..called : answers[q] > 0)
            BY <3>1, <3>3 DEF Promised
        <3>q. QED BY <3>2, <3>3
    <2>3. CASE Callback
        <3>1. UNCHANGED asOf
            BY <2>3, CallbackMoves
        <3>2. answers'[mainQueue[k].read] = 0 => answers[mainQueue[k].read] = 0
            <4>1. CASE UNCHANGED answers
                BY <4>1
            <4>2. ASSUME NEW r \in Reads, answers' = [answers EXCEPT ![r] = @ + 1]
                  PROVE  answers'[mainQueue[k].read] = 0 => answers[mainQueue[k].read] = 0
                BY <2>1, <4>2, QueueNumbers
            <4>q. QED BY <2>3, <4>1, <4>2, CallbackMoves
        <3>q. QED BY <3>1, <3>2 DEF Promised
    <2>4. CASE ~GetDocument /\ ~Callback
        <3>1. UNCHANGED <<answers, asOf>>
            BY <2>4, QueuesRun
        <3>q. QED BY <3>1 DEF Promised
    <2>q. QED BY <2>2, <2>3, <2>4
<1>6. CASE Callback
    <2>1. \A k \in 1..Len(mainQueue') : mainQueue'[k] = mainQueue[k + 1] /\ k + 1 \in 1..Len(mainQueue)
        BY <1>6, CallbackMoves, QueueNumbers
    <2> HIDE DEF Keeps
    <2>q. QED BY <1>5, <2>1
\* An event that is raised now is of a listener that is not about to leave.
<1>7. CASE ~Callback
    <2>1. Tells(listeners')
        BY <1>7, ViewStep
    <2>2. ASSUME NEW k \in 1..Len(mainQueue'), k > Len(mainQueue)
          PROVE  Keeps(mainQueue'[k])
        <3>1. PICK r \in listeners' : mainQueue'[k] = Event(r, view')
            BY <2>1, <2>2 DEF Tells
        <3>2. mainQueue'[k].read = r /\ mainQueue'[k].since = view'.since
            BY <3>1 DEF Event
        <3>3. r \in Reads /\ view'.since \in Int
            BY DEF TypeOK, Versions
        <3>4. ASSUME answers'[r] = 0 PROVE view'.since >= asOf'
            <4>1. r \notin muted'
                BY <3>3, <3>4 DEF Finished
            <4>2. ~TooOld'
                BY <4>1 DEF Departs
            <4>3. view'.open
                BY DEF Lists
            <4>q. QED BY <1>1, <3>3, <4>2, <4>3 DEF TooOld
        <3>q. QED BY <3>2, <3>4
    <2>3. ASSUME NEW k \in 1..Len(mainQueue'), k <= Len(mainQueue)
          PROVE  Keeps(mainQueue'[k])
        <3>1. k \in 1..Len(mainQueue)
            BY <2>3, QueueNumbers
        <3>2. mainQueue'[k] = mainQueue[k]
            BY <2>1, <3>1 DEF Tells
        <3> HIDE DEF Keeps
        <3>q. QED BY <1>5, <3>1, <3>2
    <2>4. \A k \in 1..Len(mainQueue') : k > Len(mainQueue) \/ k <= Len(mainQueue)
        BY QueueNumbers
    <2> HIDE DEF Keeps
    <2>q. QED BY <2>2, <2>3, <2>4
<1>q. QED BY <1>6, <1>7

LEMMA OverlaysStep ==
    ASSUME TypeOK, TypeOK', Lists, Lists', Overlays, [Next]_vars
    PROVE  Overlays'
<1>1. writes # <<>> => writes' # <<>>
    BY WritesGrow, Numbers
<1>2. view'.open /\ view'.doc.kind = "local" => writes' # <<>>
    <2>1. ASSUME view'.open, view'.doc.kind = "local" PROVE writes' # <<>>
        <3>1. DocumentFollows
            BY DocumentStep
        <3>2. CASE view.open /\ view'.doc = view.doc
            BY <1>1, <2>1, <3>2 DEF Overlays
        <3>3. CASE view'.doc = Overlaid(cache', Pending')
            <4>1. cache'.kind # "local"
                BY DEF TypeOK
            <4>2. Pending'
                BY <2>1, <3>3, <4>1 DEF Overlaid
            <4>3. acked' \in 0..Len(writes') /\ Len(writes') \in Nat
                BY WritesGrow DEF TypeOK
            <4>q. QED BY <4>2, <4>3 DEF Pending
        <3>q. QED BY <2>1, <3>1, <3>2, <3>3 DEF DocumentFollows
    <2>q. QED BY <2>1
<1>3. CASE Callback
    <2>1. \A k \in 1..Len(mainQueue') : mainQueue'[k] = mainQueue[k + 1] /\ k + 1 \in 1..Len(mainQueue)
        BY <1>3, CallbackMoves, QueueNumbers
    <2>q. QED BY <1>1, <1>2, <2>1 DEF Overlays
<1>4. CASE ~Callback
    <2>1. Tells(listeners')
        BY <1>4, ViewStep
    <2>2. ASSUME NEW k \in 1..Len(mainQueue'), mainQueue'[k].doc.kind = "local"
          PROVE  writes' # <<>>
        <3>1. CASE k <= Len(mainQueue)
            <4>1. k \in 1..Len(mainQueue)
                BY <3>1, QueueNumbers
            <4>2. mainQueue'[k] = mainQueue[k]
                BY <2>1, <4>1 DEF Tells
            <4>q. QED BY <1>1, <2>2, <4>1, <4>2 DEF Overlays
        <3>2. CASE k > Len(mainQueue)
            <4>1. PICK r \in listeners' : mainQueue'[k] = Event(r, view')
                BY <2>1, <3>2 DEF Tells
            <4>2. mainQueue'[k].doc = view'.doc
                BY <4>1 DEF Event
            <4>3. view'.open
                BY <4>1 DEF Lists
            <4>q. QED BY <1>2, <2>2, <4>2, <4>3
        <3>q. QED BY <3>1, <3>2, QueueNumbers
    <2>q. QED BY <1>2, <2>2 DEF Overlays
<1>q. QED BY <1>3, <1>4

LEMMA ConversationStep ==
    ASSUME TypeOK, TypeOK', Lists, Lists', Known, Conversation, [Next]_vars
    PROVE  Conversation'
BY FinishedStep, QueuedStep, LeavingStep, DepartsStep, PromisedStep DEF Conversation

(* -------------------- what a read is promised: steps -------------------- *)

HonestInv == TypeOK /\ Store /\ Lists /\ Ordered /\ OwnWrites /\ FreshReads
             /\ Conversation /\ Overlays

LEMMA HonestInit == Init => Conversation /\ Overlays
<1> SUFFICES ASSUME Init PROVE Conversation /\ Overlays
    OBVIOUS
<1>1. /\ Len(tasks) = 0 /\ Len(mainQueue) = 0 /\ listeners = {} /\ muted = {} /\ ~view.open
      /\ asOf = 0 /\ version = 0 /\ \A r \in Reads : answers[r] = 0
    BY DEF Init, NoView
<1>2. Finished /\ Queued /\ Leaving
    BY <1>1 DEF Finished, Queued, Leaving
<1>3. Departs /\ Promised
    BY <1>1 DEF Departs, TooOld, Promised
<1>q. QED BY <1>1, <1>2, <1>3 DEF Conversation, Overlays

LEMMA HonestHolds == Spec => []HonestInv
<1>1. Init => Ordered /\ OwnWrites /\ FreshReads /\ Conversation /\ Overlays
    BY OrderedInit, OwnWritesInit, FreshReadsInit, HonestInit
<1>2. TypeOK /\ Lists /\ Lists' /\ OwnWrites /\ Conversation /\ TypeOK' /\ [Next]_vars
        => Conversation'
    BY ConversationStep DEF OwnWrites
<1>3. TypeOK /\ Lists /\ Lists' /\ Overlays /\ TypeOK' /\ [Next]_vars => Overlays'
    BY OverlaysStep
<1>4. TypeOK /\ Lists /\ Ordered /\ [Next]_vars /\ TypeOK' => Ordered'
    BY OrderedStep
<1>5. TypeOK /\ Lists /\ OwnWrites /\ [Next]_vars /\ TypeOK' => OwnWrites'
    BY ReadYourWritesStep
<1>6. TypeOK /\ Store /\ Lists /\ FreshReads /\ [Next]_vars /\ TypeOK' => FreshReads'
    BY FreshReadsStep
<1>7. HonestInv <=> TypeOK /\ Store /\ Lists /\ Ordered /\ OwnWrites /\ FreshReads
                    /\ Conversation /\ Overlays
    BY DEF HonestInv
<1>q. QED BY Stored, Watched, <1>1, <1>2, <1>3, <1>4, <1>5, <1>6, <1>7, PTL DEF Spec

\* The callback of a read under way is its answer.
LEMMA CallbackAnswers ==
    ASSUME HonestInv, Callback
    PROVE  UNCHANGED API!vars \/ \E r \in API!Awaited : API!Answer(r)
<1>1. TypeOK /\ Ordered /\ Known /\ ReadYourWrites /\ ReadsAreFresh /\ ServerAhead
      /\ Finished /\ Promised /\ Overlays
    BY DEF HonestInv, OwnWrites, FreshReads, Conversation
<1>2. CASE UNCHANGED <<answers, newest, metadata>>
    <2>1. UNCHANGED <<called, wrote, asOf, version, writes>>
        BY <1>1, <1>2, CallbackMoves
    <2>q. QED BY <1>2, <2>1 DEF API!vars, API!readVars
<1>3. ASSUME NEW r \in Reads, r = mainQueue[1].read, r \notin muted,
             answers' = [answers EXCEPT ![r] = @ + 1],
             newest' = mainQueue[1].doc.version,
             metadata' = [hasPendingWrites |-> mainQueue[1].doc.kind = "local",
                          isFromCache |-> mainQueue[1].fromCache]
      PROVE  \E q \in API!Awaited : API!Answer(q)
    <2> DEFINE event == mainQueue[1]
    <2>1. /\ 1 \in 1..Len(mainQueue) /\ 1 \in DOMAIN mainQueue /\ event \in EventTypes
          /\ UNCHANGED <<called, wrote, asOf, version, writes>>
        BY <1>1, CallbackMoves, QueueNumbers
    <2>2. r \in 1..called /\ answers[r] = 0
        <3>1. r \in Int /\ r >= 1 /\ r <= called /\ answers[r] \in Nat
            BY <1>1, <1>3, <2>1, QueueNumbers DEF Known
        <3>2. ~(answers[r] > 0)
            BY <1>1, <1>3 DEF Finished
        <3>q. QED BY <1>1, <3>1, <3>2, QueueNumbers
    <2>3. event.doc.version \in newest..version
        <3>1. /\ event.doc.version >= newest /\ event.doc.version <= Latest
              /\ Latest <= cache.version /\ cache.version <= version
            BY <1>1, <2>1, Numbers DEF Ordered, VersionsNeverGoBack, Lags, Latest, ServerAhead
        <3>2. event.doc.version \in Int /\ newest \in Int /\ Latest \in Int
              /\ cache.version \in Int /\ version \in Int
            BY <1>1, <2>1, Numbers, QueueNumbers
        <3>q. QED BY <3>1, <3>2
    <2>4. event.doc.kind = "local" => writes # <<>>
        BY <1>1, <2>1 DEF Overlays
    <2>5. event.doc.kind # "local" => API!Has(event.doc.version, r)
        <3>1. ASSUME event.doc.kind # "local", NEW w \in 1..wrote[r]
              PROVE  writes[w] \in 1..event.doc.version
            <4>1. writes[w] > 0 /\ event.doc.version >= writes[w]
                BY <1>1, <1>3, <2>1, <3>1 DEF ReadYourWrites
            <4>2. w \in 1..Len(writes)
                <5>1. wrote[r] \in Nat /\ wrote[r] <= Len(writes) /\ Len(writes) \in Nat
                    BY <1>1, Numbers, TypeParts DEF RestTypes, Known
                <5>q. QED BY <3>1, <5>1
            <4>3. writes[w] \in Int /\ event.doc.version \in Int
                BY <1>1, <2>1, <4>2, Numbers
            <4>q. QED BY <4>1, <4>3
        <3>q. QED BY <3>1 DEF API!Has
    <2>6. ~event.fromCache /\ event.doc.kind # "local" => event.doc.version >= asOf
        <3>1. ASSUME ~event.fromCache, event.doc.kind # "local"
              PROVE  event.doc.version >= asOf
            <4>1. event.doc.version >= event.since
                BY <1>1, <2>1, <3>1 DEF ReadsAreFresh
            <4>2. event.since >= asOf
                BY <1>1, <1>3, <2>1, <2>2 DEF Promised
            <4>q. QED BY <1>1, <2>1, <4>1, <4>2, Numbers, QueueNumbers
        <3>q. QED BY <3>1
    <2>7. event.fromCache \in BOOLEAN
        BY <2>1 DEF EventTypes
    <2> HIDE DEF event
    <2>8. /\ metadata'.hasPendingWrites = (event.doc.kind = "local")
          /\ metadata'.isFromCache = event.fromCache
        BY <1>3 DEF event
    <2>9. metadata' \in API!Metadata
        BY <1>3, <2>7 DEF API!Metadata, event
    <2>10. newest' = event.doc.version
        BY <1>3 DEF event
    <2>11. API!Answer(r)
        <3>1. IF metadata'.hasPendingWrites THEN writes # <<>> ELSE API!Has(newest', r)
            BY <2>4, <2>5, <2>8, <2>10
        <3>2. metadata' = [hasPendingWrites |-> FALSE, isFromCache |-> FALSE] => newest' >= asOf
            <4>1. metadata' = [hasPendingWrites |-> FALSE, isFromCache |-> FALSE] =>
                    ~metadata'.hasPendingWrites /\ ~metadata'.isFromCache
                OBVIOUS
            <4>q. QED BY <2>6, <2>8, <2>10, <4>1
        <3>3. newest' \in newest..version
            BY <2>3, <2>10
        <3>q. QED BY <1>3, <2>1, <2>9, <3>1, <3>2, <3>3 DEF API!Answer
    <2>12. r \in API!Awaited
        BY <2>2 DEF API!Awaited
    <2>q. QED BY <2>11, <2>12
<1>q. QED BY <1>1, <1>2, <1>3, CallbackMoves

LEMMA PromiseStep ==
    ASSUME HonestInv, [Next]_vars
    PROVE  [API!Next]_(API!vars)
<1> USE DEF API!vars, API!readVars
<1>1. TypeOK /\ Lists
    BY DEF HonestInv
<1>2. CASE Callback
    BY <1>2, CallbackAnswers DEF API!Next
<1>3. CASE GetDocument
    <2>1. /\ called' = called + 1 /\ wrote' = [wrote EXCEPT ![called + 1] = Len(writes)]
          /\ asOf' = IF \A r \in 1..called : answers[r] > 0 THEN version ELSE asOf
          /\ UNCHANGED <<version, writes, answers, newest, metadata>>
        BY <1>1, <1>3, CallMoves
    <2>2. (\A r \in 1..called : answers[r] > 0) <=> API!Awaited = {}
        <3>1. \A r \in 1..called : answers[r] \in Nat
            <4>1. \A r \in 1..called : r \in Reads
                BY <1>1, QueueNumbers, BoundsAssumption DEF Reads
            <4>q. QED BY <1>1, <4>1, QueueNumbers
        <3>2. \A r \in 1..called : answers[r] > 0 <=> answers[r] # 0
            BY <3>1
        <3>q. QED BY <3>2 DEF API!Awaited
    <2>3. called < MaxReads
        BY <1>3 DEF GetDocument
    <2>4. API!Call
        BY <2>1, <2>2, <2>3 DEF API!Call
    <2>q. QED BY <2>4 DEF API!Next
<1>4. CASE ~Callback /\ ~GetDocument
    <2>1. UNCHANGED API!readVars
        BY <1>4, QueuesRun
    <2>2. CASE Write
        BY <2>1, <2>2 DEF Write, API!Write, API!Next
    <2>3. CASE OtherWrites
        BY <2>1, <2>3 DEF OtherWrites, API!Changes, API!Next
    <2>4. CASE AppliesWrite
        <3>1. version' = version + 1 /\ \E w \in DOMAIN writes :
                /\ writes[w] = 0 /\ \A u \in 1..(w - 1) : writes[u] > 0
                /\ writes' = [writes EXCEPT ![w] = version + 1]
            BY <2>4 DEF AppliesWrite
        <3>2. API!Changes
            BY <2>1, <3>1 DEF API!Changes
        <3>q. QED BY <3>2 DEF API!Next
    <2>5. CASE ~Write /\ ~OtherWrites /\ ~AppliesWrite
        BY <2>1, <2>5, WhoChanges
    <2>q. QED BY <2>2, <2>3, <2>4, <2>5
<1>q. QED BY <1>2, <1>3, <1>4

\* What getDocument promises, whatever its queues, its shared view, the streams and
\* the acknowledgements do in between: one answer, a version of the server's that
\* never goes back, the device's own writes, and, if it is said to be from the
\* server, nothing older than what the server had when the device asked.
THEOREM ReadsKeepTheirPromise == Spec => ReadsAreHonest
<1>1. Init => API!Init
    <2>1. Init => metadata \in API!Metadata
        BY DEF Init, API!Metadata
    <2>q. QED BY <2>1 DEF Init, API!Init, Reads, API!Reads
<1>2. HonestInv /\ [Next]_vars => [API!Next]_(API!vars)
    BY PromiseStep
<1>q. QED BY HonestHolds, <1>1, <1>2, PTL DEF Spec, ReadsAreHonest, API!Spec
=============================================================================
