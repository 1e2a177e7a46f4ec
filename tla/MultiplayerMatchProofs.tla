----------------------- MODULE MultiplayerMatchProofs -----------------------
(***************************************************************************)
(* Theorems about the multiplayer match, for every set of fighters picked, *)
(* every number of rounds, of taps on Fight and of reads the server does   *)
(* not answer.                                                             *)
(***************************************************************************)
EXTENDS MultiplayerMatch, TLAPS

(* ------------------------- pending writes ------------------------------ *)

\* The i-th of the writes ws is the last that gives f a value.
Newest(ws, f, i) ==
    /\ i \in 1..Len(ws) /\ f \in DOMAIN ws[i]
    /\ \A j \in 1..Len(ws) : f \in DOMAIN ws[j] => j <= i

\* The CHOOSE of View has a value.
Settled(ws, f) == Own(ws, f) = {} \/ \E i \in 1..Len(ws) : Newest(ws, f, i)

\* What a device sees of a field is its newest pending write, if there is one.
LEMMA ViewOfNewest ==
    ASSUME NEW doc, NEW S, NEW ws \in Seq(S), NEW f, NEW i, Newest(ws, f, i)
    PROVE  View(doc, ws, f) = ws[i][f]
<1>1. i \in Own(ws, f) /\ Own(ws, f) \subseteq Nat
    BY DEF Newest, Own
<1>2. \A j \in Own(ws, f) : j <= i
    BY DEF Newest, Own
<1>3. \A k \in Own(ws, f) : (\A j \in Own(ws, f) : j <= k) => k = i
    BY <1>1, <1>2
<1> DEFINE k == CHOOSE k \in Own(ws, f) : \A j \in Own(ws, f) : j <= k
<1>4. k = i
    BY <1>1, <1>2, <1>3
<1>q. QED BY <1>1, <1>4 DEF View

LEMMA ViewOfDocument ==
    ASSUME NEW doc, NEW ws, NEW f, Own(ws, f) = {}
    PROVE  View(doc, ws, f) = doc[f]
BY DEF View

\* Writes of other fields leave what is seen of f.
LEMMA OthersKeep ==
    ASSUME NEW doc, NEW S, NEW ws \in Seq(S), NEW more \in Seq(S), NEW f,
           Settled(ws, f), Own(more, f) = {}
    PROVE  View(doc, ws \o more, f) = View(doc, ws, f) /\ Settled(ws \o more, f)
<1> DEFINE all == ws \o more
<1>1. /\ all \in Seq(S) /\ Len(all) = Len(ws) + Len(more)
      /\ \A j \in 1..Len(ws) : all[j] = ws[j]
      /\ \A j \in 1..Len(all) : j > Len(ws) => j - Len(ws) \in 1..Len(more) /\ all[j] = more[j - Len(ws)]
    OBVIOUS
<1>2. Len(ws) \in Nat /\ Len(more) \in Nat
    OBVIOUS
<1>3. \A j \in 1..Len(all) : f \in DOMAIN all[j] => j \in 1..Len(ws) /\ f \in DOMAIN ws[j]
    BY <1>1, <1>2 DEF Own
<1> HIDE DEF all
<1>4. CASE Own(ws, f) = {}
    <2>1. Own(all, f) = {}
        BY <1>3, <1>4 DEF Own
    <2>q. QED BY <2>1, <1>4, ViewOfDocument DEF Settled, all
<1>5. ASSUME NEW i \in 1..Len(ws), Newest(ws, f, i)
      PROVE  View(doc, all, f) = View(doc, ws, f) /\ Settled(all, f)
    <2>1. Newest(all, f, i)
        BY <1>1, <1>2, <1>3, <1>5 DEF Newest
    <2>2. View(doc, all, f) = all[i][f] /\ View(doc, ws, f) = ws[i][f]
        BY <2>1, <1>1, <1>5, ViewOfNewest
    <2>3. i \in 1..Len(all)
        BY <1>1, <1>2
    <2>q. QED BY <2>1, <2>2, <2>3, <1>1 DEF Settled
<1>q. QED BY <1>4, <1>5 DEF Settled, all

\* New writes of f replace what is seen of f.
LEMMA NewerReplace ==
    ASSUME NEW doc, NEW S, NEW ws \in Seq(S), NEW more \in Seq(S), NEW f, NEW i,
           Newest(more, f, i)
    PROVE  View(doc, ws \o more, f) = more[i][f] /\ Settled(ws \o more, f)
<1> DEFINE all == ws \o more
           n == Len(ws) + i
<1>1. Len(ws) \in Nat /\ Len(more) \in Nat /\ i \in 1..Len(more)
    BY DEF Newest
<1>2. /\ all \in Seq(S) /\ Len(all) = Len(ws) + Len(more)
      /\ \A j \in 1..Len(all) : j > Len(ws) => j - Len(ws) \in 1..Len(more) /\ all[j] = more[j - Len(ws)]
    OBVIOUS
<1> HIDE DEF all
<1>3. n \in 1..Len(all) /\ n > Len(ws) /\ n - Len(ws) = i
    BY <1>1, <1>2
<1>4. all[n] = more[i]
    BY <1>2, <1>3
<1>5. Newest(all, f, n)
    <2>1. f \in DOMAIN all[n]
        BY <1>4 DEF Newest
    <2>2. ASSUME NEW j \in 1..Len(all), f \in DOMAIN all[j]
          PROVE  j <= n
        <3>1. CASE j > Len(ws)
            <4>1. j - Len(ws) \in 1..Len(more) /\ f \in DOMAIN more[j - Len(ws)]
                BY <3>1, <2>2, <1>2
            <4>2. j - Len(ws) <= i
                BY <4>1 DEF Newest
            <4>q. QED BY <4>2, <1>1
        <3>2. CASE ~(j > Len(ws))
            BY <3>2, <1>1
        <3>q. QED BY <3>1, <3>2
    <2>q. QED BY <2>1, <2>2, <1>3 DEF Newest
<1>6. View(doc, all, f) = all[n][f]
    BY <1>5, <1>2, ViewOfNewest
<1>q. QED BY <1>3, <1>4, <1>5, <1>6 DEF Settled, all

\* A write that the server applies is seen by its device as before.
LEMMA AppliedSeenAsBefore ==
    ASSUME NEW doc, NEW S, NEW ws \in Seq(S), ws # <<>>, NEW f \in Fields, Settled(ws, f)
    PROVE  /\ View(After(doc, Head(ws)), Tail(ws), f) = View(doc, ws, f)
           /\ Settled(Tail(ws), f)
<1> DEFINE rest == Tail(ws)
           new == After(doc, Head(ws))
<1>1. /\ rest \in Seq(S) /\ Len(ws) \in Nat \ {0} /\ Len(rest) = Len(ws) - 1
      /\ \A j \in 1..Len(rest) : j + 1 \in 1..Len(ws) /\ rest[j] = ws[j + 1]
      /\ Head(ws) = ws[1]
    OBVIOUS
<1>2. new[f] = IF f \in DOMAIN ws[1] THEN ws[1][f] ELSE doc[f]
    BY <1>1 DEF After
<1> HIDE DEF rest, new
<1>3. CASE Own(ws, f) = {}
    <2>1. Own(rest, f) = {}
        BY <1>1, <1>3 DEF Own
    <2>2. f \notin DOMAIN ws[1]
        BY <1>1, <1>3 DEF Own
    <2>q. QED BY <2>1, <2>2, <1>2, <1>3, ViewOfDocument DEF Settled, rest, new
<1>4. ASSUME NEW i \in 1..Len(ws), Newest(ws, f, i)
      PROVE  View(new, rest, f) = View(doc, ws, f) /\ Settled(rest, f)
    <2>0. View(doc, ws, f) = ws[i][f]
        BY <1>4, ViewOfNewest
    <2>1. CASE i = 1
        <3>1. Own(rest, f) = {}
            <4> SUFFICES ASSUME NEW j \in 1..Len(rest), f \in DOMAIN rest[j]
                         PROVE  FALSE
                BY DEF Own
            <4>1. j + 1 \in 1..Len(ws) /\ f \in DOMAIN ws[j + 1]
                BY <1>1
            <4>2. j + 1 <= 1
                BY <4>1, <1>4, <2>1 DEF Newest
            <4>q. QED BY <4>2
        <3>2. f \in DOMAIN ws[1]
            BY <1>4, <2>1 DEF Newest
        <3>q. QED BY <3>1, <3>2, <2>0, <2>1, <1>2, ViewOfDocument DEF Settled
    <2>2. CASE i # 1
        <3>1. i - 1 \in 1..Len(rest) /\ rest[i - 1] = ws[i]
            <4>1. i - 1 \in 1..Len(rest)
                BY <1>1, <2>2
            <4>q. QED BY <4>1, <1>1
        <3>2. Newest(rest, f, i - 1)
            <4>1. f \in DOMAIN rest[i - 1]
                BY <3>1, <1>4 DEF Newest
            <4>2. ASSUME NEW j \in 1..Len(rest), f \in DOMAIN rest[j]
                  PROVE  j <= i - 1
                <5>1. j + 1 \in 1..Len(ws) /\ f \in DOMAIN ws[j + 1]
                    BY <1>1, <4>2
                <5>2. j + 1 <= i
                    BY <5>1, <1>4 DEF Newest
                <5>q. QED BY <5>2, <1>1
            <4>q. QED BY <4>1, <4>2, <3>1 DEF Newest
        <3>3. View(new, rest, f) = rest[i - 1][f]
            BY <3>2, <1>1, ViewOfNewest
        <3>q. QED BY <3>1, <3>2, <3>3, <2>0 DEF Settled
    <2>q. QED BY <2>1, <2>2
<1>q. QED BY <1>3, <1>4 DEF Settled, rest, new

LEMMA NoneAreSettled ==
    ASSUME NEW f
    PROVE  Settled(<<>>, f)
<1>1. Len(<<>>) = 0
    OBVIOUS
<1>q. QED BY <1>1 DEF Settled, Own

\* A few writes are settled for every field.
LEMMA FewAreSettled ==
    ASSUME NEW f, NEW a, NEW b, NEW c, NEW d
    PROVE  /\ Settled(<<>>, f) /\ Settled(<<a>>, f) /\ Settled(<<a, b>>, f)
           /\ Settled(<<a, b, c>>, f) /\ Settled(<<a, b, c, d>>, f)
<1>0. Settled(<<>>, f)
    BY NoneAreSettled
<1>1. Settled(<<a>>, f)
    BY DEF Settled, Own, Newest
<1>2. Settled(<<a, b>>, f)
    <2>1. CASE f \in DOMAIN b
        <3>1. Newest(<<a, b>>, f, 2)
            BY <2>1 DEF Newest
        <3>q. QED BY <3>1 DEF Settled
    <2>2. CASE f \notin DOMAIN b
        BY <2>2 DEF Settled, Own, Newest
    <2>q. QED BY <2>1, <2>2
<1>3. Settled(<<a, b, c>>, f)
    <2>1. CASE f \in DOMAIN c
        <3>1. Newest(<<a, b, c>>, f, 3)
            BY <2>1 DEF Newest
        <3>q. QED BY <3>1 DEF Settled
    <2>2. CASE f \notin DOMAIN c /\ f \in DOMAIN b
        <3>1. Newest(<<a, b, c>>, f, 2)
            BY <2>2 DEF Newest
        <3>q. QED BY <3>1 DEF Settled
    <2>3. CASE f \notin DOMAIN c /\ f \notin DOMAIN b
        BY <2>3 DEF Settled, Own, Newest
    <2>q. QED BY <2>1, <2>2, <2>3
<1>4. Settled(<<a, b, c, d>>, f)
    <2>1. CASE f \in DOMAIN d
        <3>1. Newest(<<a, b, c, d>>, f, 4)
            BY <2>1 DEF Newest
        <3>q. QED BY <3>1 DEF Settled
    <2>2. CASE f \notin DOMAIN d /\ f \in DOMAIN c
        <3>1. Newest(<<a, b, c, d>>, f, 3)
            BY <2>2 DEF Newest
        <3>q. QED BY <3>1 DEF Settled
    <2>3. CASE f \notin DOMAIN d /\ f \notin DOMAIN c /\ f \in DOMAIN b
        <3>1. Newest(<<a, b, c, d>>, f, 2)
            BY <2>3 DEF Newest
        <3>q. QED BY <3>1 DEF Settled
    <2>4. CASE f \notin DOMAIN d /\ f \notin DOMAIN c /\ f \notin DOMAIN b
        BY <2>4 DEF Settled, Own, Newest
    <2>q. QED BY <2>1, <2>2, <2>3, <2>4
<1>q. QED BY <1>0, <1>1, <1>2, <1>3, <1>4

(* ------------------------------- types --------------------------------- *)

Values == UNION {FieldType(f) : f \in Fields}
Partials == UNION {[D -> Values] : D \in SUBSET Fields}
Writes == {w \in Partials : IsWrite(w)}
Answers == {a \in [kind : Kinds, data : Partials] : IsAnswer(a)}

\* The pending writes of a device.
Queue(ws) == ws \in Seq(Writes) /\ \A f \in Fields : Settled(ws, f)

\* What a cache may hold of a field is of the field's type.
Remembered ==
    /\ failures \in 0..MaxFailures
    /\ former = [f \in Fields |-> former[f]] /\ \A f \in Fields : former[f] \subseteq FieldType(f)

\* TypeOK with the sequences and the documents typed as a whole.
Types ==
    /\ server = [f \in Fields |-> server[f]] /\ \A f \in Fields : server[f] \in FieldType(f)
    /\ screen \in [Players -> {"arriving", "fight", "dialog", "left", "crashed"}]
    /\ selection \in [Players -> [Players -> Fighters]]
    /\ renamed \in [Players -> BOOLEAN]
    /\ pend = [p \in Players |-> pend[p]] /\ \A p \in Players : Queue(pend[p])
    /\ asked \in [Players -> [Kinds -> Nat]]
    /\ inbox \in [Players -> Seq(Answers)]
    /\ redraw \in [Players -> BOOLEAN] /\ conclude \in [Players -> BOOLEAN]
    /\ fights \in 0..MaxFights
    /\ Remembered
    /\ disturbed \in BOOLEAN /\ decisions \in Nat /\ announced \subseteq Players
    /\ unrecorded \in [StatFields -> Nat]

LEMMA TypesImplyTypeOK == Types => TypeOK
<1> SUFFICES ASSUME Types PROVE TypeOK
    OBVIOUS
<1>1. DOMAIN server = Fields
    BY DEF Types
<1>2. \A p \in Players : \A i \in 1..Len(pend[p]) : IsWrite(pend[p][i])
    <2> SUFFICES ASSUME NEW p \in Players, NEW i \in 1..Len(pend[p])
                 PROVE  IsWrite(pend[p][i])
        OBVIOUS
    <2>1. pend[p] \in Seq(Writes)
        BY DEF Types, Queue
    <2>2. pend[p][i] \in Writes
        BY <2>1
    <2>q. QED BY <2>2 DEF Writes
<1>3. \A p \in Players : \A i \in 1..Len(inbox[p]) : IsAnswer(inbox[p][i])
    <2> SUFFICES ASSUME NEW p \in Players, NEW i \in 1..Len(inbox[p])
                 PROVE  IsAnswer(inbox[p][i])
        OBVIOUS
    <2>1. inbox[p] \in Seq(Answers)
        BY DEF Types
    <2>2. inbox[p][i] \in Answers
        BY <2>1
    <2>q. QED BY <2>2 DEF Answers
<1>4. DOMAIN former = Fields
    BY DEF Types, Remembered
<1>q. QED BY <1>1, <1>2, <1>3, <1>4 DEF Types, TypeOK, Remembered

\* The names of the fields.
LEMMA FieldNames ==
    /\ InputFields \subseteq Fields /\ SelectionFields \subseteq Fields
    /\ ScoreFields \subseteq Fields /\ StatFields \subseteq Fields /\ "matchWinner" \in Fields
    /\ \A p \in Players :
         /\ Opponent(p) \in Players /\ Opponent(p) # p
         /\ InputField(p) \in InputFields /\ SelectionField(p) \in SelectionFields
         /\ WinsField(p) \in StatFields /\ LossesField(p) \in StatFields
BY DEF InputFields, SelectionFields, ScoreFields, StatFields, RoomFields, Fields, Players,
       Opponent, InputField, SelectionField, WinsField, LossesField

LEMMA FieldKinds ==
    /\ \A f \in InputFields : FieldType(f) = Fighters \cup {"Empty", "absent"}
    /\ \A f \in SelectionFields : FieldType(f) = Fighters \cup {"Rock.png"}
    /\ \A f \in ScoreFields \cup StatFields : FieldType(f) = Nat
    /\ FieldType("matchWinner") = {"none", "host", "guest", "Player 1", "Player 2"}
BY DEF FieldType, InputFields, SelectionFields, ScoreFields, StatFields

LEMMA ReadFields ==
    ASSUME NEW k \in Kinds
    PROVE  FieldsRead(k) \subseteq Fields
BY FieldNames DEF FieldsRead, Kinds, StatFields

LEMMA SingleWrite ==
    ASSUME NEW f \in Fields, NEW v \in FieldType(f)
    PROVE  Write(f, v) \in Writes /\ DOMAIN Write(f, v) = {f} /\ Write(f, v)[f] = v
<1>1. Write(f, v) \in [{f} -> FieldType(f)]
    BY DEF Write
<1>2. Write(f, v) \in [{f} -> Values]
    BY DEF Write, Values
<1>3. Write(f, v) \in Partials
    BY <1>2 DEF Partials
<1>4. IsWrite(Write(f, v))
    BY <1>1 DEF IsWrite
<1>q. QED BY <1>3, <1>4 DEF Writes, Write

\* A write gives each of its fields a value of the field.
LEMMA WriteTypes ==
    ASSUME NEW w \in Writes
    PROVE  DOMAIN w \subseteq Fields /\ \A f \in DOMAIN w : w[f] \in FieldType(f)
BY FieldNames, FieldKinds DEF Writes, IsWrite

LEMMA QueueGrows ==
    ASSUME NEW ws, NEW more, Queue(ws), Queue(more)
    PROVE  Queue(ws \o more)
<1>1. ws \in Seq(Writes) /\ more \in Seq(Writes) /\ ws \o more \in Seq(Writes)
    BY DEF Queue
<1>2. ASSUME NEW f \in Fields PROVE Settled(ws \o more, f)
    <2>1. CASE Own(more, f) = {}
        BY <2>1, <1>1, OthersKeep DEF Queue
    <2>2. ASSUME NEW i \in 1..Len(more), Newest(more, f, i)
          PROVE  Settled(ws \o more, f)
        BY <2>2, <1>1, NewerReplace
    <2>q. QED BY <2>1, <2>2 DEF Queue, Settled
<1>q. QED BY <1>1, <1>2 DEF Queue

LEMMA FewAreQueues ==
    ASSUME NEW a \in Writes, NEW b \in Writes, NEW c \in Writes, NEW d \in Writes
    PROVE  /\ Queue(<<>>) /\ Queue(<<a>>) /\ Queue(<<a, b>>)
           /\ Queue(<<a, b, c>>) /\ Queue(<<a, b, c, d>>)
<1>1. /\ <<>> \in Seq(Writes) /\ <<a>> \in Seq(Writes) /\ <<a, b>> \in Seq(Writes)
      /\ <<a, b, c>> \in Seq(Writes) /\ <<a, b, c, d>> \in Seq(Writes)
    OBVIOUS
<1>2. \A f : /\ Settled(<<>>, f) /\ Settled(<<a>>, f) /\ Settled(<<a, b>>, f)
             /\ Settled(<<a, b, c>>, f) /\ Settled(<<a, b, c, d>>, f)
    BY FewAreSettled
<1>q. QED BY <1>1, <1>2 DEF Queue

\* What a device sees of a field is of the field's type.
LEMMA LocalType ==
    ASSUME Types, NEW p \in Players, NEW f \in Fields
    PROVE  Local(p, f) \in FieldType(f)
<1>1. pend[p] \in Seq(Writes) /\ Settled(pend[p], f)
    BY DEF Types, Queue
<1>2. CASE Own(pend[p], f) = {}
    <2>1. Local(p, f) = server[f]
        BY <1>2, ViewOfDocument DEF Local
    <2>q. QED BY <2>1 DEF Types
<1>3. ASSUME NEW i \in 1..Len(pend[p]), Newest(pend[p], f, i)
      PROVE  Local(p, f) \in FieldType(f)
    <2>1. Local(p, f) = pend[p][i][f] /\ f \in DOMAIN pend[p][i]
        BY <1>1, <1>3, ViewOfNewest DEF Local, Newest
    <2>2. pend[p][i] \in Writes
        BY <1>1
    <2>q. QED BY <2>1, <2>2, WriteTypes
<1>q. QED BY <1>1, <1>2, <1>3 DEF Settled

LEMMA AnswerType ==
    ASSUME NEW k \in Kinds, NEW data, data = [f \in FieldsRead(k) |-> data[f]],
           \A f \in FieldsRead(k) : data[f] \in FieldType(f)
    PROVE  [kind |-> k, data |-> data] \in Answers
<1>1. data \in [FieldsRead(k) -> Values]
    BY ReadFields DEF Values
<1>2. data \in Partials
    BY <1>1, ReadFields DEF Partials
<1>3. IsAnswer([kind |-> k, data |-> data])
    BY DEF IsAnswer
<1>q. QED BY <1>2, <1>3 DEF Answers

\* A read is answered with values of the fields read, by the server or out of
\* the cache.
LEMMA ServeAnswers ==
    ASSUME Types, NEW p \in Players, NEW k \in Kinds, Serve(p, k) \/ ServeCached(p, k)
    PROVE  \E data : Answer(p, k, data) /\ [kind |-> k, data |-> data] \in Answers
<1>0. \A f \in FieldsRead(k) : f \in Fields /\ Local(p, f) \in FieldType(f)
    BY ReadFields, LocalType
<1>1. CASE Serve(p, k)
    <2> DEFINE data == [f \in FieldsRead(k) |-> Local(p, f)]
    <2>1. Answer(p, k, data)
        BY <1>1 DEF Serve
    <2>2. data = [f \in FieldsRead(k) |-> data[f]] /\ \A f \in FieldsRead(k) : data[f] \in FieldType(f)
        BY <1>0
    <2> HIDE DEF data
    <2>q. QED BY <2>1, <2>2, AnswerType
<1>2. CASE ServeCached(p, k)
    <2> DEFINE Range == UNION {CachedValues(p, f) : f \in FieldsRead(k)}
    <2>1. PICK data \in [FieldsRead(k) -> Range] :
             /\ \A f \in FieldsRead(k) : data[f] \in CachedValues(p, f)
             /\ Answer(p, k, data)
        BY <1>2 DEF ServeCached
    <2> HIDE DEF Range
    <2>2. \A f \in FieldsRead(k) : CachedValues(p, f) \subseteq FieldType(f)
        BY <1>0 DEF CachedValues, Types, Remembered
    <2>3. data = [f \in FieldsRead(k) |-> data[f]] /\ \A f \in FieldsRead(k) : data[f] \in FieldType(f)
        BY <2>1, <2>2
    <2>q. QED BY <2>1, <2>3, AnswerType
<1>q. QED BY <1>1, <1>2

\* What an answer holds.
LEMMA AnswerHolds ==
    ASSUME NEW a \in Answers
    PROVE  /\ a.kind \in Kinds /\ DOMAIN a.data = FieldsRead(a.kind)
           /\ a.kind = "fight" => \A f \in InputFields : a.data[f] \in FieldType(f)
           /\ a.kind = "engine" => \A f \in ScoreFields : a.data[f] \in Nat
           /\ a.kind \in StatFields => a.data[a.kind] \in Nat
BY FieldKinds DEF Answers, IsAnswer, FieldsRead, Kinds, StatFields

LEMMA TypesInit == Init => Types
<1> SUFFICES ASSUME Init PROVE Types
    OBVIOUS
<1>1. server = [f \in Fields |-> server[f]] /\ \A f \in Fields : server[f] \in FieldType(f)
    <2>1. server = [f \in Fields |-> server[f]]
        BY DEF Init
    <2>2. ASSUME NEW f \in Fields PROVE server[f] \in FieldType(f)
        BY DEF Init, FieldType
    <2>q. QED BY <2>1, <2>2
<1>2. pend = [p \in Players |-> pend[p]] /\ \A p \in Players : Queue(pend[p])
    <2>0. <<>> \in Seq(Writes)
        OBVIOUS
    <2>1. Queue(<<>>)
        BY <2>0, NoneAreSettled DEF Queue
    <2>q. QED BY <2>1 DEF Init
<1>3. selection \in [Players -> [Players -> Fighters]]
    BY DEF Init, Fighters
<1>4. inbox \in [Players -> Seq(Answers)]
    <2>1. <<>> \in Seq(Answers)
        OBVIOUS
    <2>q. QED BY <2>1 DEF Init
<1>5. /\ fights \in 0..MaxFights /\ asked \in [Players -> [Kinds -> Nat]]
      /\ unrecorded \in [StatFields -> Nat]
    BY BoundsAssumption DEF Init
<1>8. Remembered
    <2>1. failures \in 0..MaxFailures /\ former = [f \in Fields |-> former[f]]
        BY BoundsAssumption DEF Init
    <2>2. \A f \in Fields : former[f] \subseteq FieldType(f)
        BY <1>1 DEF Init
    <2>q. QED BY <2>1, <2>2 DEF Remembered
<1>6. /\ renamed \in [Players -> BOOLEAN] /\ redraw \in [Players -> BOOLEAN]
      /\ conclude \in [Players -> BOOLEAN] /\ disturbed \in BOOLEAN
    BY DEF Init
<1>7. /\ screen \in [Players -> {"arriving", "fight", "dialog", "left", "crashed"}]
      /\ decisions \in Nat /\ announced \subseteq Players
    BY DEF Init
<1>q. QED BY <1>1, <1>2, <1>3, <1>4, <1>5, <1>6, <1>7, <1>8 DEF Types

(* Parts of the steps. *)

LEMMA Enqueued ==
    ASSUME Types, NEW p \in Players, NEW more, Queue(more),
           pend' = [pend EXCEPT ![p] = @ \o more]
    PROVE  pend' = [q \in Players |-> pend'[q]] /\ \A q \in Players : Queue(pend'[q])
<1>1. pend' = [q \in Players |-> pend'[q]]
    BY DEF Types
<1>2. \A q \in Players : pend'[q] = IF q = p THEN pend[p] \o more ELSE pend[q]
    BY DEF Types
<1>3. Queue(pend[p] \o more)
    BY QueueGrows DEF Types
<1>q. QED BY <1>1, <1>2, <1>3 DEF Types

LEMMA AskedType ==
    ASSUME Types, NEW p \in Players, NEW kinds, Ask(p, kinds)
    PROVE  asked' \in [Players -> [Kinds -> Nat]]
BY DEF Types, Ask

LEMMA NoticeType ==
    ASSUME ListenersNotice
    PROVE  redraw' \in [Players -> BOOLEAN]
BY Zenon DEF ListenersNotice

\* What is remembered of the documents.
LEMMA RememberType ==
    ASSUME Types, Remember, failures' \in 0..MaxFailures,
           \A f \in Fields : server'[f] \in FieldType(f)
    PROVE  Remembered'
<1>1. former' = [f \in Fields |-> former'[f]]
    BY DEF Remember
<1>2. \A f \in Fields : former'[f] \subseteq FieldType(f)
    BY DEF Remember, Types, Remembered
<1>q. QED BY <1>1, <1>2 DEF Remembered

LEMMA OfflineType ==
    ASSUME Types, NEW p \in Players, Offline(p), UNCHANGED server
    PROVE  Remembered'
<1>1. failures' \in 0..MaxFailures
    BY BoundsAssumption DEF Offline, Types, Remembered
<1>q. QED BY <1>1, RememberType DEF Offline, Types

LEMMA StillRemembered ==
    ASSUME Types, UNCHANGED offline
    PROVE  Remembered'
BY DEF Types, Remembered, offline

\* A callback has an answer and takes it from the inbox.
LEMMA CallbackType ==
    ASSUME Types, NEW p \in Players, NEW kinds, Callback(p, kinds)
    PROVE  /\ inbox' \in [Players -> Seq(Answers)]
           /\ Head(inbox[p]) \in Answers /\ Head(inbox[p]).kind \in kinds
<1>1. inbox[p] \in Seq(Answers) /\ inbox[p] # <<>>
    BY DEF Types, Callback
<1>2. Head(inbox[p]) \in Answers /\ Tail(inbox[p]) \in Seq(Answers)
    BY <1>1
<1>q. QED BY <1>2 DEF Types, Callback

\* The writes of a resolution.
LEMMA ResolutionWrites ==
    ASSUME Types, NEW p \in Players, NEW theirs \in Fighters
    PROVE  /\ Write(SelectionField(p), selection[p][p]) \in Writes
           /\ Write(SelectionField(Opponent(p)), theirs) \in Writes
           /\ Write("hostInputCheck", "Empty") \in Writes
           /\ Write("guestInputCheck", "Empty") \in Writes
           /\ Write(InputField(p), selection[p][p]) \in Writes
<1>1. selection[p][p] \in Fighters
    BY DEF Types
<1>2. /\ SelectionField(p) \in SelectionFields /\ SelectionField(Opponent(p)) \in SelectionFields
      /\ InputField(p) \in InputFields
    BY FieldNames
<1>3. \A f \in SelectionFields : f \in Fields /\ Fighters \subseteq FieldType(f)
    BY FieldNames, FieldKinds
<1>4. \A f \in InputFields : f \in Fields /\ Fighters \cup {"Empty"} \subseteq FieldType(f)
    BY FieldNames, FieldKinds
<1>5. "hostInputCheck" \in InputFields /\ "guestInputCheck" \in InputFields
    BY DEF InputFields
<1>q. QED BY <1>1, <1>2, <1>3, <1>4, <1>5, SingleWrite

\* gameLogic gives numbers, and the winner is a player or a label.
LEMMA ScoreTypes ==
    ASSUME NEW data, \A f \in ScoreFields : data[f] \in Nat, NEW sel
    PROVE  /\ NewScores(data, sel).hostScore \in Nat
           /\ NewScores(data, sel).guestScore \in Nat
           /\ NewScores(data, sel).roundNumber \in Nat
<1>1. data["hostScore"] \in Nat /\ data["guestScore"] \in Nat /\ data["roundNumber"] \in Nat
    BY DEF ScoreFields
<1>q. QED BY <1>1 DEF NewScores

LEMMA WinnerType ==
    ASSUME NEW p \in Players, NEW s
    PROVE  /\ Leader(s) \in Players
           /\ NameLabel(p, Leader(s)) \in FieldType("matchWinner")
BY FieldKinds DEF Leader, Players, NameLabel

LEMMA ScoreWrites ==
    ASSUME NEW s, s.hostScore \in Nat, s.guestScore \in Nat, s.roundNumber \in Nat,
           NEW p \in Players
    PROVE  /\ Write("hostScore", s.hostScore) \in Writes
           /\ Write("guestScore", s.guestScore) \in Writes
           /\ Write("roundNumber", s.roundNumber) \in Writes
           /\ Write("matchWinner", NameLabel(p, Leader(s))) \in Writes
<1>1. NameLabel(p, Leader(s)) \in FieldType("matchWinner")
    BY WinnerType
<1>2. \A f \in {"hostScore", "guestScore", "roundNumber"} : f \in Fields /\ FieldType(f) = Nat
    BY FieldNames, FieldKinds DEF ScoreFields
<1>3. /\ Write("hostScore", s.hostScore) \in Writes
      /\ Write("guestScore", s.guestScore) \in Writes
      /\ Write("roundNumber", s.roundNumber) \in Writes
    BY <1>2, SingleWrite
<1>4. Write("matchWinner", NameLabel(p, Leader(s))) \in Writes
    BY <1>1, FieldNames, SingleWrite
<1>q. QED BY <1>3, <1>4

\* The writes of initializeInputRoom.
LEMMA AppearWrites ==
    ASSUME Types
    PROVE  LET setData == [f \in InputFields |-> IF f = "guestInputCheck" THEN "Empty" ELSE "absent"]
           IN  Queue(<<setData, Write("hostInputCheck", "Empty")>>)
<1> DEFINE setData == [f \in InputFields |-> IF f = "guestInputCheck" THEN "Empty" ELSE "absent"]
<1>1. setData \in Writes
    <2>1. setData \in [InputFields -> {"Empty", "absent"}]
        OBVIOUS
    <2>2. setData \in [InputFields -> Values]
        <3>1. \A f \in InputFields : f \in Fields /\ setData[f] \in FieldType(f)
            BY FieldNames, FieldKinds
        <3>q. QED BY <3>1 DEF Values
    <2>3. setData \in Partials
        BY <2>2, FieldNames DEF Partials
    <2> HIDE DEF setData
    <2>q. QED BY <2>1, <2>3 DEF Writes, IsWrite
<1>2. Write("hostInputCheck", "Empty") \in Writes
    BY FieldNames, FieldKinds, SingleWrite DEF InputFields
<1> HIDE DEF setData
<1>3. Queue(<<setData, Write("hostInputCheck", "Empty")>>)
    BY <1>1, <1>2, FewAreQueues
<1>q. QED BY <1>3 DEF setData

(* The steps of a player. *)

LEMMA TypesPlayer ==
    ASSUME Types, NEW p \in Players, PlayerStep(p)
    PROVE  Types'
<1>0. Remembered'
    BY StillRemembered DEF PlayerStep, Appear, SelectFighter, LayoutPass, Fight, Exit, TapBeside
<1>1. CASE Appear(p)
    <2> DEFINE setData == [f \in InputFields |-> IF f = "guestInputCheck" THEN "Empty" ELSE "absent"]
    <2>3. Queue(<<setData, Write("hostInputCheck", "Empty")>>)
        BY AppearWrites
    <2>4. pend' = [pend EXCEPT ![p] = @ \o <<setData, Write("hostInputCheck", "Empty")>>]
        BY <1>1 DEF Appear
    <2>5. pend' = [q \in Players |-> pend'[q]] /\ \A q \in Players : Queue(pend'[q])
        <3> HIDE DEF setData
        <3>q. QED BY <2>3, <2>4, Enqueued
    <2>6. screen' \in [Players -> {"arriving", "fight", "dialog", "left", "crashed"}]
        BY <1>1 DEF Appear, Types
    <2>q. QED BY <1>0, <2>5, <2>6, <1>1 DEF Appear, Types, history
<1>2. ASSUME NEW f \in Hands, SelectFighter(p, f)
      PROVE  Types'
    <2>1. selection' \in [Players -> [Players -> Fighters]]
        BY <1>2, HandsAssumption DEF SelectFighter, Types
    <2>q. QED BY <1>0, <2>1, <1>2 DEF SelectFighter, Types, history
<1>3. CASE LayoutPass(p)
    <2>1. renamed' \in [Players -> BOOLEAN]
        BY <1>3 DEF LayoutPass, Types
    <2>q. QED BY <1>0, <2>1, <1>3 DEF LayoutPass, Types, history
<1>4. CASE Fight(p)
    <2>1. asked' \in [Players -> [Kinds -> Nat]]
        BY <1>4, AskedType DEF Fight
    <2>2. fights' \in 0..MaxFights
        BY <1>4, BoundsAssumption DEF Fight, Types
    <2>q. QED BY <1>0, <2>1, <2>2, <1>4 DEF Fight, Types, gameVars, history
<1>5. CASE Exit(p)
    <2>1. /\ screen' \in [Players -> {"arriving", "fight", "dialog", "left", "crashed"}]
          /\ redraw' \in [Players -> BOOLEAN]
        BY <1>5 DEF Exit, Types
    <2>q. QED BY <1>0, <2>1, <1>5 DEF Exit, Types, history
<1>6. CASE TapBeside(p)
    <2>1. screen' \in [Players -> {"arriving", "fight", "dialog", "left", "crashed"}]
        BY <1>6 DEF TapBeside, Types
    <2>q. QED BY <1>0, <2>1, <1>6 DEF TapBeside, Types, history
<1>q. QED BY <1>1, <1>2, <1>3, <1>4, <1>5, <1>6 DEF PlayerStep

(* The steps of the system. *)

LEMMA TypesApply ==
    ASSUME Types, NEW p \in Players, ApplyWrite(p)
    PROVE  Types'
<1>1. pend[p] \in Seq(Writes) /\ pend[p] # <<>>
    BY DEF ApplyWrite, Types, Queue
<1>2. Head(pend[p]) \in Writes /\ Tail(pend[p]) \in Seq(Writes)
    BY <1>1
<1>3. \A f \in DOMAIN Head(pend[p]) : Head(pend[p])[f] \in FieldType(f)
    BY <1>2, WriteTypes
<1>4. server' = [f \in Fields |-> server'[f]] /\ \A f \in Fields : server'[f] \in FieldType(f)
    BY <1>3 DEF ApplyWrite, After, Types
<1>5. ASSUME NEW f \in Fields PROVE Settled(Tail(pend[p]), f)
    BY <1>1, AppliedSeenAsBefore DEF Types, Queue
<1>6. pend' = [q \in Players |-> pend'[q]] /\ \A q \in Players : Queue(pend'[q])
    <2>1. Queue(Tail(pend[p]))
        BY <1>2, <1>5 DEF Queue
    <2>q. QED BY <2>1 DEF ApplyWrite, Types
<1>7. redraw' \in [Players -> BOOLEAN]
    BY NoticeType DEF ApplyWrite
<1>8. Remembered'
    <2>1. failures' \in 0..MaxFailures
        BY DEF ApplyWrite, Types, Remembered
    <2>q. QED BY <2>1, <1>4, RememberType DEF ApplyWrite
<1>q. QED BY <1>4, <1>6, <1>7, <1>8 DEF ApplyWrite, Types, gameVars, history

LEMMA TypesServe ==
    ASSUME Types, NEW p \in Players, NEW k \in Kinds, Serve(p, k) \/ ServeCached(p, k)
    PROVE  Types'
<1>0. PICK data : Answer(p, k, data) /\ [kind |-> k, data |-> data] \in Answers
    BY ServeAnswers
<1> DEFINE answer == [kind |-> k, data |-> data]
<1>1. inbox' = [inbox EXCEPT ![p] = Append(@, answer)] /\ answer \in Answers
    BY <1>0 DEF Answer
<1> HIDE DEF answer
<1>2. inbox' \in [Players -> Seq(Answers)]
    BY <1>1 DEF Types
<1>3. asked' \in [Players -> [Kinds -> Nat]]
    <2>1. asked[p][k] \in Nat /\ asked[p][k] > 0
        BY <1>0 DEF Answer, Types
    <2>2. asked[p][k] - 1 \in Nat
        BY <2>1
    <2>q. QED BY <2>2, <1>0 DEF Answer, Types
<1>4. disturbed' \in BOOLEAN
    BY <1>0, Zenon DEF Answer
<1>5. Remembered'
    <2>1. CASE Serve(p, k)
        BY <2>1, StillRemembered DEF Serve
    <2>2. CASE ServeCached(p, k)
        BY <2>2, <1>0, OfflineType DEF ServeCached, Answer
    <2>q. QED BY <2>1, <2>2
<1>q. QED BY <1>0, <1>2, <1>3, <1>4, <1>5 DEF Answer, Types, gameVars

LEMMA TypesFails ==
    ASSUME Types, NEW p \in Players, NEW k \in Kinds, ReadFails(p, k)
    PROVE  Types'
<1>1. asked' \in [Players -> [Kinds -> Nat]]
    <2>1. asked[p][k] \in Nat /\ asked[p][k] > 0
        BY DEF ReadFails, Types
    <2>2. asked[p][k] - 1 \in Nat
        BY <2>1
    <2>q. QED BY <2>2 DEF ReadFails, Types
<1>2. unrecorded' \in [StatFields -> Nat]
    BY DEF ReadFails, Types
<1>3. Remembered'
    BY OfflineType DEF ReadFails
<1>q. QED BY <1>1, <1>2, <1>3 DEF ReadFails, Types, gameVars

LEMMA TypesFight ==
    ASSUME Types, NEW p \in Players, FightCallback(p)
    PROVE  Types'
<1>0. Remembered'
    BY StillRemembered DEF FightCallback
<1> DEFINE theirs == Head(inbox[p]).data[InputField(Opponent(p))]
<1>1. inbox' \in [Players -> Seq(Answers)]
    BY CallbackType DEF FightCallback
<1>2. redraw' \in [Players -> BOOLEAN]
    BY NoticeType DEF FightCallback
<1>3. selection[p][p] \in Fighters
    BY DEF Types
<1>4. CASE Submit(p)
    <2>1. Write(InputField(p), selection[p][p]) \in Writes
        BY ResolutionWrites, <1>3
    <2>2. Queue(<<Write(InputField(p), selection[p][p])>>)
        BY <2>1, FewAreQueues
    <2>3. pend' = [q \in Players |-> pend'[q]] /\ \A q \in Players : Queue(pend'[q])
        BY <2>2, <1>4, Enqueued DEF Submit
    <2>q. QED BY <1>0, <2>3, <1>1, <1>2, <1>4 DEF FightCallback, Submit, Types, history
<1>5. ASSUME theirs \in Fighters, Resolve(p, theirs)
      PROVE  Types'
    <2> HIDE DEF theirs
    <2> DEFINE more == << Write(SelectionField(p), selection[p][p]),
                          Write(SelectionField(Opponent(p)), theirs),
                          Write("hostInputCheck", "Empty"), Write("guestInputCheck", "Empty") >>
    <2>1. Queue(more)
        BY <1>5, ResolutionWrites, FewAreQueues
    <2>2. pend' = [pend EXCEPT ![p] = @ \o more]
        BY <1>5 DEF Resolve
    <2>3. pend' = [q \in Players |-> pend'[q]] /\ \A q \in Players : Queue(pend'[q])
        <3> HIDE DEF more
        <3>q. QED BY <2>1, <2>2, Enqueued
    <2>4. asked' \in [Players -> [Kinds -> Nat]]
        BY <1>5, AskedType DEF Resolve
    <2>5. selection' \in [Players -> [Players -> Fighters]]
        BY <1>5, FieldNames DEF Resolve, Types
    <2>q. QED BY <1>0, <2>3, <2>4, <2>5, <1>1, <1>2, <1>5 DEF FightCallback, Resolve, Types, history
<1>6. CASE FightTraps(p)
    <2>1. screen' \in [Players -> {"arriving", "fight", "dialog", "left", "crashed"}]
        BY <1>6 DEF FightTraps, Types
    <2>q. QED BY <1>0, <2>1, <1>1, <1>2, <1>6 DEF FightCallback, FightTraps, Types, history
<1>q. QED BY <1>4, <1>5, <1>6 DEF FightCallback

\* What the engine's callback writes: the scores, and the winner of a match that
\* is over.
NewRound(p) == NewScores(Head(inbox[p]).data, selection[p])
RoundWrites(s) == << Write("hostScore", s.hostScore), Write("guestScore", s.guestScore),
                     Write("roundNumber", s.roundNumber) >>
DecisionWrites(p, s) == << Write("hostScore", s.hostScore), Write("guestScore", s.guestScore),
                           Write("roundNumber", s.roundNumber),
                           Write("matchWinner", NameLabel(p, Leader(s))) >>

LEMMA EngineWrites ==
    ASSUME Types, NEW p \in Players, EngineCallback(p), NEW s, s = NewRound(p)
    PROVE  /\ s.hostScore \in Nat /\ s.guestScore \in Nat /\ s.roundNumber \in Nat
           /\ Queue(RoundWrites(s)) /\ Queue(DecisionWrites(p, s))
           /\ MatchOver(s) =>
                /\ pend' = [pend EXCEPT ![p] = @ \o DecisionWrites(p, s)]
                /\ Ask(p, {WinsField(Leader(s)), LossesField(Opponent(Leader(s)))})
                /\ decisions' = decisions + 1
           /\ ~MatchOver(s) =>
                pend' = [pend EXCEPT ![p] = @ \o RoundWrites(s)] /\ UNCHANGED <<asked, decisions>>
<1> DEFINE data == Head(inbox[p]).data
           host == Write("hostScore", s.hostScore)
           guest == Write("guestScore", s.guestScore)
           round == Write("roundNumber", s.roundNumber)
           winner == Write("matchWinner", NameLabel(p, Leader(s)))
<1>1. Head(inbox[p]) \in Answers /\ Head(inbox[p]).kind = "engine"
    BY CallbackType DEF EngineCallback
<1>2. s.hostScore \in Nat /\ s.guestScore \in Nat /\ s.roundNumber \in Nat
    <2>1. \A f \in ScoreFields : data[f] \in Nat
        BY <1>1, AnswerHolds
    <2>2. s = NewScores(data, selection[p])
        BY DEF NewRound
    <2> HIDE DEF data
    <2>q. QED BY <2>1, <2>2, ScoreTypes
<1>3. host \in Writes /\ guest \in Writes /\ round \in Writes /\ winner \in Writes
    BY <1>2, ScoreWrites
<1>4. \/ /\ MatchOver(s)
         /\ pend' = [pend EXCEPT ![p] = @ \o <<host, guest, round>> \o <<winner>>]
         /\ Ask(p, {WinsField(Leader(s)), LossesField(Opponent(Leader(s)))})
         /\ decisions' = decisions + 1
      \/ /\ ~MatchOver(s)
         /\ pend' = [pend EXCEPT ![p] = @ \o <<host, guest, round>>]
         /\ UNCHANGED <<asked, decisions>>
    BY DEF EngineCallback, NewRound
<1>5. RoundWrites(s) = <<host, guest, round>> /\ DecisionWrites(p, s) = <<host, guest, round, winner>>
    BY DEF RoundWrites, DecisionWrites
<1> HIDE DEF host, guest, round, winner
<1>6. (pend[p] \o <<host, guest, round>>) \o <<winner>> = pend[p] \o <<host, guest, round, winner>>
    <2>1. pend[p] \in Seq(Writes)
        BY DEF Types, Queue
    <2>q. QED BY <2>1, <1>3
<1>7. Queue(<<host, guest, round>>) /\ Queue(<<host, guest, round, winner>>)
    BY <1>3, FewAreQueues
<1>8. [pend EXCEPT ![p] = @ \o <<host, guest, round>> \o <<winner>>]
        = [pend EXCEPT ![p] = @ \o <<host, guest, round, winner>>]
    BY <1>6
<1>q. QED BY <1>2, <1>4, <1>5, <1>7, <1>8

LEMMA TypesEngine ==
    ASSUME Types, NEW p \in Players, EngineCallback(p)
    PROVE  Types'
<1>0. Remembered'
    BY StillRemembered DEF EngineCallback
<1> DEFINE s == NewRound(p)
<1>1. inbox' \in [Players -> Seq(Answers)]
    BY CallbackType DEF EngineCallback
<1>2. redraw' \in [Players -> BOOLEAN]
    BY NoticeType DEF EngineCallback
<1> HIDE DEF s
<1>3. /\ Queue(RoundWrites(s)) /\ Queue(DecisionWrites(p, s))
      /\ MatchOver(s) =>
           /\ pend' = [pend EXCEPT ![p] = @ \o DecisionWrites(p, s)]
           /\ Ask(p, {WinsField(Leader(s)), LossesField(Opponent(Leader(s)))})
           /\ decisions' = decisions + 1
      /\ ~MatchOver(s) =>
           pend' = [pend EXCEPT ![p] = @ \o RoundWrites(s)] /\ UNCHANGED <<asked, decisions>>
    BY EngineWrites DEF s
<1>4. pend' = [q \in Players |-> pend'[q]] /\ \A q \in Players : Queue(pend'[q])
    BY <1>3, Enqueued
<1>5. decisions' \in Nat
    BY <1>3 DEF Types
<1>6. asked' \in [Players -> [Kinds -> Nat]]
    <2>1. CASE MatchOver(s)
        BY <2>1, <1>3, AskedType
    <2>2. CASE ~MatchOver(s)
        BY <2>2, <1>3 DEF Types
    <2>q. QED BY <2>1, <2>2
<1>q. QED BY <1>0, <1>1, <1>2, <1>4, <1>5, <1>6 DEF EngineCallback, Types, gameVars

LEMMA TypesStat ==
    ASSUME Types, NEW p \in Players, StatCallback(p)
    PROVE  Types'
<1> DEFINE f == Head(inbox[p]).kind
           v == Head(inbox[p]).data[f] + 1
<1>1. inbox' \in [Players -> Seq(Answers)] /\ Head(inbox[p]) \in Answers /\ f \in StatFields
    BY CallbackType DEF StatCallback
<1>2. Head(inbox[p]).data[f] \in Nat
    BY <1>1, AnswerHolds
<1>0. v \in Nat
    <2> DEFINE n == Head(inbox[p]).data[f]
    <2>1. n \in Nat /\ v = n + 1
        BY <1>2
    <2> HIDE DEF n, v
    <2>q. QED BY <2>1
<1>3. f \in Fields /\ FieldType(f) = Nat /\ v \in Nat
    BY <1>0, <1>1, FieldNames, FieldKinds
<1>4. pend' = [pend EXCEPT ![p] = @ \o <<Write(f, v)>>]
    BY DEF StatCallback
<1> HIDE DEF f, v
<1>5. Write(f, v) \in Writes
    BY <1>3, SingleWrite
<1>6. pend' = [q \in Players |-> pend'[q]] /\ \A q \in Players : Queue(pend'[q])
    <2>1. Queue(<<Write(f, v)>>)
        BY <1>5, FewAreQueues
    <2>q. QED BY <2>1, <1>4, Enqueued
<1>7. Remembered'
    BY StillRemembered DEF StatCallback
<1>q. QED BY <1>1, <1>6, <1>7 DEF StatCallback, Types, gameVars, history

\* The steps of the screen listener and of its dialog.
ScreenStep(p) ==
    ScreenUpdate(p) \/ ScreenUpdateFails(p) \/ MatchEndDialog(p) \/ DialogFails(p)

LEMMA ScreenSteps ==
    ASSUME NEW p \in Players, ScreenStep(p)
    PROVE  UNCHANGED <<server, pend, inbox, asked, disturbed, decisions, unrecorded>>
BY DEF ScreenStep, ScreenUpdate, ScreenUpdateFails, MatchEndDialog, DialogFails, history

LEMMA TypesScreen ==
    ASSUME Types, NEW p \in Players, ScreenStep(p)
    PROVE  Types'
<1>1. CASE ScreenUpdate(p)
    <2>1. redraw' \in [Players -> BOOLEAN]
        BY <1>1 DEF ScreenUpdate, Types
    <2>2. conclude' \in [Players -> BOOLEAN]
        <3>1. (conclude[p] \/ MatchEnded(Room(p))) \in BOOLEAN
            BY Zenon
        <3> DEFINE c == conclude[p] \/ MatchEnded(Room(p))
        <3>2. conclude' = [conclude EXCEPT ![p] = c] /\ conclude \in [Players -> BOOLEAN]
            BY <1>1 DEF ScreenUpdate, Types
        <3> HIDE DEF c
        <3>q. QED BY <3>1, <3>2, Zenon DEF c
    <2>3. Remembered'
        BY <1>1, StillRemembered DEF ScreenUpdate
    <2>q. QED BY <2>1, <2>2, <2>3, <1>1 DEF ScreenUpdate, Types, gameVars, history
<1>2. CASE MatchEndDialog(p)
    <2>1. /\ conclude' \in [Players -> BOOLEAN] /\ announced' \subseteq Players
          /\ screen' \in [Players -> {"arriving", "fight", "dialog", "left", "crashed"}]
        BY <1>2 DEF MatchEndDialog, Types
    <2>2. Remembered'
        BY <1>2, StillRemembered DEF MatchEndDialog
    <2>q. QED BY <2>1, <2>2, <1>2 DEF MatchEndDialog, Types
<1>3. CASE ScreenUpdateFails(p) \/ DialogFails(p)
    <2>1. redraw' \in [Players -> BOOLEAN] /\ conclude' \in [Players -> BOOLEAN]
        BY <1>3 DEF ScreenUpdateFails, DialogFails, Types
    <2>2. Remembered'
        BY <1>3, OfflineType DEF ScreenUpdateFails, DialogFails
    <2>q. QED BY <2>1, <2>2, <1>3 DEF ScreenUpdateFails, DialogFails, Types, gameVars, history
<1>q. QED BY <1>1, <1>2, <1>3 DEF ScreenStep

LEMMA TypesNext ==
    ASSUME Types, [Next]_vars
    PROVE  Types'
<1>1. CASE UNCHANGED vars
    BY <1>1, StillRemembered DEF vars, gameVars, history, Types
<1>2. ASSUME NEW p \in Players, PlayerStep(p) PROVE Types'
    BY <1>2, TypesPlayer
<1>3. ASSUME NEW p \in Players, SystemStep(p) PROVE Types'
    BY <1>3, TypesApply, TypesServe, TypesFails, TypesFight, TypesEngine, TypesStat, TypesScreen
    DEF SystemStep, ScreenStep
<1>q. QED BY <1>1, <1>2, <1>3 DEF Next

LEMMA AlwaysTypes == Spec => []Types
<1>1. Init => Types
    BY TypesInit
<1>2. Types /\ [Next]_vars => Types'
    BY TypesNext
<1>q. QED BY <1>1, <1>2, PTL DEF Spec

\* Every document, pending write, answer and counter of the match has its type,
\* whatever the players and the network do.
THEOREM MatchTypeCorrect == Spec => []TypeOK
BY AlwaysTypes, TypesImplyTypeOK, PTL

(* ------------------------- scores and winner --------------------------- *)

Sums(d) == d["hostScore"] + d["guestScore"] = d["roundNumber"]

Led(d) == MatchOver(d) => d["matchWinner"] \in
    IF d["hostScore"] > d["guestScore"] THEN {"host", "Player 1"} ELSE {"guest", "Player 2"}

KeyFields == ScoreFields \cup {"matchWinner"}

\* What p sees of the room is the outcome of whole rounds.
Consistent(p) == Sums(Room(p)) /\ Led(Room(p))

\* At most one player resolves a round.
Alone == \A p, q \in Players : Resolving(p) /\ Resolving(q) => p = q

AnswersAddUp == \A p \in Players : \A i \in 1..Len(inbox[p]) :
    inbox[p][i].kind = "engine" => Sums(inbox[p][i].data)

\* The inductive invariant.  A player's view is consistent while the opponent is
\* not in the middle of a resolution; the resolving player's own view is, since
\* its writes reach it all at once.
OneAtATime ==
    ~disturbed =>
        /\ Alone /\ AnswersAddUp
        /\ \A p \in Players : Resolving(Opponent(p)) \/ Consistent(p)

LEMMA KeysAreRoom ==
    /\ KeyFields \subseteq RoomFields /\ RoomFields \subseteq Fields
    /\ KeyFields \cap InputFields = {} /\ KeyFields \cap StatFields = {}
    /\ KeyFields \cap SelectionFields = {}
    /\ "hostScore" \in KeyFields /\ "guestScore" \in KeyFields
    /\ "roundNumber" \in KeyFields /\ "matchWinner" \in KeyFields
BY DEF KeyFields, ScoreFields, RoomFields, Fields, InputFields, StatFields, SelectionFields

\* Consistency depends on four fields only.
LEMMA SameKeys ==
    ASSUME NEW d, NEW e, \A f \in KeyFields : d[f] = e[f]
    PROVE  (Sums(d) <=> Sums(e)) /\ (Led(d) <=> Led(e))
BY KeysAreRoom DEF Sums, Led, MatchOver

LEMMA RoomKeys ==
    ASSUME NEW p \in Players, NEW f \in KeyFields
    PROVE  Room(p)[f] = Local(p, f)
BY KeysAreRoom DEF Room

LEMMA StillConsistent ==
    ASSUME NEW p \in Players, \A f \in KeyFields : Local(p, f)' = Local(p, f)
    PROVE  Consistent(p)' <=> Consistent(p)
<1>1. \A f \in KeyFields : Room(p)[f] = Local(p, f)
    BY RoomKeys
<1>2. \A f \in KeyFields : Room(p)'[f] = Local(p, f)'
    BY KeysAreRoom DEF Room
<1>3. \A f \in KeyFields : Room(p)'[f] = Room(p)[f]
    BY <1>1, <1>2
<1>4. (Sums(Room(p)') <=> Sums(Room(p))) /\ (Led(Room(p)') <=> Led(Room(p)))
    BY <1>3, SameKeys
<1>q. QED BY <1>4 DEF Consistent, Sums, Led, MatchOver

\* The three ways to be in the middle of a resolution.
Held(p) == \E i \in 1..Len(inbox[p]) :
    inbox[p][i].kind = "fight" => Resolves(p, inbox[p][i].data)
Wanted(p) == \E k \in Kinds \ {"fight"} : asked[p][k] > 0
Written(p) == \E i \in 1..Len(pend[p]) : ~(DOMAIN pend[p][i] \subseteq InputFields)

LEMMA ResolvingParts ==
    ASSUME NEW p \in Players
    PROVE  /\ Resolving(p) <=> Held(p) \/ Wanted(p) \/ Written(p)
           /\ Resolving(p)' <=> Held(p)' \/ Wanted(p)' \/ Written(p)'
BY DEF Resolving, Held, Wanted, Written

\* A step that starts and ends no resolution and shows nobody other scores
\* keeps the invariant.
LEMMA QuietStep ==
    ASSUME OneAtATime, ~disturbed' => ~disturbed,
           \A p \in Players : Resolving(p)' <=> Resolving(p),
           \A p \in Players : \A f \in KeyFields : Local(p, f)' = Local(p, f),
           AnswersAddUp => AnswersAddUp'
    PROVE  OneAtATime'
<1>1. \A p \in Players : Consistent(p)' <=> Consistent(p)
    BY StillConsistent
<1>2. Alone => Alone'
    BY DEF Alone
<1>3. \A p \in Players : Opponent(p) \in Players
    BY FieldNames
<1>4. ASSUME NEW p \in Players, Resolving(Opponent(p)) \/ Consistent(p)
      PROVE  Resolving(Opponent(p))' \/ Consistent(p)'
    BY <1>1, <1>3, <1>4
<1>q. QED BY <1>2, <1>4 DEF OneAtATime

\* Nothing is seen anew while no write is added or applied.
LEMMA NothingSeen ==
    ASSUME UNCHANGED <<server, pend>>, NEW p \in Players
    PROVE  /\ \A f : Local(p, f)' = Local(p, f)
           /\ Written(p)' <=> Written(p)
BY DEF Local, View, Own, Written

\* Writes of other fields leave what is seen of a field.
LEMMA OthersSeen ==
    ASSUME Types, NEW p \in Players, NEW more, Queue(more), UNCHANGED server,
           pend' = [pend EXCEPT ![p] = @ \o more],
           NEW f \in Fields, Own(more, f) = {}
    PROVE  \A q \in Players : Local(q, f)' = Local(q, f)
<1> SUFFICES ASSUME NEW q \in Players
             PROVE  Local(q, f)' = Local(q, f)
    OBVIOUS
<1>1. CASE q = p
    <2>1. pend[p] \in Seq(Writes) /\ more \in Seq(Writes) /\ Settled(pend[p], f)
        BY DEF Types, Queue
    <2>2. View(server, pend[p] \o more, f) = View(server, pend[p], f)
        BY <2>1, OthersKeep
    <2>3. pend'[p] = pend[p] \o more
        BY DEF Types
    <2>q. QED BY <2>2, <2>3, <1>1 DEF Local
<1>2. CASE q # p
    <2>1. pend'[q] = pend[q]
        BY <1>2 DEF Types
    <2>q. QED BY <2>1 DEF Local
<1>q. QED BY <1>1, <1>2

\* Added writes.
LEMMA WrittenGrows ==
    ASSUME Types, NEW p \in Players, NEW more, Queue(more),
           pend' = [pend EXCEPT ![p] = @ \o more]
    PROVE  /\ \A q \in Players : q # p => (Written(q)' <=> Written(q))
           /\ Written(p) => Written(p)'
           /\ \A i \in 1..Len(more) : ~(DOMAIN more[i] \subseteq InputFields) => Written(p)'
           /\ (\A i \in 1..Len(more) : DOMAIN more[i] \subseteq InputFields) =>
                (Written(p)' => Written(p))
<1>1. ASSUME NEW q \in Players, q # p PROVE Written(q)' <=> Written(q)
    <2>1. pend'[q] = pend[q]
        BY <1>1 DEF Types
    <2>q. QED BY <2>1 DEF Written
<1> DEFINE old == pend[p]
           all == old \o more
<1>2. pend'[p] = all /\ old \in Seq(Writes) /\ more \in Seq(Writes)
    BY DEF Types, Queue
<1>3. /\ Len(old) \in Nat /\ Len(more) \in Nat /\ Len(all) = Len(old) + Len(more)
      /\ \A i \in 1..Len(old) : all[i] = old[i]
      /\ \A i \in 1..Len(more) : all[Len(old) + i] = more[i]
      /\ \A i \in 1..Len(all) : i > Len(old) =>
           i - Len(old) \in 1..Len(more) /\ all[i] = more[i - Len(old)]
    BY <1>2
<1>4. Written(p)' <=> \E i \in 1..Len(all) : ~(DOMAIN all[i] \subseteq InputFields)
    BY <1>2 DEF Written
<1>5. Written(p) <=> \E i \in 1..Len(old) : ~(DOMAIN old[i] \subseteq InputFields)
    BY DEF Written
<1> HIDE DEF all, old
<1>6. Written(p) => Written(p)'
    <2> SUFFICES ASSUME NEW i \in 1..Len(old), ~(DOMAIN old[i] \subseteq InputFields)
                 PROVE  Written(p)'
        BY <1>5
    <2>1. i \in 1..Len(all) /\ all[i] = old[i]
        BY <1>3
    <2>q. QED BY <2>1, <1>4
<1>7. ASSUME NEW i \in 1..Len(more), ~(DOMAIN more[i] \subseteq InputFields)
      PROVE  Written(p)'
    <2>1. Len(old) + i \in 1..Len(all) /\ all[Len(old) + i] = more[i]
        BY <1>3
    <2>q. QED BY <2>1, <1>4, <1>7
<1>8. ASSUME \A i \in 1..Len(more) : DOMAIN more[i] \subseteq InputFields, Written(p)'
      PROVE  Written(p)
    <2>1. PICK i \in 1..Len(all) : ~(DOMAIN all[i] \subseteq InputFields)
        BY <1>8, <1>4
    <2>2. CASE i > Len(old)
        BY <2>1, <2>2, <1>3, <1>8
    <2>3. CASE ~(i > Len(old))
        <3>1. i \in 1..Len(old)
            BY <2>3, <1>3
        <3>q. QED BY <3>1, <2>1, <1>3, <1>5
    <2>q. QED BY <2>2, <2>3
<1>q. QED BY <1>1, <1>6, <1>7, <1>8

LEMMA SameInboxes ==
    ASSUME UNCHANGED inbox
    PROVE  /\ AnswersAddUp => AnswersAddUp'
           /\ \A p \in Players : Held(p)' <=> Held(p)
BY DEF AnswersAddUp, Held, Resolves, Sums

LEMMA SameReads ==
    ASSUME NEW p \in Players, \A k \in Kinds \ {"fight"} : asked'[p][k] = asked[p][k]
    PROVE  Wanted(p)' <=> Wanted(p)
BY DEF Wanted

\* A callback takes the oldest answer.
LEMMA AnswerTaken ==
    ASSUME Types, NEW p \in Players, NEW kinds, Callback(p, kinds)
    PROVE  /\ AnswersAddUp => AnswersAddUp'
           /\ \A q \in Players : q # p => (Held(q)' <=> Held(q))
           /\ Held(p)' => Held(p)
           /\ Head(inbox[p]) = inbox[p][1] /\ 1 \in 1..Len(inbox[p])
           /\ (Head(inbox[p]).kind = "fight" /\ ~Resolves(p, Head(inbox[p]).data)) =>
                (Held(p) => Held(p)')
<1> DEFINE old == inbox[p]
           new == Tail(old)
<1>1. old \in Seq(Answers) /\ old # <<>> /\ inbox'[p] = new
      /\ \A q \in Players : q # p => inbox'[q] = inbox[q]
    BY DEF Types, Callback
<1>2. /\ Len(old) \in Nat \ {0} /\ Len(new) = Len(old) - 1 /\ Head(old) = old[1]
      /\ \A i \in 1..Len(new) : i + 1 \in 1..Len(old) /\ new[i] = old[i + 1]
    BY <1>1
<1>3. \A q \in Players : q # p => (Held(q)' <=> Held(q))
    BY <1>1 DEF Held, Resolves
<1>4. Held(p) <=> \E i \in 1..Len(old) : old[i].kind = "fight" => Resolves(p, old[i].data)
    BY DEF Held
<1>5. Held(p)' <=> \E i \in 1..Len(new) : new[i].kind = "fight" => Resolves(p, new[i].data)
    BY <1>1 DEF Held, Resolves
<1> HIDE DEF old, new
<1>6. Held(p)' => Held(p)
    BY <1>2, <1>4, <1>5
<1>7. ASSUME old[1].kind = "fight", ~Resolves(p, old[1].data), Held(p)
      PROVE  Held(p)'
    <2>1. PICK i \in 1..Len(old) : old[i].kind = "fight" => Resolves(p, old[i].data)
        BY <1>7, <1>4
    <2>2. i # 1
        BY <2>1, <1>7
    <2>3. i - 1 \in 1..Len(new)
        BY <2>2, <1>2
    <2>4. new[i - 1] = old[i]
        BY <2>3, <1>2
    <2>q. QED BY <2>1, <2>3, <2>4, <1>5
<1>8. ASSUME AnswersAddUp, NEW q \in Players, NEW i \in 1..Len(inbox'[q]),
             inbox'[q][i].kind = "engine"
      PROVE  Sums(inbox'[q][i].data)
    <2>1. CASE q = p
        BY <2>1, <1>1, <1>2, <1>8 DEF AnswersAddUp, old
    <2>2. CASE q # p
        BY <2>2, <1>1, <1>8 DEF AnswersAddUp
    <2>q. QED BY <2>1, <2>2
<1>9. AnswersAddUp => AnswersAddUp'
    BY <1>8 DEF AnswersAddUp, Sums
<1>10. Head(inbox[p]) = inbox[p][1] /\ 1 \in 1..Len(inbox[p])
    BY <1>2 DEF old
<1>q. QED BY <1>3, <1>6, <1>7, <1>9, <1>10, <1>2 DEF old

\* The players' own steps start no resolution and write only inputs.
LEMMA PlayerSteps ==
    ASSUME Types, NEW p \in Players, PlayerStep(p)
    PROVE  /\ UNCHANGED <<inbox, server, history>>
           /\ \A q \in Players : \A k \in Kinds \ {"fight"} : asked'[q][k] = asked[q][k]
           /\ \A q \in Players : Resolving(q)' <=> Resolving(q)
           /\ \A q \in Players : \A f \in Fields \ InputFields : Local(q, f)' = Local(q, f)
<1>1. UNCHANGED <<inbox, server, history>>
      /\ \A q \in Players : \A k \in Kinds \ {"fight"} : asked'[q][k] = asked[q][k]
    <2>1. UNCHANGED <<inbox, server, history>>
        BY DEF PlayerStep, Appear, SelectFighter, LayoutPass, Fight, Exit, TapBeside
    <2>2. CASE Ask(p, {"fight"})
        BY <2>1, <2>2 DEF Ask, Types
    <2>3. CASE UNCHANGED asked
        BY <2>1, <2>3
    <2>q. QED BY <2>1, <2>2, <2>3
          DEF PlayerStep, Appear, SelectFighter, LayoutPass, Fight, Exit, TapBeside
<1>2. \A q \in Players : (Held(q)' <=> Held(q)) /\ (Wanted(q)' <=> Wanted(q))
    BY <1>1, SameInboxes, SameReads
<1>3. /\ \A q \in Players : Written(q)' <=> Written(q)
      /\ \A q \in Players : \A f \in Fields \ InputFields : Local(q, f)' = Local(q, f)
    <2>1. CASE Appear(p)
        <3> DEFINE setData == [f \in InputFields |-> IF f = "guestInputCheck" THEN "Empty" ELSE "absent"]
                   more == <<setData, Write("hostInputCheck", "Empty")>>
        <3>1. pend' = [pend EXCEPT ![p] = @ \o more]
            BY <2>1 DEF Appear
        <3>2. Queue(more)
            BY AppearWrites
        <3>3. \A i \in 1..Len(more) : DOMAIN more[i] \subseteq InputFields
            BY DEF Write, InputFields
        <3> HIDE DEF more
        <3>4. \A f \in Fields \ InputFields : Own(more, f) = {}
            BY <3>3 DEF Own
        <3>q. QED BY <3>1, <3>2, <3>3, <3>4, <1>1, OthersSeen, WrittenGrows
    <2>2. CASE UNCHANGED pend
        BY <2>2, <1>1, NothingSeen
    <2>q. QED BY <2>1, <2>2
          DEF PlayerStep, SelectFighter, LayoutPass, Fight, Exit, TapBeside
<1>4. \A q \in Players : Resolving(q)' <=> Resolving(q)
    BY <1>2, <1>3, ResolvingParts
<1>q. QED BY <1>1, <1>3, <1>4

LEMMA SerialPlayer ==
    ASSUME Types, OneAtATime, NEW p \in Players, PlayerStep(p)
    PROVE  OneAtATime'
<1>1. UNCHANGED <<inbox, disturbed>> /\ \A q \in Players : Resolving(q)' <=> Resolving(q)
    BY PlayerSteps DEF history
<1>2. \A q \in Players : \A f \in KeyFields : Local(q, f)' = Local(q, f)
    BY PlayerSteps, KeysAreRoom
<1>3. AnswersAddUp => AnswersAddUp'
    BY <1>1, SameInboxes
<1>q. QED BY <1>1, <1>2, <1>3, QuietStep

LEMMA AnswerAdded ==
    ASSUME Types, NEW p \in Players, NEW a \in Answers,
           inbox' = [inbox EXCEPT ![p] = Append(@, a)]
    PROVE  /\ \A q \in Players : q # p => (Held(q)' <=> Held(q))
           /\ Held(p)' <=> (Held(p) \/ (a.kind = "fight" => Resolves(p, a.data)))
           /\ (AnswersAddUp /\ (a.kind = "engine" => Sums(a.data))) => AnswersAddUp'
<1> DEFINE old == inbox[p]
           new == Append(old, a)
<1>1. old \in Seq(Answers) /\ inbox'[p] = new
      /\ \A q \in Players : q # p => inbox'[q] = inbox[q]
    BY DEF Types
<1>2. /\ Len(old) \in Nat /\ Len(new) = Len(old) + 1 /\ new[Len(old) + 1] = a
      /\ \A i \in 1..Len(old) : new[i] = old[i]
    BY <1>1
<1>3. \A q \in Players : q # p => (Held(q)' <=> Held(q))
    BY <1>1 DEF Held, Resolves
<1>4. Held(p) <=> \E i \in 1..Len(old) : old[i].kind = "fight" => Resolves(p, old[i].data)
    BY DEF Held
<1>5. Held(p)' <=> \E i \in 1..Len(new) : new[i].kind = "fight" => Resolves(p, new[i].data)
    BY <1>1 DEF Held, Resolves
<1> HIDE DEF old, new
<1>6. \A i \in 1..Len(new) : i \in 1..Len(old) \/ i = Len(old) + 1
    BY <1>2
<1>7. Held(p) => Held(p)'
    <2> SUFFICES ASSUME NEW i \in 1..Len(old), old[i].kind = "fight" => Resolves(p, old[i].data)
                 PROVE  Held(p)'
        BY <1>4
    <2>1. i \in 1..Len(new) /\ new[i] = old[i]
        BY <1>2
    <2>q. QED BY <2>1, <1>5
<1>8. (a.kind = "fight" => Resolves(p, a.data)) => Held(p)'
    <2>1. Len(old) + 1 \in 1..Len(new)
        BY <1>2
    <2>q. QED BY <2>1, <1>2, <1>5
<1>9. Held(p)' => (Held(p) \/ (a.kind = "fight" => Resolves(p, a.data)))
    <2> SUFFICES ASSUME NEW i \in 1..Len(new), new[i].kind = "fight" => Resolves(p, new[i].data)
                 PROVE  Held(p) \/ (a.kind = "fight" => Resolves(p, a.data))
        BY <1>5
    <2>1. CASE i \in 1..Len(old)
        BY <2>1, <1>2, <1>4
    <2>2. CASE i = Len(old) + 1
        BY <2>2, <1>2
    <2>q. QED BY <2>1, <2>2, <1>6
<1>10. ASSUME AnswersAddUp, a.kind = "engine" => Sums(a.data),
              NEW q \in Players, NEW i \in 1..Len(inbox'[q]), inbox'[q][i].kind = "engine"
       PROVE  Sums(inbox'[q][i].data)
    <2>1. CASE q # p
        BY <2>1, <1>1, <1>10 DEF AnswersAddUp
    <2>2. CASE q = p /\ i \in 1..Len(old)
        BY <2>2, <1>1, <1>2, <1>10 DEF AnswersAddUp, old
    <2>3. CASE q = p /\ i = Len(old) + 1
        BY <2>3, <1>1, <1>2, <1>10
    <2>q. QED BY <2>1, <2>2, <2>3, <1>1, <1>6
<1>11. (AnswersAddUp /\ (a.kind = "engine" => Sums(a.data))) => AnswersAddUp'
    BY <1>10 DEF AnswersAddUp, Sums
<1>q. QED BY <1>3, <1>7, <1>8, <1>9, <1>11

\* An answer that leaves the match undisturbed.  One that makes its reader
\* resolve a round starts a resolution, and nobody else is in one; in a
\* resolution the answers say what the reader sees.
LEMMA AnswerUndisturbed ==
    ASSUME NEW p \in Players, NEW k \in Kinds, NEW data, Answer(p, k, data), ~disturbed'
    PROVE  /\ ~disturbed
           /\ k = "fight" /\ Resolves(p, data) => \A q \in Players : ~Resolving(q)
           /\ k # "fight" => \A f \in FieldsRead(k) : data[f] = Local(p, f)
BY DEF Answer, Outdated

\* A read that is answered.
LEMMA SerialServe ==
    ASSUME Types, OneAtATime, NEW p \in Players, NEW k \in Kinds, NEW data,
           Answer(p, k, data), [kind |-> k, data |-> data] \in Answers
    PROVE  OneAtATime'
<1> DEFINE a == [kind |-> k, data |-> data]
<1>1. /\ asked[p][k] > 0
      /\ inbox' = [inbox EXCEPT ![p] = Append(@, a)] /\ a \in Answers
      /\ UNCHANGED <<server, pend>>
    BY DEF Answer
<1>3. /\ \A q \in Players : (Written(q)' <=> Written(q))
      /\ \A q \in Players : \A f \in KeyFields : Local(q, f)' = Local(q, f)
    BY <1>1, NothingSeen
<1>4. a.kind = k /\ a.data = data
    OBVIOUS
<1>5. \A q \in Players : q # p => (Wanted(q)' <=> Wanted(q))
    BY DEF Answer, Wanted, Types
<1>6. k = "fight" => (Wanted(p)' <=> Wanted(p))
    BY DEF Answer, Wanted, Types
<1> HIDE DEF a
<1>8. /\ \A q \in Players : q # p => (Held(q)' <=> Held(q))
      /\ Held(p)' <=> (Held(p) \/ (k = "fight" => Resolves(p, data)))
      /\ (AnswersAddUp /\ (k = "engine" => Sums(data))) => AnswersAddUp'
    BY <1>1, <1>4, AnswerAdded
<1> SUFFICES ASSUME ~disturbed' PROVE OneAtATime'
    BY DEF OneAtATime
<1>2. /\ ~disturbed
      /\ k = "fight" /\ Resolves(p, data) => \A q \in Players : ~Resolving(q)
      /\ k # "fight" => \A f \in FieldsRead(k) : data[f] = Local(p, f)
    BY AnswerUndisturbed
<1>10. /\ Alone /\ AnswersAddUp
       /\ \A q \in Players : Resolving(Opponent(q)) \/ Consistent(q)
    BY <1>2 DEF OneAtATime
<1>11. \A q \in Players : q # p => (Resolving(q)' <=> Resolving(q))
    BY <1>3, <1>5, <1>8, ResolvingParts
<1>12. \A q \in Players : Consistent(q)' <=> Consistent(q)
    BY <1>3, StillConsistent
<1>13. CASE k = "fight" /\ ~Resolves(p, data)
    <2>1. Resolving(p)' <=> Resolving(p)
        BY <1>13, <1>3, <1>6, <1>8, ResolvingParts
    <2>2. AnswersAddUp'
        BY <1>8, <1>10, <1>13
    <2>q. QED BY <2>1, <2>2, <1>3, <1>2, <1>11, QuietStep
<1>14. CASE k = "fight" /\ Resolves(p, data)
    <2>1. \A q \in Players : ~Resolving(q)
        BY <1>2, <1>14
    <2>2. \A q \in Players : Consistent(q)'
        BY <2>1, <1>10, <1>12, FieldNames
    <2>3. \A q \in Players : q # p => ~Resolving(q)'
        BY <2>1, <1>11
    <2>4. Alone' /\ AnswersAddUp'
        BY <2>3, <1>8, <1>10, <1>14 DEF Alone
    <2>q. QED BY <2>2, <2>4 DEF OneAtATime
<1>15. CASE k # "fight"
    <2>1. Resolving(p)
        BY <1>15, <1>1, ResolvingParts DEF Wanted
    <2>2. Resolving(p)'
        BY <1>15, <1>8, ResolvingParts
    <2>3. Consistent(p)
        BY <2>1, <1>10, FieldNames DEF Alone
    <2>4. k = "engine" => Sums(data)
        <3>1. ASSUME k = "engine" PROVE Sums(data)
            <4>1. \A f \in ScoreFields : data[f] = Room(p)[f]
                BY <3>1, <1>2, RoomKeys DEF KeyFields, FieldsRead
            <4>q. QED BY <4>1, <2>3 DEF Consistent, Sums, ScoreFields
        <3>q. QED BY <3>1
    <2>q. QED BY <2>1, <2>2, <2>4, <1>3, <1>8, <1>2, <1>10, <1>11, QuietStep
<1>q. QED BY <1>13, <1>14, <1>15

\* While a device has only inputs to write, it sees the server's scores.
LEMMA SeesServer ==
    ASSUME NEW q \in Players, ~Written(q), NEW f \in KeyFields
    PROVE  Local(q, f) = server[f]
<1>1. Own(pend[q], f) = {}
    BY KeysAreRoom DEF Own, Written
<1>q. QED BY <1>1, ViewOfDocument DEF Local

LEMMA WillSeeServer ==
    ASSUME NEW q \in Players, ~Written(q)', NEW f \in KeyFields
    PROVE  Local(q, f)' = server'[f]
<1>1. Own(pend'[q], f) = {}
    BY KeysAreRoom DEF Own, Written
<1>q. QED BY <1>1, ViewOfDocument DEF Local

\* Two players with nothing to write but inputs see the same scores.
LEMMA WillAgree ==
    ASSUME NEW p \in Players, NEW q \in Players, ~Written(p)', ~Written(q)', Consistent(p)'
    PROVE  Consistent(q)'
<1>1. \A f \in KeyFields : Local(q, f)' = Local(p, f)'
    BY WillSeeServer
<1>2. \A f \in KeyFields : Room(q)'[f] = Room(p)'[f]
    BY <1>1, KeysAreRoom DEF Room
<1>3. (Sums(Room(q)') <=> Sums(Room(p)')) /\ (Led(Room(q)') <=> Led(Room(p)'))
    BY <1>2, SameKeys
<1>q. QED BY <1>3 DEF Consistent, Sums, Led, MatchOver

\* A write that reaches the server.  Its device sees what it saw; the other one
\* may see the scores change, but only in a resolution, and at its end it sees
\* what the resolving player saw all along.
LEMMA SerialApply ==
    ASSUME Types, OneAtATime, NEW p \in Players, ApplyWrite(p)
    PROVE  OneAtATime'
<1> SUFFICES ASSUME ~disturbed' PROVE OneAtATime'
    BY DEF OneAtATime
<1> DEFINE w == Head(pend[p])
           other == Opponent(p)
<1>1. /\ pend[p] \in Seq(Writes) /\ pend[p] # <<>>
      /\ \A f \in Fields : Settled(pend[p], f)
      /\ server' = After(server, w) /\ pend'[p] = Tail(pend[p]) /\ pend'[other] = pend[other]
      /\ UNCHANGED <<inbox, asked>> /\ ~disturbed
    BY FieldNames DEF ApplyWrite, Types, Queue, history
<1>2. /\ Alone /\ AnswersAddUp
      /\ \A q \in Players : Resolving(Opponent(q)) \/ Consistent(q)
    BY <1>1 DEF OneAtATime
<1>3. /\ other \in Players /\ other # p /\ Opponent(other) = p
      /\ \A q \in Players : q = p \/ q = other
    BY DEF Players, Opponent
<1>4. /\ Len(pend[p]) \in Nat \ {0} /\ w = pend[p][1] /\ Len(Tail(pend[p])) = Len(pend[p]) - 1
      /\ \A i \in 1..Len(Tail(pend[p])) : i + 1 \in 1..Len(pend[p]) /\ Tail(pend[p])[i] = pend[p][i + 1]
    BY <1>1
<1>5. \A f \in KeyFields : Local(p, f)' = Local(p, f)
    BY <1>1, AppliedSeenAsBefore, KeysAreRoom DEF Local
<1>6. AnswersAddUp' /\ \A q \in Players : (Held(q)' <=> Held(q)) /\ (Wanted(q)' <=> Wanted(q))
    BY <1>1, <1>2, SameInboxes, SameReads
<1>7. Written(other)' <=> Written(other)
    BY <1>1 DEF Written
<1>8. Written(p)' => Written(p)
    BY <1>1, <1>4 DEF Written
<1> HIDE DEF other, w
<1>9. (Resolving(other)' <=> Resolving(other)) /\ (Resolving(p)' => Resolving(p))
    BY <1>3, <1>6, <1>7, <1>8, ResolvingParts
<1>10. Alone'
    BY <1>2, <1>3, <1>9 DEF Alone
<1>11. Resolving(other)' \/ Consistent(p)'
    BY <1>2, <1>5, <1>9, StillConsistent DEF other
<1>12. ASSUME ~Resolving(p)' PROVE Consistent(other)'
    <2>1. CASE Resolving(p)
        <3>1. ~Resolving(other)
            BY <2>1, <1>2, <1>3 DEF Alone
        <3>2. ~Written(p)' /\ ~Written(other)'
            BY <3>1, <1>3, <1>9, <1>12, ResolvingParts
        <3>3. Consistent(p)'
            BY <3>1, <1>9, <1>11
        <3>q. QED BY <3>2, <3>3, <1>3, WillAgree
    <2>2. CASE ~Resolving(p)
        <3>1. DOMAIN w \subseteq InputFields
            BY <2>2, <1>4, ResolvingParts DEF Written
        <3>2. \A f \in KeyFields : f \in Fields /\ f \notin DOMAIN w
            BY <3>1, KeysAreRoom
        <3>3. \A f \in KeyFields : server'[f] = server[f]
            BY <3>2, <1>1 DEF After
        <3>4. \A f \in KeyFields : Local(other, f)' = Local(other, f)
            BY <3>3, <1>1, <1>3 DEF Local, View
        <3>5. Consistent(other)
            BY <2>2, <1>2, <1>3
        <3>q. QED BY <3>4, <3>5, <1>3, StillConsistent
    <2>q. QED BY <2>1, <2>2
<1>13. ASSUME NEW q \in Players PROVE Resolving(Opponent(q))' \/ Consistent(q)'
    <2>1. CASE q = p
        BY <2>1, <1>11 DEF other
    <2>2. CASE q = other
        BY <2>2, <1>3, <1>12
    <2>q. QED BY <2>1, <2>2, <1>3
<1>q. QED BY <1>6, <1>10, <1>13 DEF OneAtATime

\* What a read that ends with an error leaves of its reader's resolution.
LEMMA ReadLost ==
    ASSUME Types, NEW p \in Players, NEW k \in Kinds, ReadFails(p, k)
    PROVE  /\ UNCHANGED <<server, pend, inbox, disturbed, decisions>>
           /\ asked[p][k] \in Nat \ {0}
           /\ asked'[Opponent(p)] = asked[Opponent(p)]
           /\ \A l \in Kinds : asked'[p][l] = IF l = k THEN asked[p][l] - 1 ELSE asked[p][l]
           /\ \A q \in Players : \A f : Local(q, f)' = Local(q, f)
           /\ Resolving(Opponent(p))' <=> Resolving(Opponent(p))
           /\ Resolving(p)' => Resolving(p)
           /\ k = "fight" => (Resolving(p)' <=> Resolving(p))
           /\ k # "fight" => Resolving(p)
<1>1. /\ UNCHANGED <<server, pend, inbox, disturbed, decisions>>
      /\ asked[p][k] \in Nat \ {0}
      /\ asked'[Opponent(p)] = asked[Opponent(p)]
      /\ \A l \in Kinds : asked'[p][l] = IF l = k THEN asked[p][l] - 1 ELSE asked[p][l]
    BY FieldNames DEF ReadFails, Types
<1>2. \A q \in Players : /\ \A f : Local(q, f)' = Local(q, f)
                         /\ Written(q)' <=> Written(q)
                         /\ Held(q)' <=> Held(q)
    BY <1>1, NothingSeen, SameInboxes
<1>3. Opponent(p) \in Players /\ (Wanted(Opponent(p))' <=> Wanted(Opponent(p)))
    BY <1>1, FieldNames, SameReads
<1>4. /\ Wanted(p)' => Wanted(p)
      /\ k = "fight" => (Wanted(p)' <=> Wanted(p))
      /\ k # "fight" => Wanted(p)
    <2>1. \A l \in Kinds : asked[p][l] \in Nat
        BY DEF Types
    <2>q. QED BY <2>1, <1>1 DEF Wanted
<1>q. QED BY <1>1, <1>2, <1>3, <1>4, ResolvingParts

LEMMA SerialFails ==
    ASSUME Types, OneAtATime, NEW p \in Players, NEW k \in Kinds, ReadFails(p, k)
    PROVE  OneAtATime'
<1> SUFFICES ASSUME ~disturbed' PROVE OneAtATime'
    BY DEF OneAtATime
<1> DEFINE other == Opponent(p)
<1>1. /\ UNCHANGED <<server, pend, inbox, disturbed>>
      /\ \A q \in Players : \A f : Local(q, f)' = Local(q, f)
      /\ Resolving(other)' <=> Resolving(other)
      /\ Resolving(p)' => Resolving(p)
    BY ReadLost
<1>2. /\ Alone /\ AnswersAddUp
      /\ \A q \in Players : Resolving(Opponent(q)) \/ Consistent(q)
    BY <1>1 DEF OneAtATime
<1>3. /\ other \in Players /\ other # p /\ Opponent(other) = p
      /\ \A q \in Players : q = p \/ q = other
    BY DEF Players, Opponent
<1> HIDE DEF other
<1>4. AnswersAddUp' /\ Alone'
    BY <1>1, <1>2, <1>3, SameInboxes DEF Alone
<1>5. \A q \in Players : Consistent(q)' <=> Consistent(q)
    BY <1>1, StillConsistent
<1>6. Resolving(other)' \/ Consistent(p)'
    BY <1>1, <1>2, <1>5 DEF other
<1>7. ASSUME ~Resolving(p)' PROVE Consistent(other)'
    <2>1. CASE Resolving(p)
        <3>1. ~Resolving(other)'
            BY <2>1, <1>1, <1>2, <1>3 DEF Alone
        <3>q. QED BY <3>1, <1>3, <1>6, <1>7, ResolvingParts, WillAgree
    <2>2. CASE ~Resolving(p)
        BY <2>2, <1>2, <1>3, <1>5
    <2>q. QED BY <2>1, <2>2
<1>8. \A q \in Players : Resolving(Opponent(q))' \/ Consistent(q)'
    BY <1>3, <1>6, <1>7 DEF other
<1>q. QED BY <1>4, <1>8 DEF OneAtATime

LEMMA SerialScreen ==
    ASSUME Types, OneAtATime, NEW p \in Players, ScreenStep(p)
    PROVE  OneAtATime'
<1>1. UNCHANGED <<server, pend, inbox, asked, disturbed>>
    BY ScreenSteps
<1>2. /\ AnswersAddUp => AnswersAddUp'
      /\ \A q \in Players : (Held(q)' <=> Held(q)) /\ (Wanted(q)' <=> Wanted(q))
    BY <1>1, SameInboxes, SameReads
<1>3. /\ \A q \in Players : (Written(q)' <=> Written(q))
      /\ \A q \in Players : \A f \in KeyFields : Local(q, f)' = Local(q, f)
    BY <1>1, NothingSeen
<1>4. \A q \in Players : Resolving(q)' <=> Resolving(q)
    BY <1>2, <1>3, ResolvingParts
<1>q. QED BY <1>1, <1>2, <1>3, <1>4, QuietStep

\* A callback that writes neither scores nor winner and leaves its player in, or
\* out of, a resolution keeps the invariant.
LEMMA SerialCallback ==
    ASSUME Types, OneAtATime, NEW p \in Players, NEW kinds, Callback(p, kinds),
           UNCHANGED <<server, disturbed>>,
           NEW more, Queue(more), pend' = [pend EXCEPT ![p] = @ \o more],
           \A f \in KeyFields : Own(more, f) = {},
           \A q \in Players : q # p => (Wanted(q)' <=> Wanted(q)),
           Resolving(p)' <=> Resolving(p)
    PROVE  OneAtATime'
<1>1. \A q \in Players : \A f \in KeyFields : Local(q, f)' = Local(q, f)
    BY OthersSeen, KeysAreRoom
<1>2. \A q \in Players : q # p => (Written(q)' <=> Written(q))
    BY WrittenGrows
<1>3. /\ AnswersAddUp => AnswersAddUp'
      /\ \A q \in Players : q # p => (Held(q)' <=> Held(q))
    BY AnswerTaken
<1>4. \A q \in Players : Resolving(q)' <=> Resolving(q)
    BY <1>2, <1>3, ResolvingParts
<1>q. QED BY <1>1, <1>3, <1>4, QuietStep

\* Reads that are asked for.
LEMMA AskedReads ==
    ASSUME Types, NEW p \in Players, NEW kinds, Ask(p, kinds)
    PROVE  /\ \A q \in Players : q # p => (Wanted(q)' <=> Wanted(q))
           /\ \A k \in kinds \cap (Kinds \ {"fight"}) : Wanted(p)'
<1>1. \A q \in Players : q # p => (Wanted(q)' <=> Wanted(q))
    BY DEF Ask, Wanted, Types
<1>2. ASSUME NEW k \in kinds \cap (Kinds \ {"fight"}) PROVE Wanted(p)'
    <2>1. asked[p][k] \in Nat /\ asked'[p][k] = asked[p][k] + 1
        BY DEF Ask, Types
    <2>q. QED BY <2>1 DEF Wanted
<1>q. QED BY <1>1, <1>2

LEMMA SerialFight ==
    ASSUME Types, OneAtATime, NEW p \in Players, FightCallback(p)
    PROVE  OneAtATime'
<1> DEFINE theirs == Head(inbox[p]).data[InputField(Opponent(p))]
<1>1. /\ Callback(p, {"fight"}) /\ Head(inbox[p]).kind = "fight"
      /\ UNCHANGED <<server, disturbed>>
    BY DEF FightCallback, Callback, history
<1>2. /\ Head(inbox[p]) = inbox[p][1] /\ 1 \in 1..Len(inbox[p])
      /\ Held(p)' => Held(p)
      /\ ~Resolves(p, Head(inbox[p]).data) => (Held(p)' <=> Held(p))
    BY <1>1, AnswerTaken
<1>3. Resolves(p, Head(inbox[p]).data) <=> theirs \in Fighters
    BY DEF Resolves
<1> HIDE DEF theirs
<1>4. CASE theirs = "Empty" /\ Submit(p)
    <2> DEFINE more == <<Write(InputField(p), selection[p][p])>>
    <2>1. Queue(more) /\ pend' = [pend EXCEPT ![p] = @ \o more] /\ UNCHANGED asked
        <3>1. selection[p][p] \in Fighters
            BY DEF Types
        <3>2. Write(InputField(p), selection[p][p]) \in Writes
            BY <3>1, ResolutionWrites
        <3>q. QED BY <3>2, <1>4, FewAreQueues DEF Submit
    <2>2. \A i \in 1..Len(more) : DOMAIN more[i] \subseteq InputFields
        BY FieldNames DEF Write
    <2>3. ~Resolves(p, Head(inbox[p]).data)
        BY <1>3, <1>4 DEF Fighters
    <2> HIDE DEF more
    <2>4. \A f \in KeyFields : Own(more, f) = {}
        BY <2>2, KeysAreRoom DEF Own
    <2>5. Written(p)' <=> Written(p)
        BY <2>1, <2>2, WrittenGrows
    <2>6. \A q \in Players : Wanted(q)' <=> Wanted(q)
        BY <2>1, SameReads
    <2>7. Resolving(p)' <=> Resolving(p)
        BY <2>3, <2>5, <2>6, <1>2, ResolvingParts
    <2>q. QED BY <2>1, <2>4, <2>6, <2>7, <1>1, SerialCallback
<1>5. CASE theirs \in Fighters /\ Resolve(p, theirs)
    <2> DEFINE more == << Write(SelectionField(p), selection[p][p]),
                          Write(SelectionField(Opponent(p)), theirs),
                          Write("hostInputCheck", "Empty"), Write("guestInputCheck", "Empty") >>
    <2>1. Queue(more) /\ pend' = [pend EXCEPT ![p] = @ \o more] /\ Ask(p, {"engine"})
        BY <1>5, ResolutionWrites, FewAreQueues DEF Resolve
    <2>2. \A f \in KeyFields : Own(more, f) = {}
        <3>1. /\ SelectionField(p) \notin KeyFields /\ SelectionField(Opponent(p)) \notin KeyFields
              /\ "hostInputCheck" \notin KeyFields /\ "guestInputCheck" \notin KeyFields
            BY FieldNames, KeysAreRoom DEF InputFields
        <3>q. QED BY <3>1 DEF Own, Write
    <2> HIDE DEF more
    <2>3. Resolving(p)
        BY <1>1, <1>2, <1>3, <1>5, ResolvingParts DEF Held
    <2>4. Wanted(p)' /\ \A q \in Players : q # p => (Wanted(q)' <=> Wanted(q))
        BY <2>1, AskedReads DEF Kinds
    <2>5. Resolving(p)'
        BY <2>4, ResolvingParts
    <2>q. QED BY <2>1, <2>2, <2>3, <2>4, <2>5, <1>1, SerialCallback
<1>6. CASE theirs = "absent" /\ FightTraps(p)
    <2>1. UNCHANGED <<server, pend, asked>> /\ ~Resolves(p, Head(inbox[p]).data)
        BY <1>1, <1>3, <1>6 DEF FightTraps, Fighters
    <2>2. /\ \A q \in Players : (Written(q)' <=> Written(q)) /\ (Wanted(q)' <=> Wanted(q))
          /\ \A q \in Players : \A f \in KeyFields : Local(q, f)' = Local(q, f)
        BY <2>1, NothingSeen, SameReads
    <2>3. /\ AnswersAddUp => AnswersAddUp'
          /\ \A q \in Players : Held(q)' <=> Held(q)
        BY <2>1, <1>1, <1>2, AnswerTaken
    <2>4. \A q \in Players : Resolving(q)' <=> Resolving(q)
        BY <2>2, <2>3, ResolvingParts
    <2>q. QED BY <2>2, <2>3, <2>4, <1>1, QuietStep
<1>q. QED BY <1>4, <1>5, <1>6 DEF FightCallback, theirs

LEMMA SerialStat ==
    ASSUME Types, OneAtATime, NEW p \in Players, StatCallback(p)
    PROVE  OneAtATime'
<1> DEFINE f == Head(inbox[p]).kind
           v == Head(inbox[p]).data[f] + 1
           more == <<Write(f, v)>>
<1>1. /\ Callback(p, StatFields) /\ f \in StatFields /\ f # "fight"
      /\ UNCHANGED <<server, disturbed, asked>>
      /\ pend' = [pend EXCEPT ![p] = @ \o more]
    BY DEF StatCallback, Callback, history, StatFields
<1>2. Queue(more)
    <2>1. Head(inbox[p]) \in Answers
        BY <1>1, CallbackType
    <2>2. Head(inbox[p]).data[f] \in Nat
        BY <1>1, <2>1, AnswerHolds
    <2>3. v \in Nat
        <3> DEFINE n == Head(inbox[p]).data[f]
        <3>1. n \in Nat /\ v = n + 1
            BY <2>2
        <3> HIDE DEF n, v
        <3>q. QED BY <3>1
    <2> HIDE DEF f, v
    <2>4. Write(f, v) \in Writes
        BY <2>3, <1>1, FieldNames, FieldKinds, SingleWrite
    <2>q. QED BY <2>4, FewAreQueues
<1>3. Resolving(p)
    <2>1. Head(inbox[p]) = inbox[p][1] /\ 1 \in 1..Len(inbox[p])
        BY <1>1, AnswerTaken
    <2>q. QED BY <2>1, <1>1, ResolvingParts DEF Held
<1> HIDE DEF f, v
<1>4. /\ \A g \in KeyFields : Own(more, g) = {}
      /\ 1 \in 1..Len(more) /\ ~(DOMAIN more[1] \subseteq InputFields)
    <2>1. f \notin KeyFields /\ f \notin InputFields
        BY <1>1, KeysAreRoom DEF StatFields, InputFields
    <2>q. QED BY <2>1 DEF Own, Write
<1> HIDE DEF more
<1>5. Resolving(p)'
    BY <1>1, <1>2, <1>4, WrittenGrows, ResolvingParts
<1>6. \A q \in Players : Wanted(q)' <=> Wanted(q)
    BY <1>1, SameReads
<1>q. QED BY <1>1, <1>2, <1>3, <1>4, <1>5, <1>6, SerialCallback

\* gameLogic adds a point and a round together, or neither.
LEMMA RoundAddsUp ==
    ASSUME NEW data, \A f \in ScoreFields : data[f] \in Nat, Sums(data), NEW sel
    PROVE  LET s == NewScores(data, sel) IN s.hostScore + s.guestScore = s.roundNumber
<1>1. data["hostScore"] \in Nat /\ data["guestScore"] \in Nat /\ data["roundNumber"] \in Nat
    BY DEF ScoreFields
<1>2. data["hostScore"] + data["guestScore"] = data["roundNumber"]
    BY DEF Sums
<1>3. CASE Outcome_MP(sel["host"], sel["guest"]) = "first"
    BY <1>1, <1>2, <1>3 DEF NewScores
<1>4. CASE Outcome_MP(sel["host"], sel["guest"]) = "second"
    BY <1>1, <1>2, <1>4 DEF NewScores
<1>5. CASE Outcome_MP(sel["host"], sel["guest"]) = "draw"
    BY <1>1, <1>2, <1>5 DEF NewScores
<1>q. QED BY <1>3, <1>4, <1>5 DEF Outcome_MP, Verdict

\* The writes of a round, each the newest of its field.
LEMMA RoundNewest ==
    ASSUME NEW s
    PROVE  /\ Newest(RoundWrites(s), "hostScore", 1) /\ RoundWrites(s)[1]["hostScore"] = s.hostScore
           /\ Newest(RoundWrites(s), "guestScore", 2) /\ RoundWrites(s)[2]["guestScore"] = s.guestScore
           /\ Newest(RoundWrites(s), "roundNumber", 3) /\ RoundWrites(s)[3]["roundNumber"] = s.roundNumber
BY DEF RoundWrites, Newest, Write

LEMMA DecisionNewest ==
    ASSUME NEW p \in Players, NEW s
    PROVE  LET ws == DecisionWrites(p, s) IN
           /\ Newest(ws, "hostScore", 1) /\ ws[1]["hostScore"] = s.hostScore
           /\ Newest(ws, "guestScore", 2) /\ ws[2]["guestScore"] = s.guestScore
           /\ Newest(ws, "roundNumber", 3) /\ ws[3]["roundNumber"] = s.roundNumber
           /\ Newest(ws, "matchWinner", 4) /\ ws[4]["matchWinner"] = NameLabel(p, Leader(s))
BY DEF DecisionWrites, Newest, Write

\* The round a player has just computed is what it sees, with its winner.
LEMMA SerialEngine ==
    ASSUME Types, OneAtATime, NEW p \in Players, EngineCallback(p)
    PROVE  OneAtATime'
<1> SUFFICES ASSUME ~disturbed' PROVE OneAtATime'
    BY DEF OneAtATime
<1> DEFINE s == NewRound(p)
           data == Head(inbox[p]).data
<1>1. Callback(p, {"engine"}) /\ UNCHANGED <<server, disturbed>>
    BY DEF EngineCallback
<1>2. /\ Alone /\ AnswersAddUp
      /\ \A q \in Players : Resolving(Opponent(q)) \/ Consistent(q)
    BY <1>1 DEF OneAtATime
<1>3. /\ Head(inbox[p]) = inbox[p][1] /\ 1 \in 1..Len(inbox[p])
      /\ AnswersAddUp' /\ \A q \in Players : q # p => (Held(q)' <=> Held(q))
    BY <1>1, <1>2, AnswerTaken
<1>4. Head(inbox[p]) \in Answers /\ Head(inbox[p]).kind = "engine"
    BY <1>1, CallbackType
<1>5. Sums(data) /\ \A f \in ScoreFields : data[f] \in Nat
    BY <1>2, <1>3, <1>4, AnswerHolds DEF AnswersAddUp
<1>6. s.hostScore + s.guestScore = s.roundNumber
    <2>1. s = NewScores(data, selection[p])
        BY DEF NewRound
    <2> HIDE DEF data, s
    <2>q. QED BY <2>1, <1>5, RoundAddsUp
<1> HIDE DEF data, s
<1>7. /\ Queue(RoundWrites(s)) /\ Queue(DecisionWrites(p, s))
      /\ MatchOver(s) =>
           /\ pend' = [pend EXCEPT ![p] = @ \o DecisionWrites(p, s)]
           /\ Ask(p, {WinsField(Leader(s)), LossesField(Opponent(Leader(s)))})
      /\ ~MatchOver(s) => pend' = [pend EXCEPT ![p] = @ \o RoundWrites(s)] /\ UNCHANGED asked
    BY EngineWrites DEF s
<1>8. Resolving(p)
    BY <1>3, <1>4, ResolvingParts DEF Held
<1>9. PICK more : /\ Queue(more) /\ pend' = [pend EXCEPT ![p] = @ \o more]
                  /\ more = IF MatchOver(s) THEN DecisionWrites(p, s) ELSE RoundWrites(s)
    BY <1>7
<1>10. /\ Newest(more, "hostScore", 1) /\ more[1]["hostScore"] = s.hostScore
       /\ Newest(more, "guestScore", 2) /\ more[2]["guestScore"] = s.guestScore
       /\ Newest(more, "roundNumber", 3) /\ more[3]["roundNumber"] = s.roundNumber
       /\ MatchOver(s) => /\ Newest(more, "matchWinner", 4)
                          /\ more[4]["matchWinner"] = NameLabel(p, Leader(s))
    BY <1>9, RoundNewest, DecisionNewest
<1>11. /\ Local(p, "hostScore")' = s.hostScore /\ Local(p, "guestScore")' = s.guestScore
       /\ Local(p, "roundNumber")' = s.roundNumber
       /\ MatchOver(s) => Local(p, "matchWinner")' = NameLabel(p, Leader(s))
    <2>1. pend[p] \in Seq(Writes) /\ more \in Seq(Writes) /\ pend'[p] = pend[p] \o more
        BY <1>9 DEF Types, Queue
    <2>2. \A f, i : Newest(more, f, i) => View(server, pend[p] \o more, f) = more[i][f]
        BY <2>1, NewerReplace
    <2>3. \A f, i : Newest(more, f, i) => Local(p, f)' = more[i][f]
        BY <2>1, <2>2, <1>1 DEF Local
    <2>q. QED BY <2>3, <1>10
<1>12. Consistent(p)'
    <2> DEFINE r == Room(p)'
    <2>1. /\ r["hostScore"] = s.hostScore /\ r["guestScore"] = s.guestScore
          /\ r["roundNumber"] = s.roundNumber
          /\ MatchOver(s) => r["matchWinner"] = NameLabel(p, Leader(s))
        BY <1>11, KeysAreRoom DEF Room
    <2> HIDE DEF r
    <2>2. Sums(r)
        BY <2>1, <1>6 DEF Sums
    <2>3. MatchOver(r) <=> MatchOver(s)
        BY <2>1 DEF MatchOver
    <2>4. Led(r)
        BY <2>1, <2>3 DEF Led, NameLabel, Leader
    <2>q. QED BY <2>2, <2>4 DEF r, Consistent, Sums, Led, MatchOver
<1>13. \A q \in Players : q # p => (Resolving(q)' <=> Resolving(q))
    <2>1. \A q \in Players : q # p => (Wanted(q)' <=> Wanted(q))
        BY <1>7, AskedReads, SameReads
    <2>2. \A q \in Players : q # p => (Written(q)' <=> Written(q))
        BY <1>9, WrittenGrows
    <2>q. QED BY <2>1, <2>2, <1>3, ResolvingParts
<1>14. Resolving(p)'
    <2>1. 1 \in 1..Len(more) /\ ~(DOMAIN more[1] \subseteq InputFields)
        BY <1>10, KeysAreRoom DEF Newest
    <2>q. QED BY <2>1, <1>9, WrittenGrows, ResolvingParts
<1>15. Alone'
    BY <1>2, <1>8, <1>13 DEF Alone
<1>16. \A q \in Players : Resolving(Opponent(q))' \/ Consistent(q)'
    <2>1. \A q \in Players : q = p \/ Opponent(q) = p
        BY DEF Players, Opponent
    <2>q. QED BY <2>1, <1>12, <1>14
<1>q. QED BY <1>3, <1>15, <1>16 DEF OneAtATime

LEMMA SerialInit == Init => OneAtATime
<1> SUFFICES ASSUME Init PROVE OneAtATime
    OBVIOUS
<1>1. ASSUME NEW p \in Players PROVE inbox[p] = <<>> /\ pend[p] = <<>> /\ ~Wanted(p)
    BY DEF Init, Wanted
<1>2. Len(<<>>) = 0
    OBVIOUS
<1>3. \A p \in Players : ~Resolving(p) /\ ~Written(p)
    BY <1>1, <1>2, ResolvingParts DEF Held, Written
<1>4. AnswersAddUp
    BY <1>1, <1>2 DEF AnswersAddUp
<1>5. ASSUME NEW p \in Players PROVE Consistent(p)
    <2>1. \A f \in KeyFields : Room(p)[f] = server[f]
        BY <1>3, SeesServer, RoomKeys
    <2>2. Sums(server) /\ Led(server)
        BY KeysAreRoom DEF Init, Sums, Led, MatchOver, Fields, RoomFields, ScoreFields,
           SelectionFields, InputFields
    <2>q. QED BY <2>1, <2>2, SameKeys DEF Consistent
<1>q. QED BY <1>3, <1>4, <1>5 DEF OneAtATime, Alone

LEMMA SerialNext ==
    ASSUME Types, OneAtATime, [Next]_vars
    PROVE  OneAtATime'
<1>1. CASE UNCHANGED vars
    <2>1. UNCHANGED <<server, pend, inbox, asked, disturbed>>
        BY <1>1 DEF vars, history
    <2>2. /\ AnswersAddUp => AnswersAddUp'
          /\ \A q \in Players : (Held(q)' <=> Held(q)) /\ (Wanted(q)' <=> Wanted(q))
        BY <2>1, SameInboxes, SameReads
    <2>3. /\ \A q \in Players : (Written(q)' <=> Written(q))
          /\ \A q \in Players : \A f \in KeyFields : Local(q, f)' = Local(q, f)
        BY <2>1, NothingSeen
    <2>4. \A q \in Players : Resolving(q)' <=> Resolving(q)
        BY <2>2, <2>3, ResolvingParts
    <2>q. QED BY <2>1, <2>2, <2>3, <2>4, QuietStep
<1>2. ASSUME NEW p \in Players, PlayerStep(p) PROVE OneAtATime'
    BY <1>2, SerialPlayer
<1>3. ASSUME NEW p \in Players, SystemStep(p) PROVE OneAtATime'
    <2>1. ASSUME NEW k \in Kinds, Serve(p, k) \/ ServeCached(p, k) PROVE OneAtATime'
        BY <2>1, ServeAnswers, SerialServe
    <2>q. QED BY <2>1, <1>3, SerialApply, SerialFails, SerialFight, SerialEngine, SerialStat, SerialScreen
          DEF SystemStep, ScreenStep
<1>q. QED BY <1>1, <1>2, <1>3 DEF Next

LEMMA AlwaysOneAtATime == Spec => []OneAtATime
<1>1. Init => Types /\ OneAtATime
    BY TypesInit, SerialInit
<1>2. Types /\ OneAtATime /\ [Next]_vars => (Types /\ OneAtATime)'
    BY TypesNext, SerialNext
<1>q. QED BY <1>1, <1>2, PTL DEF Spec

\* At rest both players see the room as the server holds it.
LEMMA RestIsConsistent ==
    ASSUME OneAtATime, ~disturbed, AtRest
    PROVE  Sums(server) /\ Led(server)
<1>1. "host" \in Players /\ Opponent("host") \in Players
    BY DEF Players, Opponent
<1>2. Consistent("host") /\ ~Written("host")
    BY <1>1, ResolvingParts DEF OneAtATime, AtRest
<1>3. \A f \in KeyFields : Room("host")[f] = server[f]
    BY <1>1, <1>2, SeesServer, RoomKeys
<1>q. QED BY <1>2, <1>3, SameKeys DEF Consistent

\* Whenever no round is being resolved, the scores add up to the number of
\* rounds, unless the match was disturbed before: for any number of rounds and
\* taps, whatever the order of the writes, answers and callbacks, and whichever
\* reads end with an error.
THEOREM MatchScoresAddUp == Spec => []ScoresAddUp
<1>1. OneAtATime => ScoresAddUp
    BY RestIsConsistent DEF ScoresAddUp, Sums
<1>q. QED BY <1>1, AlwaysOneAtATime, PTL

\* Whenever no round is being resolved, a decided match names its leader, unless
\* the match was disturbed before.
THEOREM WinnerAlwaysLeads == Spec => []WinnerLeads
<1>1. OneAtATime => WinnerLeads
    BY RestIsConsistent DEF WinnerLeads, Led
<1>q. QED BY <1>1, AlwaysOneAtATime, PTL

(* -------------------------- wins and losses ---------------------------- *)

\* A resolution is about to be decided on, or reads the scores, or the records
\* of the players, and makes each of its reads once.
HeldOnce(p) == \A i, j \in 1..Len(inbox[p]) :
    Counts(p, inbox[p][i]) /\ Counts(p, inbox[p][j]) /\ inbox[p][i].kind = inbox[p][j].kind
        => i = j
AskedOnce(p) == \A k \in Kinds : Waits(p, k) => asked[p][k] = 1 /\ ~Has(p, k)
OneStage(p) == \A k, l \in Kinds :
    Due(p, k) /\ Due(p, l) => k = l \/ (k \in StatFields /\ l \in StatFields)
Staged(p) == HeldOnce(p) /\ AskedOnce(p) /\ OneStage(p)

\* The number an answer holds is still the one its reader sees.
FreshRecords(p) == \A i \in 1..Len(inbox[p]) : \A f \in StatFields :
    inbox[p][i].kind = f => inbox[p][i].data[f] = Local(p, f)

\* What p sees of a record, with what is owed to it and what was lost of it.
Credited(p, f) == Record(p, f) + unrecorded[f]

Balanced(p) ==
    /\ Credited(p, "hostWins") = Credited(p, "guestLosses")
    /\ Credited(p, "guestWins") = Credited(p, "hostLosses")
    /\ Credited(p, "hostWins") + Credited(p, "guestWins") = decisions

\* The inductive invariant: a decision is a win and a loss, recorded, owed or
\* lost, in the eyes of each player whose opponent is not in a resolution.
OneDecision ==
    ~disturbed => \A p \in Players :
        /\ Staged(p) /\ FreshRecords(p)
        /\ Resolving(Opponent(p)) \/ Balanced(p)

LEMMA StatNames ==
    /\ StatFields = {"hostWins", "guestWins", "hostLosses", "guestLosses"}
    /\ StatFields \subseteq Fields /\ StatFields \subseteq Kinds \ {"fight", "engine"}
    /\ StatFields \cap InputFields = {} /\ StatFields \cap SelectionFields = {}
    /\ StatFields \cap KeyFields = {} /\ {"fight", "engine"} \subseteq Kinds
BY DEF StatFields, Fields, Kinds, InputFields, SelectionFields, KeyFields, ScoreFields

\* Only who is in a resolution has something due.
LEMMA DueResolves ==
    ASSUME NEW p \in Players, NEW k \in Kinds
    PROVE  (Due(p, k) => Resolving(p)) /\ (Due(p, k)' => Resolving(p)')
BY DEF Due, Waits, Has, Counts, Resolving

\* The reads and answers of p are untouched.
LEMMA SameDue ==
    ASSUME NEW p \in Players, inbox'[p] = inbox[p],
           \A k \in Kinds \ {"fight"} : asked'[p][k] = asked[p][k]
    PROVE  /\ \A k \in Kinds : (Has(p, k)' <=> Has(p, k)) /\ (Waits(p, k)' <=> Waits(p, k))
                               /\ (Due(p, k)' <=> Due(p, k))
           /\ Staged(p) => Staged(p)'
           /\ (\A f \in StatFields : Local(p, f)' = Local(p, f)) =>
                (FreshRecords(p) => FreshRecords(p)')
<1>1. \A k \in Kinds : (Has(p, k)' <=> Has(p, k)) /\ (Waits(p, k)' <=> Waits(p, k))
    BY DEF Has, Waits, Counts, Resolves
<1>2. \A k \in Kinds : Due(p, k)' <=> Due(p, k)
    BY <1>1 DEF Due
<1>3. HeldOnce(p) => HeldOnce(p)'
    BY DEF HeldOnce, Counts, Resolves
<1>4. AskedOnce(p) => AskedOnce(p)'
    <2> SUFFICES ASSUME AskedOnce(p), NEW k \in Kinds, Waits(p, k)'
                 PROVE  asked'[p][k] = 1 /\ ~Has(p, k)'
        BY DEF AskedOnce
    <2>1. Waits(p, k) /\ k # "fight"
        BY <1>1 DEF Waits
    <2>q. QED BY <2>1, <1>1 DEF AskedOnce
<1>5. OneStage(p) => OneStage(p)'
    BY <1>2 DEF OneStage
<1>6. (\A f \in StatFields : Local(p, f)' = Local(p, f)) => (FreshRecords(p) => FreshRecords(p)')
    BY DEF FreshRecords
<1>q. QED BY <1>1, <1>2, <1>3, <1>4, <1>5, <1>6 DEF Staged

LEMMA StillBalanced ==
    ASSUME NEW p \in Players, decisions' = decisions, unrecorded' = unrecorded,
           \A f \in StatFields : Local(p, f)' = Local(p, f) /\ (Due(p, f)' <=> Due(p, f))
    PROVE  Balanced(p)' <=> Balanced(p)
<1>1. \A f \in StatFields : Record(p, f)' = Record(p, f)
    BY DEF Record
<1>2. \A f \in StatFields : Credited(p, f)' = Credited(p, f)
    BY <1>1 DEF Credited
<1>q. QED BY <1>2, StatNames DEF Balanced

\* A step that shows nobody other records and makes none due.
LEMMA QuietRecords ==
    ASSUME OneDecision, ~disturbed' => ~disturbed,
           decisions' = decisions, unrecorded' = unrecorded,
           \A p \in Players : Resolving(p)' <=> Resolving(p),
           \A p \in Players : /\ Staged(p) => Staged(p)'
                              /\ FreshRecords(p) => FreshRecords(p)'
                              /\ \A f \in StatFields : /\ Local(p, f)' = Local(p, f)
                                                       /\ Due(p, f)' <=> Due(p, f)
    PROVE  OneDecision'
<1> SUFFICES ASSUME ~disturbed', NEW p \in Players
             PROVE  /\ Staged(p)' /\ FreshRecords(p)'
                    /\ Resolving(Opponent(p))' \/ Balanced(p)'
    BY DEF OneDecision
<1>1. Staged(p) /\ FreshRecords(p) /\ (Resolving(Opponent(p)) \/ Balanced(p))
    BY DEF OneDecision
<1>2. Balanced(p)' <=> Balanced(p)
    BY StillBalanced
<1>3. Opponent(p) \in Players
    BY FieldNames
<1>q. QED BY <1>1, <1>2, <1>3

\* A step of the one player that is in a resolution.
LEMMA ResolverStep ==
    ASSUME OneDecision, ~disturbed, NEW p \in Players, ~Resolving(Opponent(p)), Resolving(p)',
           inbox'[Opponent(p)] = inbox[Opponent(p)], asked'[Opponent(p)] = asked[Opponent(p)],
           \A f \in StatFields : Local(Opponent(p), f)' = Local(Opponent(p), f),
           Staged(p) /\ FreshRecords(p) /\ Balanced(p) =>
               Staged(p)' /\ FreshRecords(p)' /\ Balanced(p)'
    PROVE  OneDecision'
<1> DEFINE other == Opponent(p)
<1>1. other \in Players /\ Opponent(other) = p /\ \A q \in Players : q = p \/ q = other
    BY DEF Players, Opponent
<1>2. /\ Staged(p) /\ FreshRecords(p) /\ Balanced(p)
      /\ Staged(other) /\ FreshRecords(other)
    BY <1>1 DEF OneDecision
<1>3. Staged(p)' /\ FreshRecords(p)' /\ Balanced(p)'
    BY <1>2
<1>4. Staged(other)' /\ FreshRecords(other)'
    BY <1>1, <1>2, SameDue
<1> HIDE DEF other
<1>5. ASSUME NEW q \in Players
      PROVE  Staged(q)' /\ FreshRecords(q)' /\ (Resolving(Opponent(q))' \/ Balanced(q)')
    BY <1>1, <1>3, <1>4
<1>q. QED BY <1>5 DEF OneDecision

\* A callback takes the oldest answer.
LEMMA RecordTaken ==
    ASSUME Types, NEW p \in Players, NEW kinds, Callback(p, kinds), HeldOnce(p)
    PROVE  LET a == Head(inbox[p]) IN
           /\ HeldOnce(p)'
           /\ \A k \in Kinds : Has(p, k)' => Has(p, k)
           /\ \A k \in Kinds : Has(p, k) /\ ~(Counts(p, a) /\ k = a.kind) => Has(p, k)'
           /\ \A k \in Kinds : Counts(p, a) /\ k = a.kind => Has(p, k) /\ ~Has(p, k)'
           /\ \A i \in 1..Len(inbox'[p]) : \E j \in 1..Len(inbox[p]) : inbox'[p][i] = inbox[p][j]
<1> DEFINE old == inbox[p]
           new == Tail(old)
           a == Head(inbox[p])
<1>1. old \in Seq(Answers) /\ old # <<>> /\ inbox'[p] = new
    BY DEF Types, Callback
<1>2. /\ Len(old) \in Nat \ {0} /\ Len(new) = Len(old) - 1 /\ a = old[1] /\ 1 \in 1..Len(old)
      /\ \A i \in 1..Len(new) : i + 1 \in 1..Len(old) /\ new[i] = old[i + 1]
    BY <1>1
<1>3. \A k : Has(p, k) <=> \E i \in 1..Len(old) : old[i].kind = k /\ Counts(p, old[i])
    BY DEF Has
<1>4. \A k : Has(p, k)' <=> \E i \in 1..Len(new) : new[i].kind = k /\ Counts(p, new[i])
    BY <1>1 DEF Has, Counts, Resolves
<1>5. \A i, j \in 1..Len(old) :
          Counts(p, old[i]) /\ Counts(p, old[j]) /\ old[i].kind = old[j].kind => i = j
    BY DEF HeldOnce
<1>6. HeldOnce(p)' <=> \A i, j \in 1..Len(new) :
          Counts(p, new[i]) /\ Counts(p, new[j]) /\ new[i].kind = new[j].kind => i = j
    BY <1>1 DEF HeldOnce, Counts, Resolves
<1>7. \A i \in 1..Len(inbox'[p]) : \E j \in 1..Len(inbox[p]) : inbox'[p][i] = inbox[p][j]
    BY <1>1, <1>2
<1> HIDE DEF old, new, a
<1>8. HeldOnce(p)'
    <2> SUFFICES ASSUME NEW i \in 1..Len(new), NEW j \in 1..Len(new),
                        Counts(p, new[i]), Counts(p, new[j]), new[i].kind = new[j].kind
                 PROVE  i = j
        BY <1>6
    <2>1. i + 1 = j + 1
        BY <1>2, <1>5
    <2>q. QED BY <2>1, <1>2
<1>9. ASSUME NEW k, Has(p, k)' PROVE Has(p, k)
    BY <1>2, <1>3, <1>4, <1>9
<1>10. ASSUME NEW k, Has(p, k), ~(Counts(p, a) /\ k = a.kind) PROVE Has(p, k)'
    <2>1. PICK i \in 1..Len(old) : old[i].kind = k /\ Counts(p, old[i])
        BY <1>3, <1>10
    <2>2. i # 1
        BY <2>1, <1>2, <1>10
    <2>3. i - 1 \in 1..Len(new)
        BY <2>2, <1>2
    <2>4. new[i - 1] = old[i]
        BY <2>3, <1>2
    <2>q. QED BY <2>1, <2>3, <2>4, <1>4
<1>11. ASSUME Counts(p, a), NEW k, k = a.kind PROVE Has(p, k) /\ ~Has(p, k)'
    <2>1. Has(p, k)
        BY <1>2, <1>3, <1>11
    <2>2. ASSUME Has(p, k)' PROVE FALSE
        <3>1. PICK i \in 1..Len(new) : new[i].kind = k /\ Counts(p, new[i])
            BY <1>4, <2>2
        <3>2. i + 1 = 1
            BY <3>1, <1>2, <1>5, <1>11
        <3>q. QED BY <3>2, <1>2
    <2>q. QED BY <2>1, <2>2
<1>q. QED BY <1>7, <1>8, <1>9, <1>10, <1>11 DEF a

\* An answer arrives.
LEMMA RecordAdded ==
    ASSUME Types, NEW p \in Players, NEW a \in Answers,
           inbox' = [inbox EXCEPT ![p] = Append(@, a)], HeldOnce(p),
           Counts(p, a) => ~Has(p, a.kind)
    PROVE  /\ HeldOnce(p)'
           /\ \A k \in Kinds : Has(p, k)' <=> Has(p, k) \/ (Counts(p, a) /\ k = a.kind)
           /\ \A i \in 1..Len(inbox'[p]) : inbox'[p][i] = a
                \/ \E j \in 1..Len(inbox[p]) : inbox'[p][i] = inbox[p][j]
<1> DEFINE old == inbox[p]
           new == Append(old, a)
<1>1. old \in Seq(Answers) /\ inbox'[p] = new
    BY DEF Types
<1>2. /\ Len(old) \in Nat /\ Len(new) = Len(old) + 1 /\ new[Len(old) + 1] = a
      /\ \A i \in 1..Len(old) : new[i] = old[i]
    BY <1>1
<1>3. \A k : Has(p, k) <=> \E i \in 1..Len(old) : old[i].kind = k /\ Counts(p, old[i])
    BY DEF Has
<1>4. \A k : Has(p, k)' <=> \E i \in 1..Len(new) : new[i].kind = k /\ Counts(p, new[i])
    BY <1>1 DEF Has, Counts, Resolves
<1>5. \A i, j \in 1..Len(old) :
          Counts(p, old[i]) /\ Counts(p, old[j]) /\ old[i].kind = old[j].kind => i = j
    BY DEF HeldOnce
<1>6. HeldOnce(p)' <=> \A i, j \in 1..Len(new) :
          Counts(p, new[i]) /\ Counts(p, new[j]) /\ new[i].kind = new[j].kind => i = j
    BY <1>1 DEF HeldOnce, Counts, Resolves
<1>7. \A i \in 1..Len(new) : new[i] = a \/ \E j \in 1..Len(old) : new[i] = old[j]
    <2> SUFFICES ASSUME NEW i \in 1..Len(new) PROVE i \in 1..Len(old) \/ i = Len(old) + 1
        BY <1>2
    <2>q. QED BY <1>2
<1> HIDE DEF old, new
<1>8. \A i \in 1..Len(new) : i \in 1..Len(old) \/ i = Len(old) + 1
    BY <1>2
<1>9. HeldOnce(p)'
    <2> SUFFICES ASSUME NEW i \in 1..Len(new), NEW j \in 1..Len(new),
                        Counts(p, new[i]), Counts(p, new[j]), new[i].kind = new[j].kind
                 PROVE  i = j
        BY <1>6
    <2>1. CASE i \in 1..Len(old) /\ j \in 1..Len(old)
        BY <2>1, <1>2, <1>5
    <2>2. CASE i \in 1..Len(old) /\ j = Len(old) + 1
        BY <2>2, <1>2, <1>3
    <2>3. CASE j \in 1..Len(old) /\ i = Len(old) + 1
        BY <2>3, <1>2, <1>3
    <2>q. QED BY <2>1, <2>2, <2>3, <1>8
<1>10. ASSUME NEW k PROVE Has(p, k)' <=> Has(p, k) \/ (Counts(p, a) /\ k = a.kind)
    <2>1. Has(p, k) => Has(p, k)'
        <3> SUFFICES ASSUME NEW i \in 1..Len(old), old[i].kind = k, Counts(p, old[i])
                     PROVE  Has(p, k)'
            BY <1>3
        <3>1. i \in 1..Len(new) /\ new[i] = old[i]
            BY <1>2
        <3>q. QED BY <3>1, <1>4
    <2>2. Counts(p, a) => Has(p, a.kind)'
        <3>1. Len(old) + 1 \in 1..Len(new)
            BY <1>2
        <3>q. QED BY <3>1, <1>2, <1>4
    <2>3. Has(p, k)' => Has(p, k) \/ (Counts(p, a) /\ k = a.kind)
        <3> SUFFICES ASSUME NEW i \in 1..Len(new), new[i].kind = k, Counts(p, new[i])
                     PROVE  Has(p, k) \/ (Counts(p, a) /\ k = a.kind)
            BY <1>4
        <3>1. CASE i \in 1..Len(old)
            BY <3>1, <1>2, <1>3
        <3>2. CASE i = Len(old) + 1
            BY <3>2, <1>2
        <3>q. QED BY <3>1, <3>2, <1>8
    <2>q. QED BY <2>1, <2>2, <2>3
<1>q. QED BY <1>1, <1>7, <1>9, <1>10 DEF old

\* Of the reads of p only those in the inbox change, or none.
LEMMA StillFresh ==
    ASSUME NEW p \in Players, FreshRecords(p), \A f \in StatFields : Local(p, f)' = Local(p, f),
           \A i \in 1..Len(inbox'[p]) : \/ inbox'[p][i].kind \notin StatFields
                                        \/ \E j \in 1..Len(inbox[p]) : inbox'[p][i] = inbox[p][j]
    PROVE  FreshRecords(p)'
BY DEF FreshRecords

\* Who is not in a resolution holds no number of a record.
LEMMA NoneHeldAreFresh ==
    ASSUME NEW p \in Players, \A f \in StatFields : ~Has(p, f)'
    PROVE  FreshRecords(p)'
BY StatNames DEF FreshRecords, Has, Counts

\* Writes of other fields leave what is seen of the records.
LEMMA RecordsSeen ==
    ASSUME Types, NEW p \in Players, NEW more, Queue(more), UNCHANGED server,
           pend' = [pend EXCEPT ![p] = @ \o more]
    PROVE  /\ pend'[p] = pend[p] \o more
           /\ \A f \in StatFields : Own(more, f) = {} => Local(p, f)' = Local(p, f)
           /\ \A q \in Players : q # p => \A f : Local(q, f)' = Local(q, f)
<1>1. pend'[p] = pend[p] \o more /\ \A q \in Players : q # p => pend'[q] = pend[q]
    BY DEF Types
<1>2. \A f \in StatFields : Own(more, f) = {} => Local(p, f)' = Local(p, f)
    BY StatNames, OthersSeen
<1>3. \A q \in Players : q # p => \A f : Local(q, f)' = Local(q, f)
    BY <1>1 DEF Local
<1>q. QED BY <1>1, <1>2, <1>3

LEMMA RecordsPlayer ==
    ASSUME Types, OneDecision, NEW p \in Players, PlayerStep(p)
    PROVE  OneDecision'
<1>1. /\ UNCHANGED <<inbox, disturbed, decisions, unrecorded>>
      /\ \A q \in Players : Resolving(q)' <=> Resolving(q)
      /\ \A q \in Players : \A k \in Kinds \ {"fight"} : asked'[q][k] = asked[q][k]
    BY PlayerSteps DEF history
<1>2. \A q \in Players : \A f \in StatFields : Local(q, f)' = Local(q, f)
    BY PlayerSteps, StatNames
<1>3. \A q \in Players : \A k \in Kinds \ {"fight"} : inbox'[q] = inbox[q] /\ asked'[q][k] = asked[q][k]
    BY <1>1
<1>4. \A q \in Players : /\ Staged(q) => Staged(q)'
                         /\ FreshRecords(q) => FreshRecords(q)'
                         /\ \A f \in StatFields : Due(q, f)' <=> Due(q, f)
    BY <1>1, <1>2, <1>3, SameDue, StatNames
<1>q. QED BY <1>1, <1>2, <1>4, QuietRecords

\* Steps that leave documents, writes and reads as they are.
LEMMA RecordsScreen ==
    ASSUME Types, OneDecision,
           UNCHANGED <<server, pend, inbox, asked, disturbed, decisions, unrecorded>>
    PROVE  OneDecision'
<1>1. \A q \in Players : \A f \in StatFields : Local(q, f)' = Local(q, f)
    BY NothingSeen
<1>2. \A q \in Players : Resolving(q)' <=> Resolving(q)
    BY DEF Resolving, Resolves
<1>3. \A q \in Players : /\ Staged(q) => Staged(q)'
                         /\ FreshRecords(q) => FreshRecords(q)'
                         /\ \A f \in StatFields : Due(q, f)' <=> Due(q, f)
    BY <1>1, SameDue, StatNames
<1>q. QED BY <1>1, <1>2, <1>3, QuietRecords

\* A device that has nothing to write but inputs sees the server's records.
LEMMA RestSeesServer ==
    ASSUME NEW p \in Players, ~Resolving(p)', NEW f \in StatFields
    PROVE  ~Due(p, f)' /\ Local(p, f)' = server'[f]
<1>1. Own(pend'[p], f) = {}
    BY ResolvingParts, StatNames DEF Own, Written
<1>2. Local(p, f)' = server'[f]
    BY <1>1, ViewOfDocument DEF Local
<1>3. ~Due(p, f)'
    BY DueResolves, StatNames
<1>q. QED BY <1>2, <1>3

LEMMA RecordsApply ==
    ASSUME Types, OneAtATime, OneDecision, NEW p \in Players, ApplyWrite(p)
    PROVE  OneDecision'
<1> SUFFICES ASSUME ~disturbed' PROVE OneDecision'
    BY DEF OneDecision
<1> DEFINE w == Head(pend[p])
           other == Opponent(p)
<1>1. /\ pend[p] \in Seq(Writes) /\ pend[p] # <<>>
      /\ \A f \in Fields : Settled(pend[p], f)
      /\ server' = After(server, w) /\ pend'[p] = Tail(pend[p]) /\ pend'[other] = pend[other]
      /\ UNCHANGED <<inbox, asked, decisions, unrecorded>> /\ ~disturbed
    BY FieldNames DEF ApplyWrite, Types, Queue, history
<1>2. Alone
    BY <1>1 DEF OneAtATime
<1>3. /\ other \in Players /\ other # p /\ Opponent(other) = p
      /\ \A q \in Players : q = p \/ q = other
    BY DEF Players, Opponent
<1>4. /\ Len(pend[p]) \in Nat \ {0} /\ w = pend[p][1] /\ Len(Tail(pend[p])) = Len(pend[p]) - 1
      /\ \A i \in 1..Len(Tail(pend[p])) : i + 1 \in 1..Len(pend[p]) /\ Tail(pend[p])[i] = pend[p][i + 1]
    BY <1>1
<1>5. \A f \in StatFields : Local(p, f)' = Local(p, f)
    BY <1>1, AppliedSeenAsBefore, StatNames DEF Local
<1>6. \A q \in Players : (Held(q)' <=> Held(q)) /\ (Wanted(q)' <=> Wanted(q))
    BY <1>1, SameInboxes, SameReads
<1>7. (Written(other)' <=> Written(other)) /\ (Written(p)' => Written(p))
    BY <1>1, <1>4 DEF Written
<1> HIDE DEF other, w
<1>8. (Resolving(other)' <=> Resolving(other)) /\ (Resolving(p)' => Resolving(p))
    BY <1>3, <1>6, <1>7, ResolvingParts
<1>9. ASSUME NEW q \in Players
      PROVE  /\ Staged(q)'
             /\ \A k \in Kinds : (Has(q, k)' <=> Has(q, k)) /\ (Due(q, k)' <=> Due(q, k))
             /\ (\A f \in StatFields : Local(q, f)' = Local(q, f)) => FreshRecords(q)'
    BY <1>1, SameDue DEF OneDecision
<1>10. ~Resolving(p) => \A f \in StatFields : Local(other, f)' = Local(other, f)
    <2> SUFFICES ASSUME ~Resolving(p), NEW f \in StatFields
                 PROVE  Local(other, f)' = Local(other, f)
        OBVIOUS
    <2>1. DOMAIN w \subseteq InputFields
        BY <1>4, ResolvingParts DEF Written
    <2>2. f \in Fields /\ f \notin DOMAIN w
        BY <2>1, StatNames
    <2>3. server'[f] = server[f]
        BY <2>2, <1>1 DEF After
    <2>q. QED BY <2>3, <1>1, <1>3 DEF Local, View, other
<1>11. FreshRecords(p)' /\ FreshRecords(other)'
    <2>1. CASE Resolving(p)
        <3>1. ~Resolving(other)
            BY <2>1, <1>2, <1>3 DEF Alone
        <3>2. \A f \in StatFields : ~Due(other, f)
            BY <3>1, <1>3, DueResolves, StatNames
        <3>3. \A f \in StatFields : ~Has(other, f)'
            BY <3>2, <1>3, <1>9, StatNames DEF Due
        <3>q. QED BY <3>3, <1>3, <1>5, <1>9, NoneHeldAreFresh
    <2>2. CASE ~Resolving(p)
        BY <2>2, <1>3, <1>5, <1>9, <1>10
    <2>q. QED BY <2>1, <2>2
<1>12. Balanced(p)' <=> Balanced(p)
    BY <1>1, <1>5, <1>9, StillBalanced, StatNames
<1>13. ASSUME ~Resolving(p)' PROVE Balanced(other)'
    <2>1. CASE Resolving(p)
        <3>1. ~Resolving(other)
            BY <2>1, <1>2, <1>3 DEF Alone
        <3>2. Balanced(p)'
            BY <3>1, <1>1, <1>12 DEF OneDecision, other
        <3>3. \A f \in StatFields : Record(other, f)' = Record(p, f)'
            BY <3>1, <1>3, <1>8, <1>13, RestSeesServer DEF Record
        <3>4. \A f \in StatFields : Credited(other, f)' = Credited(p, f)'
            BY <3>3 DEF Credited
        <3>q. QED BY <3>2, <3>4, StatNames DEF Balanced
    <2>2. CASE ~Resolving(p)
        <3>1. Balanced(other)
            BY <2>2, <1>1, <1>3 DEF OneDecision
        <3>q. QED BY <3>1, <2>2, <1>1, <1>3, <1>9, <1>10, StillBalanced, StatNames
    <2>q. QED BY <2>1, <2>2
<1>14. Resolving(other)' \/ Balanced(p)'
    BY <1>1, <1>8, <1>12 DEF OneDecision, other
<1>15. ASSUME NEW q \in Players
       PROVE  Staged(q)' /\ FreshRecords(q)' /\ (Resolving(Opponent(q))' \/ Balanced(q)')
    BY <1>3, <1>9, <1>11, <1>13, <1>14 DEF other
<1>q. QED BY <1>15 DEF OneDecision

\* A read that is answered.
LEMMA RecordsServe ==
    ASSUME Types, OneAtATime, OneDecision, NEW p \in Players, NEW k \in Kinds, NEW data,
           Answer(p, k, data), [kind |-> k, data |-> data] \in Answers
    PROVE  OneDecision'
<1> SUFFICES ASSUME ~disturbed' PROVE OneDecision'
    BY DEF OneDecision
<1> DEFINE a == [kind |-> k, data |-> data]
           other == Opponent(p)
<1>1. /\ asked[p][k] \in Nat \ {0}
      /\ inbox' = [inbox EXCEPT ![p] = Append(@, a)] /\ a \in Answers
      /\ UNCHANGED <<server, pend, decisions, unrecorded>>
      /\ inbox'[other] = inbox[other] /\ asked'[other] = asked[other]
      /\ \A l \in Kinds : asked'[p][l] = IF l = k THEN asked[p][l] - 1 ELSE asked[p][l]
    BY FieldNames DEF Answer, Types
<1>2. /\ ~disturbed
      /\ k = "fight" /\ Resolves(p, data) => \A q \in Players : ~Resolving(q)
      /\ k # "fight" => \A f \in FieldsRead(k) : data[f] = Local(p, f)
    BY AnswerUndisturbed
<1>3. a.kind = k /\ a.data = data /\ (k \in StatFields => a.data[k] = Local(p, k))
    BY <1>2, StatNames DEF FieldsRead
<1>4. other \in Players /\ other # p /\ \A q \in Players : q = p \/ q = other
    BY DEF Players, Opponent
<1>5. Alone /\ Staged(p) /\ FreshRecords(p)
    BY <1>2 DEF OneAtATime, OneDecision
<1>6. \A q \in Players : \A f \in StatFields : Local(q, f)' = Local(q, f)
    BY <1>1, NothingSeen
<1> HIDE DEF a, other
<1>7. Counts(p, a) <=> (k = "fight" => Resolves(p, data))
    BY <1>3 DEF Counts
<1>8. Counts(p, a) => ~Has(p, a.kind)
    <2>1. CASE k = "fight"
        <3>1. Counts(p, a) => ~Due(p, k)
            BY <2>1, <1>2, <1>7, DueResolves
        <3>q. QED BY <3>1, <1>3 DEF Due
    <2>2. CASE k # "fight"
        BY <2>2, <1>1, <1>3, <1>5 DEF Staged, AskedOnce, Waits
    <2>q. QED BY <2>1, <2>2
<1>9. /\ HeldOnce(p)'
      /\ \A l \in Kinds : Has(p, l)' <=> Has(p, l) \/ (Counts(p, a) /\ l = k)
      /\ \A i \in 1..Len(inbox'[p]) : inbox'[p][i] = a
           \/ \E j \in 1..Len(inbox[p]) : inbox'[p][i] = inbox[p][j]
    BY <1>1, <1>3, <1>5, <1>8, RecordAdded DEF Staged
<1>10. FreshRecords(p)'
    <2> SUFFICES ASSUME NEW i \in 1..Len(inbox'[p]), NEW f \in StatFields, inbox'[p][i].kind = f
                 PROVE  inbox'[p][i].data[f] = Local(p, f)'
        BY DEF FreshRecords
    <2>1. inbox'[p][i].data[f] = Local(p, f)
        BY <1>3, <1>5, <1>9 DEF FreshRecords
    <2>q. QED BY <2>1, <1>6
<1>11. CASE k = "fight" /\ ~Resolves(p, data)
    <2>1. \A l \in Kinds \ {"fight"} : asked'[p][l] = asked[p][l]
        BY <1>1, <1>11
    <2>2. \A l \in Kinds : (Has(p, l)' <=> Has(p, l)) /\ (Waits(p, l)' <=> Waits(p, l))
        BY <2>1, <1>7, <1>9, <1>11 DEF Waits
    <2>3. \A l \in Kinds : Due(p, l)' <=> Due(p, l)
        BY <2>2 DEF Due
    <2>4. Staged(p)'
        BY <2>1, <2>2, <2>3, <1>5, <1>9 DEF Staged, AskedOnce, OneStage, Waits
    <2>5. Staged(other) => Staged(other)'
        BY <1>1, <1>4, SameDue
    <2>6. FreshRecords(other) => FreshRecords(other)'
        BY <1>1, <1>4, <1>6, SameDue
    <2>7. \A f \in StatFields : Due(other, f)' <=> Due(other, f)
        BY <1>1, <1>4, SameDue, StatNames
    <2>8. \A q \in Players : Resolving(q)' <=> Resolving(q)
        <3>1. Written(p)' <=> Written(p)
            BY <1>1, NothingSeen
        <3>2. Wanted(p)' <=> Wanted(p)
            BY <2>1, SameReads
        <3>3. Held(p)' <=> Held(p)
            BY <1>1, <1>3, <1>11, AnswerAdded
        <3>4. Resolving(p)' <=> Resolving(p)
            BY <3>1, <3>2, <3>3, ResolvingParts
        <3>5. Resolving(other)' <=> Resolving(other)
            BY <1>1, <1>4 DEF Resolving, Resolves
        <3>q. QED BY <3>4, <3>5, <1>4
    <2>9. \A q \in Players : /\ Staged(q) => Staged(q)'
                             /\ FreshRecords(q) => FreshRecords(q)'
                             /\ \A f \in StatFields : Due(q, f)' <=> Due(q, f)
        BY <2>3, <2>4, <2>5, <2>6, <2>7, <1>4, <1>10, StatNames
    <2>q. QED BY <2>8, <2>9, <1>1, <1>2, <1>6, QuietRecords
<1>12. CASE Counts(p, a)
    <2>1. Resolving(p)'
        <3>1. Due(p, k)'
            BY <1>9, <1>12 DEF Due
        <3>q. QED BY <3>1, DueResolves
    <2>2. ~Resolving(other)
        <3>1. k # "fight" => Resolving(p)
            BY <1>1, DueResolves DEF Due, Waits
        <3>q. QED BY <3>1, <1>2, <1>4, <1>5, <1>7, <1>12 DEF Alone
    <2>3. \A l \in Kinds : Waits(p, l)' <=> Waits(p, l) /\ l # k
        <3>1. k # "fight" => asked[p][k] = 1
            BY <1>1, <1>5 DEF Staged, AskedOnce, Waits
        <3>q. QED BY <3>1, <1>1 DEF Waits
    <2>4. \A l \in Kinds : l # k => (Due(p, l)' <=> Due(p, l))
        BY <2>3, <1>9 DEF Due
    <2>5. k # "fight" => Due(p, k)
        BY <1>1 DEF Due, Waits
    <2>6. k = "fight" => \A l \in Kinds : ~Due(p, l)
        BY <1>2, <1>7, <1>12, DueResolves
    <2>7. OneStage(p)'
        BY <2>4, <2>5, <2>6, <1>5 DEF Staged, OneStage
    <2>8. AskedOnce(p)'
        BY <2>3, <1>1, <1>5, <1>9 DEF Staged, AskedOnce, Waits
    <2>9. Balanced(p) => Balanced(p)'
        <3>1. \A f \in StatFields : Due(p, f)' <=> Due(p, f)
            <4>1. Due(p, k)'
                BY <1>9, <1>12 DEF Due
            <4>q. QED BY <4>1, <2>4, <2>5, StatNames
        <3>q. QED BY <3>1, <1>1, <1>6, StillBalanced
    <2>q. QED BY <2>1, <2>2, <2>7, <2>8, <2>9, <1>1, <1>2, <1>4, <1>6, <1>9, <1>10, ResolverStep
             DEF Staged, other
<1>q. QED BY <1>7, <1>11, <1>12

\* A read that ends with an error ends what is due of it: a win or loss is lost.
LEMMA RecordsFails ==
    ASSUME Types, OneAtATime, OneDecision, NEW p \in Players, NEW k \in Kinds, ReadFails(p, k)
    PROVE  OneDecision'
<1> SUFFICES ASSUME ~disturbed' PROVE OneDecision'
    BY DEF OneDecision
<1> DEFINE other == Opponent(p)
<1>1. /\ UNCHANGED <<server, pend, inbox, disturbed, decisions>> /\ ~disturbed
      /\ asked[p][k] \in Nat \ {0} /\ asked'[other] = asked[other]
      /\ \A l \in Kinds : asked'[p][l] = IF l = k THEN asked[p][l] - 1 ELSE asked[p][l]
      /\ \A q \in Players : \A f : Local(q, f)' = Local(q, f)
      /\ Resolving(other)' <=> Resolving(other)
    BY ReadLost
<1>2. Alone /\ Staged(p) /\ FreshRecords(p)
    BY <1>1 DEF OneAtATime, OneDecision
<1>3. /\ other \in Players /\ other # p /\ Opponent(other) = p
      /\ \A q \in Players : q = p \/ q = other
    BY DEF Players, Opponent
<1>4. \A f \in StatFields : /\ unrecorded[f] \in Nat
                             /\ unrecorded'[f] = unrecorded[f] + (IF f = k THEN 1 ELSE 0)
    BY DEF ReadFails, Types
<1>5. CASE k = "fight"
    <2>1. unrecorded' = unrecorded
        <3>1. \A f \in StatFields : unrecorded'[f] = unrecorded[f]
            BY <1>4, <1>5, StatNames
        <3>q. QED BY <3>1 DEF ReadFails, Types
    <2>2. \A q \in Players : \A l \in Kinds \ {"fight"} :
              inbox'[q] = inbox[q] /\ asked'[q][l] = asked[q][l]
        BY <1>1, <1>3, <1>5
    <2>3. \A q \in Players : Resolving(q)' <=> Resolving(q)
        BY <1>1, <1>3, <1>5, ReadLost
    <2>4. \A q \in Players : /\ Staged(q) => Staged(q)'
                             /\ FreshRecords(q) => FreshRecords(q)'
                             /\ \A f \in StatFields : Due(q, f)' <=> Due(q, f)
        BY <2>2, <1>1, SameDue, StatNames
    <2>q. QED BY <2>1, <2>3, <2>4, <1>1, QuietRecords
<1>6. CASE k # "fight"
    <2>1. Resolving(p) /\ Waits(p, k)
        BY <1>1, <1>6, ReadLost DEF Waits
    <2>2. ~Resolving(other) /\ Balanced(p)
        BY <2>1, <1>1, <1>2, <1>3 DEF Alone, OneDecision, other
    <2>3. \A l \in Kinds : Has(p, l)' <=> Has(p, l)
        BY <1>1 DEF Has, Counts, Resolves
    <2>4. asked[p][k] = 1 /\ ~Has(p, k)
        BY <2>1, <1>2 DEF Staged, AskedOnce
    <2>5. \A l \in Kinds : Waits(p, l)' <=> Waits(p, l) /\ l # k
        BY <2>4, <1>1 DEF Waits
    <2>6. \A l \in Kinds : Due(p, l)' <=> Due(p, l) /\ l # k
        BY <2>3, <2>4, <2>5 DEF Due
    <2>7. Staged(p)'
        <3>1. HeldOnce(p)'
            BY <1>1, <1>2 DEF Staged, HeldOnce, Counts, Resolves
        <3>2. AskedOnce(p)'
            BY <2>3, <2>5, <1>1, <1>2 DEF Staged, AskedOnce
        <3>3. OneStage(p)'
            BY <2>6, <1>2 DEF Staged, OneStage
        <3>q. QED BY <3>1, <3>2, <3>3 DEF Staged
    <2>8. FreshRecords(p)'
        BY <1>1, <1>2, StillFresh
    <2>9. \A f \in StatFields : Credited(p, f)' = Credited(p, f)
        <3> SUFFICES ASSUME NEW f \in StatFields PROVE Credited(p, f)' = Credited(p, f)
            OBVIOUS
        <3>1. Local(p, f) \in Nat /\ Local(p, f)' = Local(p, f) /\ f \in Kinds
            BY <1>1, LocalType, FieldKinds, StatNames
        <3>2. CASE f = k
            <4>1. Due(p, f) /\ ~Due(p, f)'
                BY <3>1, <3>2, <2>1, <2>6 DEF Due
            <4>q. QED BY <4>1, <3>1, <3>2, <1>4 DEF Credited, Record
        <3>3. CASE f # k
            <4>1. Due(p, f)' <=> Due(p, f)
                BY <3>1, <3>3, <2>6
            <4>2. Record(p, f)' = Record(p, f) /\ unrecorded'[f] = unrecorded[f]
                BY <4>1, <3>1, <3>3, <1>4 DEF Record
            <4>q. QED BY <4>2 DEF Credited
        <3>q. QED BY <3>2, <3>3
    <2>10. Balanced(p)'
        BY <2>2, <2>9, <1>1, StatNames DEF Balanced
    <2>11. CASE Resolving(p)'
        BY <2>2, <2>7, <2>8, <2>10, <2>11, <1>1, <1>3, ResolverStep DEF other
    <2>12. CASE ~Resolving(p)'
        <3>1. Staged(other)' /\ FreshRecords(other)'
            BY <1>1, <1>3, SameDue DEF OneDecision
        <3>2. \A f \in StatFields : Record(other, f)' = Record(p, f)'
            BY <2>2, <2>12, <1>1, <1>3, RestSeesServer DEF Record
        <3>3. \A f \in StatFields : Credited(other, f)' = Credited(p, f)'
            BY <3>2 DEF Credited
        <3>4. Balanced(other)'
            BY <2>10, <3>3, StatNames DEF Balanced
        <3>q. QED BY <3>1, <3>4, <2>7, <2>8, <2>10, <1>3 DEF OneDecision
    <2>q. QED BY <2>11, <2>12
<1>q. QED BY <1>5, <1>6

\* What a callback of p leaves of the opponent.
LEMMA OpponentWaits ==
    ASSUME Types, NEW p \in Players, NEW kinds, Callback(p, kinds)
    PROVE  /\ Opponent(p) \in Players /\ Opponent(p) # p
           /\ inbox'[Opponent(p)] = inbox[Opponent(p)]
           /\ \A q \in Players : q = p \/ q = Opponent(p)
BY DEF Callback, Types, Players, Opponent

LEMMA RecordsFight ==
    ASSUME Types, OneAtATime, OneDecision, NEW p \in Players, FightCallback(p)
    PROVE  OneDecision'
<1> SUFFICES ASSUME ~disturbed' PROVE OneDecision'
    BY DEF OneDecision
<1> DEFINE theirs == Head(inbox[p]).data[InputField(Opponent(p))]
           a == Head(inbox[p])
           other == Opponent(p)
<1>1. /\ Callback(p, {"fight"}) /\ a.kind = "fight"
      /\ UNCHANGED <<server, disturbed, decisions, unrecorded>> /\ ~disturbed
    BY DEF FightCallback, Callback, history
<1>2. /\ Alone /\ Staged(p) /\ FreshRecords(p)
    BY <1>1 DEF OneAtATime, OneDecision
<1>3. /\ other \in Players /\ other # p /\ inbox'[other] = inbox[other]
      /\ \A q \in Players : q = p \/ q = other
    BY <1>1, OpponentWaits
<1>4. /\ HeldOnce(p)'
      /\ \A k \in Kinds : Has(p, k)' => Has(p, k)
      /\ \A k \in Kinds : Has(p, k) /\ ~(Counts(p, a) /\ k = a.kind) => Has(p, k)'
      /\ \A k \in Kinds : Counts(p, a) /\ k = a.kind => Has(p, k) /\ ~Has(p, k)'
      /\ \A i \in 1..Len(inbox'[p]) : \E j \in 1..Len(inbox[p]) : inbox'[p][i] = inbox[p][j]
    BY <1>1, <1>2, RecordTaken DEF Staged
<1>5. Counts(p, a) <=> theirs \in Fighters
    BY <1>1 DEF Counts, Resolves
<1>6. a = inbox[p][1] /\ 1 \in 1..Len(inbox[p])
      /\ (~Counts(p, a) => (Held(p)' <=> Held(p)))
    BY <1>1, AnswerTaken DEF Counts
<1> HIDE DEF theirs, a, other
<1>7. ASSUME NEW more, Queue(more), pend' = [pend EXCEPT ![p] = @ \o more],
             \A f \in StatFields : Own(more, f) = {}
      PROVE  \A q \in Players : \A f \in StatFields : Local(q, f)' = Local(q, f)
    BY <1>1, <1>7, OthersSeen, StatNames
<1>8. (\A f \in StatFields : Local(p, f)' = Local(p, f)) => FreshRecords(p)'
    BY <1>2, <1>4, StillFresh
<1>9. ASSUME ~Counts(p, a), UNCHANGED asked, \A q \in Players : Written(q)' <=> Written(q),
             \A q \in Players : \A f \in StatFields : Local(q, f)' = Local(q, f)
      PROVE  OneDecision'
    <2>1. \A k \in Kinds : (Has(p, k)' <=> Has(p, k)) /\ (Waits(p, k)' <=> Waits(p, k))
        BY <1>4, <1>9 DEF Waits
    <2>2. \A k \in Kinds : Due(p, k)' <=> Due(p, k)
        BY <2>1 DEF Due
    <2>3. Staged(p)'
        BY <2>1, <2>2, <1>2, <1>4, <1>9 DEF Staged, AskedOnce, OneStage, Waits
    <2>4. /\ Staged(other) => Staged(other)'
          /\ FreshRecords(other) => FreshRecords(other)'
          /\ \A f \in StatFields : Due(other, f)' <=> Due(other, f)
        BY <1>3, <1>9, SameDue, StatNames
    <2>5. ASSUME NEW q \in Players PROVE Resolving(q)' <=> Resolving(q)
        <3>1. Wanted(q)' <=> Wanted(q)
            BY <1>9, SameReads
        <3>2. Held(q)' <=> Held(q)
            BY <1>1, <1>3, <1>6, <1>9, AnswerTaken
        <3>q. QED BY <3>1, <3>2, <1>9, ResolvingParts
    <2>6. \A q \in Players : /\ Staged(q) => Staged(q)'
                             /\ FreshRecords(q) => FreshRecords(q)'
                             /\ \A f \in StatFields : Due(q, f)' <=> Due(q, f)
        BY <2>2, <2>3, <2>4, <1>3, <1>8, <1>9, StatNames
    <2>q. QED BY <2>5, <2>6, <1>1, <1>9, QuietRecords
<1>10. CASE theirs = "Empty" /\ Submit(p)
    <2> DEFINE more == <<Write(InputField(p), selection[p][p])>>
    <2>1. Queue(more) /\ pend' = [pend EXCEPT ![p] = @ \o more] /\ UNCHANGED asked
        <3>1. selection[p][p] \in Fighters
            BY DEF Types
        <3>2. Write(InputField(p), selection[p][p]) \in Writes
            BY <3>1, ResolutionWrites
        <3>q. QED BY <3>2, <1>10, FewAreQueues DEF Submit
    <2>2. \A i \in 1..Len(more) : DOMAIN more[i] \subseteq InputFields
        BY FieldNames DEF Write
    <2>3. ~Counts(p, a)
        BY <1>5, <1>10 DEF Fighters
    <2> HIDE DEF more
    <2>4. \A f \in StatFields : Own(more, f) = {}
        BY <2>2, StatNames DEF Own
    <2>5. \A q \in Players : Written(q)' <=> Written(q)
        BY <2>1, <2>2, WrittenGrows
    <2>q. QED BY <2>1, <2>3, <2>4, <2>5, <1>7, <1>9
<1>11. CASE theirs = "absent" /\ FightTraps(p)
    <2>1. UNCHANGED <<server, pend, asked>> /\ ~Counts(p, a)
        BY <1>1, <1>5, <1>11 DEF FightTraps, Fighters
    <2>q. QED BY <2>1, <1>9, NothingSeen
<1>12. CASE theirs \in Fighters /\ Resolve(p, theirs)
    <2> DEFINE more == << Write(SelectionField(p), selection[p][p]),
                          Write(SelectionField(Opponent(p)), theirs),
                          Write("hostInputCheck", "Empty"), Write("guestInputCheck", "Empty") >>
    <2>1. Queue(more) /\ pend' = [pend EXCEPT ![p] = @ \o more] /\ Ask(p, {"engine"})
        BY <1>12, ResolutionWrites, FewAreQueues DEF Resolve
    <2>2. \A f \in StatFields : Own(more, f) = {}
        <3>1. /\ SelectionField(p) \notin StatFields /\ SelectionField(Opponent(p)) \notin StatFields
              /\ "hostInputCheck" \notin StatFields /\ "guestInputCheck" \notin StatFields
            BY FieldNames, StatNames DEF InputFields
        <3>q. QED BY <3>1 DEF Own, Write
    <2> HIDE DEF more
    <2>3. \A q \in Players : \A f \in StatFields : Local(q, f)' = Local(q, f)
        BY <2>1, <2>2, <1>7
    <2>4. /\ asked'[other] = asked[other] /\ asked[p]["engine"] \in Nat
          /\ \A k \in Kinds : asked'[p][k] = IF k = "engine" THEN asked[p][k] + 1 ELSE asked[p][k]
        BY <2>1, <1>3 DEF Ask, Types, Kinds
    <2>5. Has(p, "fight") /\ ~Has(p, "fight")' /\ Counts(p, a)
        BY <1>1, <1>4, <1>5, <1>12, StatNames
    <2>6. \A k \in Kinds : k # "fight" => ~Due(p, k)
        BY <2>5, <1>2, StatNames DEF Staged, OneStage, Due
    <2>7. \A k \in Kinds : ~Has(p, k)' /\ (Waits(p, k)' <=> k = "engine")
        <3>1. \A k \in Kinds : ~Has(p, k)'
            BY <2>5, <2>6, <1>4 DEF Due
        <3>2. \A k \in Kinds : ~Waits(p, k)
            BY <2>6 DEF Due, Waits
        <3>q. QED BY <3>1, <3>2, <2>4 DEF Waits
    <2>8. asked'[p]["engine"] = 1
        BY <2>4, <2>6, StatNames DEF Due, Waits
    <2>9. Staged(p)'
        <3>1. \A k \in Kinds : Due(p, k)' => k = "engine"
            BY <2>7 DEF Due
        <3>2. AskedOnce(p)'
            BY <2>7, <2>8 DEF AskedOnce
        <3>q. QED BY <3>1, <3>2, <1>4 DEF Staged, OneStage
    <2>10. Balanced(p) => Balanced(p)'
        <3>1. \A f \in StatFields : ~Due(p, f) /\ ~Due(p, f)'
            BY <2>6, <2>7, StatNames DEF Due
        <3>q. QED BY <3>1, <2>3, <1>1, StillBalanced
    <2>11. Resolving(p)' /\ ~Resolving(other)
        <3>1. Due(p, "engine")' /\ Due(p, "fight")
            BY <2>5, <2>7, StatNames DEF Due
        <3>2. Resolving(p)' /\ Resolving(p)
            BY <3>1, DueResolves, StatNames
        <3>q. QED BY <3>2, <1>2, <1>3 DEF Alone
    <2>q. QED BY <2>3, <2>4, <2>9, <2>10, <2>11, <1>1, <1>3, <1>8, ResolverStep DEF other
<1>q. QED BY <1>10, <1>11, <1>12 DEF FightCallback, theirs

\* A win and a loss are owed for each decision.
LEMMA OwedPair ==
    ASSUME NEW p \in Players, NEW s
    PROVE  \/ /\ WinsField(Leader(s)) = "hostWins"
              /\ LossesField(Opponent(Leader(s))) = "guestLosses"
           \/ /\ WinsField(Leader(s)) = "guestWins"
              /\ LossesField(Opponent(Leader(s))) = "hostLosses"
BY DEF WinsField, LossesField, Leader, Opponent

LEMMA RecordsEngine ==
    ASSUME Types, OneAtATime, OneDecision, NEW p \in Players, EngineCallback(p)
    PROVE  OneDecision'
<1> SUFFICES ASSUME ~disturbed' PROVE OneDecision'
    BY DEF OneDecision
<1> DEFINE s == NewRound(p)
           a == Head(inbox[p])
           other == Opponent(p)
           owed == IF MatchOver(s) THEN {WinsField(Leader(s)), LossesField(Opponent(Leader(s)))}
                   ELSE {}
<1>1. Callback(p, {"engine"}) /\ a.kind = "engine" /\ UNCHANGED <<server, disturbed, unrecorded>> /\ ~disturbed
    BY DEF EngineCallback, Callback
<1>2. Alone /\ Staged(p) /\ FreshRecords(p)
    BY <1>1 DEF OneAtATime, OneDecision
<1>3. /\ other \in Players /\ other # p /\ inbox'[other] = inbox[other]
      /\ \A q \in Players : q = p \/ q = other
    BY <1>1, OpponentWaits
<1>4. /\ HeldOnce(p)'
      /\ \A k \in Kinds : Has(p, k)' => Has(p, k)
      /\ Has(p, "engine") /\ ~Has(p, "engine")'
    BY <1>1, <1>2, RecordTaken, StatNames DEF Staged, Counts
<1> HIDE DEF s, a, other
<1>5. /\ Queue(RoundWrites(s)) /\ Queue(DecisionWrites(p, s))
      /\ MatchOver(s) =>
           /\ pend' = [pend EXCEPT ![p] = @ \o DecisionWrites(p, s)]
           /\ Ask(p, {WinsField(Leader(s)), LossesField(Opponent(Leader(s)))})
           /\ decisions' = decisions + 1
      /\ ~MatchOver(s) =>
           pend' = [pend EXCEPT ![p] = @ \o RoundWrites(s)] /\ UNCHANGED <<asked, decisions>>
    BY EngineWrites DEF s
<1>6. PICK more : /\ Queue(more) /\ pend' = [pend EXCEPT ![p] = @ \o more]
                  /\ more = IF MatchOver(s) THEN DecisionWrites(p, s) ELSE RoundWrites(s)
    BY <1>5
<1>7. \A f \in StatFields : Own(more, f) = {}
    BY <1>6, StatNames DEF DecisionWrites, RoundWrites, Own, Write
<1>8. \A q \in Players : \A f \in StatFields : Local(q, f)' = Local(q, f)
    BY <1>1, <1>6, <1>7, OthersSeen, StatNames
<1>9. owed \subseteq StatFields
    BY OwedPair, StatNames
<1>10. /\ asked'[other] = asked[other]
       /\ \A k \in Kinds : asked[p][k] \in Nat
       /\ \A k \in Kinds : asked'[p][k] = IF k \in owed THEN asked[p][k] + 1 ELSE asked[p][k]
    <2>1. CASE MatchOver(s)
        BY <2>1, <1>3, <1>5 DEF Ask, Types
    <2>2. CASE ~MatchOver(s)
        BY <2>2, <1>3, <1>5 DEF Types
    <2>q. QED BY <2>1, <2>2
<1>11. decisions' = IF MatchOver(s) THEN decisions + 1 ELSE decisions
    BY <1>5
<1> HIDE DEF owed
<1>12. \A k \in Kinds : k # "engine" => ~Due(p, k)
    BY <1>2, <1>4, StatNames DEF Staged, OneStage, Due
<1>13. ~Waits(p, "engine")
    BY <1>2, <1>4, StatNames DEF Staged, AskedOnce
<1>14. \A k \in Kinds : ~Has(p, k)'
    BY <1>4, <1>12 DEF Due
<1>15. \A k \in Kinds : ~Waits(p, k)
    BY <1>12, <1>13 DEF Due
<1>16. \A k \in Kinds : (Waits(p, k)' <=> k \in owed) /\ (k \in owed => asked'[p][k] = 1)
    <2> SUFFICES ASSUME NEW k \in Kinds
                 PROVE  (Waits(p, k)' <=> k \in owed) /\ (k \in owed => asked'[p][k] = 1)
        OBVIOUS
    <2>1. k \in owed => k # "fight"
        BY <1>9, StatNames
    <2>2. k # "fight" => asked[p][k] = 0
        BY <1>10, <1>15 DEF Waits
    <2>q. QED BY <2>1, <2>2, <1>10 DEF Waits
<1>17. \A k \in Kinds : Due(p, k)' <=> k \in owed
    BY <1>14, <1>16 DEF Due
<1>18. Staged(p)'
    <2>1. AskedOnce(p)'
        BY <1>14, <1>16 DEF AskedOnce
    <2>2. OneStage(p)'
        BY <1>9, <1>17 DEF OneStage
    <2>q. QED BY <2>1, <2>2, <1>4 DEF Staged
<1>19. FreshRecords(p)'
    BY <1>14, NoneHeldAreFresh, StatNames
<1>20. Balanced(p) => Balanced(p)'
    <2>1. \A f \in StatFields : Record(p, f)' = Local(p, f) + (IF f \in owed THEN 1 ELSE 0)
        BY <1>8, <1>17, StatNames DEF Record
    <2>2. \A f \in StatFields : Record(p, f) = Local(p, f) + 0
        BY <1>12, StatNames DEF Record
    <2>3. \A f \in StatFields : Local(p, f) \in Nat
        BY LocalType, FieldKinds, StatNames
    <2>4. \A f \in StatFields : Record(p, f) = Local(p, f)
        BY <2>2, <2>3
    <2>5. CASE ~MatchOver(s)
        <3>1. \A f \in StatFields : Record(p, f)' = Record(p, f)
            BY <2>1, <2>2, <2>5 DEF owed
        <3>2. \A f \in StatFields : Credited(p, f)' = Credited(p, f)
            BY <3>1, <1>1 DEF Credited
        <3>q. QED BY <3>2, <2>5, <1>11, StatNames DEF Balanced
    <2>6. CASE MatchOver(s)
        <3>1. decisions \in Nat /\ decisions' = decisions + 1
            BY <2>6, <1>11 DEF Types
        <3>2. \/ owed = {"hostWins", "guestLosses"}
              \/ owed = {"guestWins", "hostLosses"}
            BY <2>6, OwedPair DEF owed
        <3>3. \A f \in StatFields : /\ unrecorded[f] \in Nat
                                     /\ Credited(p, f) = Local(p, f) + unrecorded[f]
            BY <2>4 DEF Credited, Types
        <3>4. \A f \in StatFields : Credited(p, f)' = Credited(p, f) + (IF f \in owed THEN 1 ELSE 0)
            BY <3>3, <2>1, <2>3, <1>1 DEF Credited
        <3>5. \A f \in StatFields : Credited(p, f) \in Nat
            BY <3>3, <2>3
        <3>q. QED BY <3>1, <3>2, <3>4, <3>5, StatNames DEF Balanced
    <2>q. QED BY <2>5, <2>6
<1>21. ~Resolving(other)
    <2>1. Resolving(p)
        BY <1>4, DueResolves, StatNames DEF Due
    <2>q. QED BY <2>1, <1>2, <1>3 DEF Alone
<1>22. Resolving(p)'
    <2>1. 1 \in 1..Len(more) /\ ~(DOMAIN more[1] \subseteq InputFields)
        BY <1>6, RoundNewest, DecisionNewest, KeysAreRoom DEF Newest
    <2>q. QED BY <2>1, <1>6, WrittenGrows, ResolvingParts
<1>q. QED BY <1>1, <1>3, <1>8, <1>10, <1>18, <1>19, <1>20, <1>21, <1>22, ResolverStep DEF other

\* The callback of a record writes what it owes.
LEMMA RecordsStat ==
    ASSUME Types, OneAtATime, OneDecision, NEW p \in Players, StatCallback(p)
    PROVE  OneDecision'
<1> SUFFICES ASSUME ~disturbed' PROVE OneDecision'
    BY DEF OneDecision
<1> DEFINE a == Head(inbox[p])
           other == Opponent(p)
<1>0. PICK f \in StatFields :
         /\ f = a.kind /\ Callback(p, StatFields)
         /\ pend' = [pend EXCEPT ![p] = @ \o <<Write(f, a.data[f] + 1)>>]
         /\ UNCHANGED <<server, disturbed, asked, decisions, unrecorded>> /\ ~disturbed
    BY DEF StatCallback, Callback, history
<1>1. Alone /\ Staged(p) /\ FreshRecords(p)
    BY <1>0 DEF OneAtATime, OneDecision
<1>2. /\ other \in Players /\ other # p /\ inbox'[other] = inbox[other]
      /\ \A q \in Players : q = p \/ q = other
    BY <1>0, OpponentWaits
<1>3. a = inbox[p][1] /\ 1 \in 1..Len(inbox[p])
    BY <1>0, AnswerTaken
<1>4. Counts(p, a)
    BY <1>0, StatNames DEF Counts
<1>5. /\ HeldOnce(p)'
      /\ \A k \in Kinds : k # f => (Has(p, k)' <=> Has(p, k))
      /\ Has(p, f) /\ ~Has(p, f)'
      /\ \A i \in 1..Len(inbox'[p]) : \E j \in 1..Len(inbox[p]) : inbox'[p][i] = inbox[p][j]
    BY <1>0, <1>1, <1>4, RecordTaken, StatNames DEF Staged
<1>6. a.data[f] = Local(p, f)
    BY <1>0, <1>1, <1>3 DEF FreshRecords
<1> HIDE DEF a, other
<1>7. Local(p, f) \in Nat /\ f \in Fields /\ f \in Kinds /\ f # "fight"
    BY LocalType, FieldKinds, StatNames
<1> DEFINE w == Write(f, Local(p, f) + 1)
           more == <<w>>
<1>8. w \in Writes /\ DOMAIN w = {f} /\ w[f] = Local(p, f) + 1
    <2>1. FieldType(f) = Nat
        BY FieldKinds
    <2>2. Local(p, f) + 1 \in Nat
        BY <1>7
    <2>q. QED BY <2>1, <2>2, <1>7, SingleWrite
<1>9. Queue(more) /\ pend' = [pend EXCEPT ![p] = @ \o more] /\ more \in Seq(Writes)
    <2>1. Write(f, a.data[f] + 1) = w
        BY <1>6
    <2>2. pend' = [pend EXCEPT ![p] = @ \o more]
        BY <2>1, <1>0
    <2> HIDE DEF w
    <2>3. Queue(more)
        BY <1>8, FewAreQueues
    <2>q. QED BY <2>2, <2>3 DEF Queue
<1> HIDE DEF w
<1>10. /\ Newest(more, f, 1) /\ more[1] = w /\ \A g : g # f => Own(more, g) = {}
    BY <1>8 DEF Newest, Own
<1>11. ~(DOMAIN more[1] \subseteq InputFields) /\ 1 \in 1..Len(more)
    BY <1>8, StatNames
<1> HIDE DEF more
<1>12. Local(p, f)' = Local(p, f) + 1
    <2>1. pend[p] \in Seq(Writes) /\ pend'[p] = pend[p] \o more
        BY <1>9 DEF Types, Queue
    <2>2. View(server, pend[p] \o more, f) = more[1][f]
        BY <2>1, <1>9, <1>10, NewerReplace
    <2>q. QED BY <2>1, <2>2, <1>0, <1>8, <1>10 DEF Local
<1>13. \A g \in StatFields : g # f => Local(p, g)' = Local(p, g)
    BY <1>0, <1>9, <1>10, OthersSeen, StatNames
<1>14. \A g \in StatFields : Local(other, g)' = Local(other, g)
    <2>1. pend'[other] = pend[other]
        BY <1>2, <1>9 DEF Types
    <2>q. QED BY <2>1, <1>0 DEF Local
<1>15. /\ \A k \in Kinds : Waits(p, k)' <=> Waits(p, k)
       /\ ~Waits(p, f)
    BY <1>0, <1>1, <1>5, <1>7 DEF Waits, Staged, AskedOnce
<1>16. ~Due(p, f)' /\ Due(p, f) /\ \A k \in Kinds : k # f => (Due(p, k)' <=> Due(p, k))
    BY <1>5, <1>15, <1>7 DEF Due
<1>17. Staged(p)'
    <2>1. AskedOnce(p)'
        BY <1>0, <1>1, <1>5, <1>15 DEF Staged, AskedOnce
    <2>2. OneStage(p)'
        BY <1>1, <1>16 DEF Staged, OneStage
    <2>q. QED BY <2>1, <2>2, <1>5 DEF Staged
<1>18. FreshRecords(p)'
    <2> SUFFICES ASSUME NEW i \in 1..Len(inbox'[p]), NEW g \in StatFields, inbox'[p][i].kind = g
                 PROVE  inbox'[p][i].data[g] = Local(p, g)'
        BY DEF FreshRecords
    <2>1. Has(p, g)'
        BY StatNames DEF Has, Counts
    <2>2. g # f
        BY <2>1, <1>5
    <2>3. inbox'[p][i].data[g] = Local(p, g)
        <3>1. PICK j \in 1..Len(inbox[p]) : inbox'[p][i] = inbox[p][j]
            BY <1>5
        <3>2. inbox[p][j].kind = g
            BY <3>1
        <3>q. QED BY <3>1, <3>2, <1>1 DEF FreshRecords
    <2>q. QED BY <2>2, <2>3, <1>13
<1>19. Balanced(p) => Balanced(p)'
    <2>1. \A g \in StatFields : g # f => Record(p, g)' = Record(p, g)
        BY <1>13, <1>16, StatNames DEF Record
    <2>2. Record(p, f)' = Record(p, f)
        BY <1>7, <1>12, <1>16 DEF Record
    <2>3. \A g \in StatFields : Credited(p, g)' = Credited(p, g)
        BY <2>1, <2>2, <1>0 DEF Credited
    <2>q. QED BY <2>3, <1>0, StatNames DEF Balanced
<1>20. ~Resolving(other)
    <2>1. Resolving(p)
        BY <1>7, <1>16, DueResolves
    <2>q. QED BY <2>1, <1>1, <1>2 DEF Alone
<1>21. Resolving(p)'
    BY <1>9, <1>11, WrittenGrows, ResolvingParts
<1>q. QED BY <1>0, <1>2, <1>14, <1>17, <1>18, <1>19, <1>20, <1>21, ResolverStep DEF other

LEMMA RecordsInit == Init => OneDecision
<1> SUFFICES ASSUME Init, NEW p \in Players
             PROVE  Staged(p) /\ FreshRecords(p) /\ Balanced(p)
    BY DEF OneDecision
<1>1. /\ Len(inbox[p]) = 0 /\ 1..Len(inbox[p]) = {} /\ pend[p] = <<>>
      /\ \A k \in Kinds : asked[p][k] = 0
    BY DEF Init
<1>2. \A k \in Kinds : ~Waits(p, k) /\ ~Has(p, k) /\ ~Due(p, k)
    BY <1>1 DEF Waits, Has, Due
<1>3. Staged(p) /\ FreshRecords(p)
    BY <1>1, <1>2 DEF Staged, HeldOnce, AskedOnce, OneStage, FreshRecords
<1>4. ASSUME NEW f \in StatFields PROVE Record(p, f) = 0
    <2>1. Len(<<>>) = 0
        OBVIOUS
    <2>2. Own(pend[p], f) = {}
        BY <2>1, <1>1 DEF Own
    <2>3. Local(p, f) = server[f]
        BY <2>2, ViewOfDocument DEF Local
    <2>4. server[f] = 0
        BY StatNames DEF Init, InputFields, SelectionFields
    <2>q. QED BY <2>3, <2>4, <1>2, StatNames DEF Record
<1>5. decisions = 0 /\ \A f \in StatFields : unrecorded[f] = 0
    BY DEF Init
<1>6. \A f \in StatFields : Credited(p, f) = 0
    BY <1>4, <1>5 DEF Credited
<1>q. QED BY <1>3, <1>5, <1>6, StatNames DEF Balanced

LEMMA RecordsNext ==
    ASSUME Types, OneAtATime, OneDecision, [Next]_vars
    PROVE  OneDecision'
<1>1. CASE UNCHANGED vars
    BY <1>1, RecordsScreen DEF vars, history
<1>2. ASSUME NEW p \in Players, PlayerStep(p) PROVE OneDecision'
    BY <1>2, RecordsPlayer
<1>3. ASSUME NEW p \in Players, ScreenStep(p) PROVE OneDecision'
    BY <1>3, ScreenSteps, RecordsScreen
<1>4. ASSUME NEW p \in Players, SystemStep(p) PROVE OneDecision'
    <2>1. ASSUME NEW k \in Kinds, Serve(p, k) \/ ServeCached(p, k) PROVE OneDecision'
        BY <2>1, ServeAnswers, RecordsServe
    <2>q. QED BY <2>1, <1>3, <1>4, RecordsApply, RecordsFails, RecordsFight, RecordsEngine, RecordsStat
          DEF SystemStep, ScreenStep
<1>q. QED BY <1>1, <1>2, <1>4 DEF Next

\* Whenever no round is being resolved, each decision is one win and one loss, of
\* opponents, in the players' documents or known to be missing there since the
\* read before it ended with an error, unless the match was disturbed before:
\* though each number is read and written by a callback of its own.
THEOREM StatsAlwaysBalance == Spec => []StatsBalance
<1>1. Init => Types /\ OneAtATime /\ OneDecision
    BY TypesInit, SerialInit, RecordsInit
<1>2. Types /\ OneAtATime /\ OneDecision /\ [Next]_vars => (Types /\ OneAtATime /\ OneDecision)'
    BY TypesNext, SerialNext, RecordsNext
<1>3. Types /\ OneDecision => StatsBalance
    <2> SUFFICES ASSUME Types, OneDecision, ~disturbed, AtRest
                 PROVE  /\ Made("hostWins") = Made("guestLosses")
                        /\ Made("guestWins") = Made("hostLosses")
                        /\ Made("hostWins") + Made("guestWins") = decisions
        BY DEF StatsBalance
    <2>1. "host" \in Players /\ Opponent("host") \in Players
        BY DEF Players, Opponent
    <2>2. ~Resolving("host") /\ Balanced("host")
        BY <2>1 DEF AtRest, OneDecision
    <2>3. \A f \in StatFields : Record("host", f) = server[f]
        <3> SUFFICES ASSUME NEW f \in StatFields PROVE Record("host", f) = server[f]
            OBVIOUS
        <3>1. Own(pend["host"], f) = {}
            BY <2>1, <2>2, ResolvingParts, StatNames DEF Own, Written
        <3>2. Local("host", f) = server[f]
            BY <3>1, ViewOfDocument DEF Local
        <3>3. ~Due("host", f)
            BY <2>1, <2>2, DueResolves, StatNames
        <3>4. server[f] \in Nat
            BY StatNames, FieldKinds DEF Types
        <3>q. QED BY <3>2, <3>3, <3>4 DEF Record
    <2>4. \A f \in StatFields : Credited("host", f) = Made(f)
        BY <2>3 DEF Credited, Made
    <2>q. QED BY <2>2, <2>4, StatNames DEF Balanced
<1>q. QED BY <1>1, <1>2, <1>3, PTL DEF Spec

(* ------------------------- rounds in one step -------------------------- *)

\* The scores an answer holds are still those its reader sees.
Current(p) == \A i \in 1..Len(inbox[p]) : inbox[p][i].kind = "engine" =>
    \A f \in ScoreFields : inbox[p][i].data[f] = Local(p, f)
FreshScores == ~disturbed => \A p \in Players : Current(p)

RoundInv == Types /\ OneAtATime /\ OneDecision /\ FreshScores

\* What the mapping shows of a player's view, before and after a step.
Unseen(p) ==
    /\ \A f \in KeyFields : Local(p, f)' = Local(p, f)
    /\ \A f \in StatFields : Record(p, f)' = Record(p, f)

\* The step is none of AtomicRounds.
Steady ==
    /\ \A f \in KeyFields : Local(Witness, f)' = Local(Witness, f)
    /\ \A f \in StatFields : Record(Witness, f)' = Record(Witness, f)

LEMMA WitnessIsPlayer ==
    /\ Witness \in Players /\ Witness' \in Players
    /\ \A p \in Players : Alone /\ Resolving(p) => Witness = p
    /\ \A p \in Players : Alone' /\ Resolving(p)' => Witness' = p
BY DEF Witness, Players, Alone

LEMMA SeenFields ==
    /\ \A p \in Players : /\ WinsField(p) \in StatFields /\ LossesField(p) \in StatFields
                          /\ ScoreField(p) \in KeyFields
    /\ {"hostScore", "guestScore", "roundNumber", "matchWinner"} \subseteq KeyFields
BY StatNames, KeysAreRoom DEF WinsField, LossesField, ScoreField

\* The mapping at the witness, before and after a step.
LEMMA SeenByWitness ==
    /\ ScoresSeen[Witness] = [q \in Players |-> Local(Witness, ScoreField(q))]
    /\ WinsSeen[Witness] = [q \in Players |-> Record(Witness, WinsField(q))]
    /\ LossesSeen[Witness] = [q \in Players |-> Record(Witness, LossesField(q))]
    /\ RoundsSeen[Witness] = Local(Witness, "roundNumber")
    /\ ScoresSeen[Witness]' = [q \in Players |-> Local(Witness, ScoreField(q))']
    /\ WinsSeen[Witness]' = [q \in Players |-> Record(Witness, WinsField(q))']
    /\ LossesSeen[Witness]' = [q \in Players |-> Record(Witness, LossesField(q))']
    /\ RoundsSeen[Witness]' = Local(Witness, "roundNumber")'
<1>1. Witness \in Players /\ Witness' \in Players
    BY WitnessIsPlayer
<1>q. QED BY <1>1 DEF ScoresSeen, WinsSeen, LossesSeen, RoundsSeen

Label(text) ==
    IF text \in {"host", "Player 1"} THEN "host" ELSE
    IF text \in {"guest", "Player 2"} THEN "guest" ELSE "none"

LEMMA WinnerByWitness ==
    /\ WinnerSeen[Witness] = Label(Local(Witness, "matchWinner"))
    /\ WinnerSeen[Witness]' = Label(Local(Witness, "matchWinner")')
<1>1. Witness \in Players /\ Witness' \in Players
    BY WitnessIsPlayer
<1>q. QED BY <1>1 DEF WinnerSeen, Label

\* The step shows the same rounds, scores and winner.
SteadyScores == \A f \in KeyFields : Local(Witness, f)' = Local(Witness, f)

LEMMA ScoresStutter ==
    ASSUME SteadyScores
    PROVE  /\ ScoresSeen[Witness]' = ScoresSeen[Witness]
           /\ RoundsSeen[Witness]' = RoundsSeen[Witness]
           /\ WinnerSeen[Witness]' = WinnerSeen[Witness]
BY SeenFields, SeenByWitness, WinnerByWitness DEF SteadyScores

LEMMA SteadyStutters ==
    ASSUME Steady, disturbed' = disturbed, unrecorded' = unrecorded
    PROVE  UNCHANGED Rounds!vars
<1>1. /\ ScoresSeen[Witness]' = ScoresSeen[Witness] /\ RoundsSeen[Witness]' = RoundsSeen[Witness]
      /\ WinnerSeen[Witness]' = WinnerSeen[Witness]
    BY ScoresStutter DEF Steady, SteadyScores
<1>2. WinsSeen[Witness]' = WinsSeen[Witness] /\ LossesSeen[Witness]' = LossesSeen[Witness]
    BY SeenFields, SeenByWitness DEF Steady
<1>q. QED BY <1>1, <1>2 DEF Rounds!vars

\* Nobody sees anything new, and who resolves goes on.
LEMMA CalmIsSteady ==
    ASSUME \A p \in Players : Unseen(p) /\ (Resolving(p)' <=> Resolving(p))
    PROVE  Steady
<1>1. Witness' = Witness
    BY DEF Witness, Players
<1>2. Unseen(Witness)
    BY WitnessIsPlayer
<1>q. QED BY <1>1, <1>2 DEF Steady, Unseen

\* Players who are in no resolution see the same.
LEMMA RestsAlike ==
    ASSUME NEW p \in Players, NEW q \in Players
    PROVE  /\ ~Resolving(p) /\ ~Resolving(q) =>
                /\ \A f \in KeyFields : Local(p, f) = Local(q, f)
                /\ \A f \in StatFields : Record(p, f) = Record(q, f)
           /\ ~Resolving(p)' /\ ~Resolving(q)' =>
                /\ \A f \in KeyFields : Local(p, f)' = Local(q, f)'
                /\ \A f \in StatFields : Record(p, f)' = Record(q, f)'
<1>1. ASSUME NEW r \in Players, ~Resolving(r)
      PROVE  /\ \A f \in KeyFields : Local(r, f) = server[f]
             /\ \A f \in StatFields : Record(r, f) = server[f] + 0
    <2>1. ~Written(r)
        BY <1>1, ResolvingParts
    <2>2. \A f \in StatFields : Own(pend[r], f) = {}
        BY <2>1, StatNames DEF Own, Written
    <2>3. \A f \in StatFields : Local(r, f) = server[f] /\ ~Due(r, f)
        BY <2>2, <1>1, ViewOfDocument, DueResolves, StatNames DEF Local
    <2>q. QED BY <2>1, <2>3, SeesServer DEF Record
<1>2. ASSUME NEW r \in Players, ~Resolving(r)'
      PROVE  /\ \A f \in KeyFields : Local(r, f)' = server'[f]
             /\ \A f \in StatFields : Record(r, f)' = server'[f] + 0
    <2>1. ~Written(r)'
        BY <1>2, ResolvingParts
    <2>q. QED BY <2>1, <1>2, WillSeeServer, RestSeesServer DEF Record
<1>q. QED BY <1>1, <1>2

\* A resolution begins while nobody is in one.
LEMMA BeginIsSteady ==
    ASSUME \A p \in Players : Unseen(p) /\ ~Resolving(p)
    PROVE  Steady
<1>1. PICK p \in Players : Witness' = p
    BY WitnessIsPlayer
<1>2. /\ \A f \in KeyFields : Local(p, f) = Local(Witness, f)
      /\ \A f \in StatFields : Record(p, f) = Record(Witness, f)
    BY WitnessIsPlayer, RestsAlike
<1>3. Unseen(p)
    OBVIOUS
<1>q. QED BY <1>1, <1>2, <1>3 DEF Steady, Unseen

\* The answers of p that were there before the step are as fresh as before.
LEMMA StillCurrent ==
    ASSUME NEW p \in Players, Current(p), \A f \in KeyFields : Local(p, f)' = Local(p, f),
           \A i \in 1..Len(inbox'[p]) : \/ inbox'[p][i].kind # "engine"
                                        \/ \E j \in 1..Len(inbox[p]) : inbox'[p][i] = inbox[p][j]
    PROVE  Current(p)'
<1>1. \A f \in ScoreFields : Local(p, f)' = Local(p, f)
    BY DEF KeyFields
<1>q. QED BY <1>1 DEF Current

LEMMA SameDueUnseen ==
    ASSUME NEW p \in Players, inbox'[p] = inbox[p],
           \A k \in Kinds \ {"fight"} : asked'[p][k] = asked[p][k],
           \A f \in KeyFields \cup StatFields : Local(p, f)' = Local(p, f)
    PROVE  Unseen(p) /\ (Current(p) => Current(p)')
<1>1. \A f \in StatFields : Due(p, f)' <=> Due(p, f)
    BY SameDue, StatNames
<1>2. \A f \in StatFields : Record(p, f)' = Record(p, f)
    BY <1>1 DEF Record
<1>3. Current(p) => Current(p)'
    BY StillCurrent
<1>q. QED BY <1>2, <1>3 DEF Unseen

LEMMA RoundsPlayer ==
    ASSUME RoundInv, ~disturbed', NEW p \in Players, PlayerStep(p)
    PROVE  Steady /\ UNCHANGED <<disturbed, unrecorded>> /\ FreshScores'
<1>1. /\ UNCHANGED <<inbox, disturbed, unrecorded>>
      /\ \A q \in Players : Resolving(q)' <=> Resolving(q)
      /\ \A q \in Players : \A k \in Kinds \ {"fight"} : asked'[q][k] = asked[q][k]
    BY PlayerSteps DEF history, RoundInv
<1>2. \A q \in Players : \A f \in KeyFields \cup StatFields : Local(q, f)' = Local(q, f)
    BY PlayerSteps, StatNames, KeysAreRoom DEF RoundInv
<1>3. \A q \in Players : Unseen(q) /\ Current(q)'
    BY <1>1, <1>2, SameDueUnseen DEF RoundInv, FreshScores
<1>q. QED BY <1>1, <1>3, CalmIsSteady DEF FreshScores

LEMMA RoundsScreen ==
    ASSUME RoundInv, ~disturbed', UNCHANGED <<server, pend, inbox, asked, disturbed>>
    PROVE  Steady /\ FreshScores'
<1>1. \A q \in Players : Resolving(q)' <=> Resolving(q)
    BY DEF Resolving, Resolves
<1>2. \A q \in Players : \A f : Local(q, f)' = Local(q, f)
    BY NothingSeen
<1>3. \A q \in Players : Unseen(q) /\ Current(q)'
    BY <1>2, SameDueUnseen DEF RoundInv, FreshScores
<1>q. QED BY <1>1, <1>3, CalmIsSteady DEF FreshScores

LEMMA RoundsApply ==
    ASSUME RoundInv, ~disturbed', NEW p \in Players, ApplyWrite(p)
    PROVE  Steady /\ UNCHANGED <<disturbed, unrecorded>> /\ FreshScores'
<1> DEFINE w == Head(pend[p])
           other == Opponent(p)
<1>0. Types /\ OneAtATime /\ FreshScores
    BY DEF RoundInv
<1>1. /\ pend[p] \in Seq(Writes) /\ pend[p] # <<>>
      /\ \A f \in Fields : Settled(pend[p], f)
      /\ server' = After(server, w) /\ pend'[p] = Tail(pend[p]) /\ pend'[other] = pend[other]
      /\ UNCHANGED <<inbox, asked, unrecorded>> /\ ~disturbed
    BY <1>0, FieldNames DEF ApplyWrite, Types, Queue, history
<1>2. Alone /\ Alone' /\ \A q \in Players : Current(q)
    BY <1>0, <1>1, SerialApply DEF OneAtATime, FreshScores
<1>3. /\ other \in Players /\ other # p /\ \A q \in Players : q = p \/ q = other
    BY DEF Players, Opponent
<1>4. /\ Len(pend[p]) \in Nat \ {0} /\ w = pend[p][1] /\ Len(Tail(pend[p])) = Len(pend[p]) - 1
      /\ \A i \in 1..Len(Tail(pend[p])) : i + 1 \in 1..Len(pend[p]) /\ Tail(pend[p])[i] = pend[p][i + 1]
    BY <1>1
<1>5. \A f \in KeyFields \cup StatFields : Local(p, f)' = Local(p, f)
    BY <1>1, AppliedSeenAsBefore, KeysAreRoom, StatNames DEF Local
<1>6. \A q \in Players : (Held(q)' <=> Held(q)) /\ (Wanted(q)' <=> Wanted(q))
    BY <1>1, SameInboxes, SameReads
<1>7. (Written(other)' <=> Written(other)) /\ (Written(p)' => Written(p))
    BY <1>1, <1>4 DEF Written
<1> HIDE DEF other, w
<1>8. (Resolving(other)' <=> Resolving(other)) /\ (Resolving(p)' => Resolving(p))
    BY <1>3, <1>6, <1>7, ResolvingParts
<1>9. Unseen(p) /\ Current(p)'
    BY <1>1, <1>2, <1>5, SameDueUnseen
<1>10. CASE ~Resolving(p)
    <2>1. DOMAIN w \subseteq InputFields
        BY <1>10, <1>4, ResolvingParts DEF Written
    <2>2. \A f \in KeyFields \cup StatFields : f \in Fields /\ f \notin DOMAIN w
        BY <2>1, KeysAreRoom, StatNames
    <2>3. \A f \in KeyFields \cup StatFields : server'[f] = server[f]
        BY <2>2, <1>1 DEF After
    <2>4. \A f \in KeyFields \cup StatFields : Local(other, f)' = Local(other, f)
        BY <2>3, <1>1 DEF Local, View
    <2>5. Unseen(other) /\ Current(other)'
        BY <2>4, <1>1, <1>2, <1>3, SameDueUnseen
    <2>6. \A q \in Players : Unseen(q) /\ Current(q)' /\ (Resolving(q)' <=> Resolving(q))
        BY <2>5, <1>3, <1>8, <1>9, <1>10
    <2>q. QED BY <2>6, <1>1, CalmIsSteady DEF FreshScores, ApplyWrite, history
<1>11. CASE Resolving(p)
    <2>1. ~Resolving(other) /\ ~Resolving(other)' /\ Witness = p
        BY <1>2, <1>3, <1>8, <1>11, WitnessIsPlayer DEF Alone
    <2>2. Current(other)'
        <3>1. \A i \in 1..Len(inbox'[other]) : inbox'[other][i].kind # "engine"
            BY <2>1, <1>1, <1>3, ResolvingParts DEF Held
        <3>q. QED BY <3>1 DEF Current
    <2>3. CASE Resolving(p)'
        <3>1. Witness' = p
            BY <2>3, <1>2, WitnessIsPlayer
        <3>q. QED BY <3>1, <2>1, <2>2, <1>1, <1>3, <1>9 DEF Steady, Unseen, FreshScores, ApplyWrite, history
    <2>4. CASE ~Resolving(p)'
        <3>1. PICK q \in Players : Witness' = q
            BY WitnessIsPlayer
        <3>2. ~Resolving(q)'
            BY <2>1, <2>4, <1>3
        <3>3. /\ \A f \in KeyFields : Local(q, f)' = Local(p, f)'
              /\ \A f \in StatFields : Record(q, f)' = Record(p, f)'
            BY <3>2, <2>4, RestsAlike
        <3>4. Steady
            BY <3>1, <3>3, <2>1, <1>9 DEF Steady, Unseen
        <3>q. QED BY <3>4, <2>2, <1>1, <1>3, <1>9 DEF FreshScores, ApplyWrite, history
    <2>q. QED BY <2>3, <2>4
<1>q. QED BY <1>10, <1>11

LEMMA RoundsServe ==
    ASSUME RoundInv, ~disturbed', NEW p \in Players, NEW k \in Kinds, NEW data,
           Answer(p, k, data), [kind |-> k, data |-> data] \in Answers
    PROVE  Steady /\ UNCHANGED <<disturbed, unrecorded>> /\ FreshScores'
<1> DEFINE a == [kind |-> k, data |-> data]
           other == Opponent(p)
<1>0. Types /\ OneAtATime /\ OneDecision /\ FreshScores
    BY DEF RoundInv
<1>1. /\ asked[p][k] \in Nat \ {0}
      /\ inbox' = [inbox EXCEPT ![p] = Append(@, a)] /\ a \in Answers
      /\ UNCHANGED <<server, pend, unrecorded>>
      /\ inbox'[other] = inbox[other] /\ asked'[other] = asked[other]
      /\ \A l \in Kinds : asked'[p][l] = IF l = k THEN asked[p][l] - 1 ELSE asked[p][l]
    BY <1>0, FieldNames DEF Answer, Types
<1>2. /\ ~disturbed /\ disturbed' = disturbed
      /\ k = "fight" /\ Resolves(p, data) => \A q \in Players : ~Resolving(q)
      /\ k # "fight" => \A f \in FieldsRead(k) : data[f] = Local(p, f)
    <2>1. disturbed \in BOOLEAN /\ disturbed' \in BOOLEAN
        BY <1>0, Zenon DEF Types, Answer
    <2>q. QED BY <2>1, AnswerUndisturbed
<1>3. a.kind = k /\ a.data = data /\ (k = "engine" => \A f \in ScoreFields : a.data[f] = Local(p, f))
    BY <1>2 DEF FieldsRead
<1>4. other \in Players /\ other # p /\ \A q \in Players : q = p \/ q = other
    BY DEF Players, Opponent
<1>5. Alone /\ Staged(p) /\ \A q \in Players : Current(q)
    BY <1>0, <1>2 DEF OneAtATime, OneDecision, FreshScores
<1>6. \A q \in Players : \A f : Local(q, f)' = Local(q, f)
    BY <1>1, NothingSeen
<1> HIDE DEF a, other
<1>7. Counts(p, a) <=> (k = "fight" => Resolves(p, data))
    BY <1>3 DEF Counts
<1>8. Counts(p, a) => ~Has(p, a.kind)
    <2>1. CASE k = "fight"
        <3>1. Counts(p, a) => ~Due(p, k)
            BY <2>1, <1>2, <1>7, DueResolves
        <3>q. QED BY <3>1, <1>3 DEF Due
    <2>2. CASE k # "fight"
        BY <2>2, <1>1, <1>3, <1>5 DEF Staged, AskedOnce, Waits
    <2>q. QED BY <2>1, <2>2
<1>9. /\ \A l \in Kinds : Has(p, l)' <=> Has(p, l) \/ (Counts(p, a) /\ l = k)
      /\ \A i \in 1..Len(inbox'[p]) : inbox'[p][i] = a
           \/ \E j \in 1..Len(inbox[p]) : inbox'[p][i] = inbox[p][j]
    BY <1>0, <1>1, <1>3, <1>5, <1>8, RecordAdded DEF Staged
<1>10. \A l \in StatFields : Due(p, l)' <=> Due(p, l)
    <2> SUFFICES ASSUME NEW l \in StatFields PROVE Due(p, l)' <=> Due(p, l)
        OBVIOUS
    <2>1. l \in Kinds /\ l # "fight"
        BY StatNames
    <2>2. CASE l # k
        BY <2>1, <2>2, <1>1, <1>9 DEF Due, Waits
    <2>3. CASE l = k
        <3>1. Due(p, l)
            BY <2>1, <2>3, <1>1 DEF Due, Waits
        <3>2. Has(p, l)'
            BY <2>1, <2>3, <1>7, <1>9
        <3>q. QED BY <3>1, <3>2 DEF Due
    <2>q. QED BY <2>2, <2>3
<1>11. Unseen(p)
    <2>1. \A f \in StatFields : Record(p, f)' = Record(p, f)
        BY <1>6, <1>10 DEF Record
    <2>q. QED BY <2>1, <1>6 DEF Unseen
<1>12. Unseen(other) /\ Current(other)'
    BY <1>1, <1>4, <1>5, <1>6, SameDueUnseen
<1>13. Current(p)'
    <2> SUFFICES ASSUME NEW i \in 1..Len(inbox'[p]), inbox'[p][i].kind = "engine", NEW f \in ScoreFields
                 PROVE  inbox'[p][i].data[f] = Local(p, f)'
        BY DEF Current
    <2>1. inbox'[p][i].data[f] = Local(p, f)
        BY <1>3, <1>5, <1>9 DEF Current
    <2>q. QED BY <2>1, <1>6
<1>14. Steady
    <2>1. CASE k = "fight" /\ Resolves(p, data)
        BY <2>1, <1>2, <1>4, <1>11, <1>12, BeginIsSteady
    <2>2. CASE ~(k = "fight" /\ Resolves(p, data))
        <3>1. Resolving(other)' <=> Resolving(other)
            BY <1>1, <1>4 DEF Resolving, Resolves
        <3>2. CASE k = "fight"
            <4>1. Held(p)' <=> Held(p)
                BY <2>2, <3>2, <1>0, <1>1, <1>3, AnswerAdded
            <4>2. (Wanted(p)' <=> Wanted(p)) /\ (Written(p)' <=> Written(p))
                BY <3>2, <1>1, SameReads, NothingSeen
            <4>q. QED BY <4>1, <4>2, <3>1, <1>4, <1>11, <1>12, ResolvingParts, CalmIsSteady
        <3>3. CASE k # "fight"
            <4>1. Due(p, k) /\ Has(p, k)'
                BY <3>3, <1>1, <1>7, <1>9 DEF Due, Waits
            <4>2. Resolving(p) /\ Resolving(p)'
                BY <4>1, DueResolves DEF Due
            <4>q. QED BY <4>2, <3>1, <1>4, <1>11, <1>12, CalmIsSteady
        <3>q. QED BY <3>2, <3>3
    <2>q. QED BY <2>1, <2>2
<1>q. QED BY <1>1, <1>2, <1>4, <1>12, <1>13, <1>14 DEF FreshScores

\* The number of a record is one less, since it was owed and now is lost.
Loses(f, k) == IF f = k THEN 1 ELSE 0

LEMMA RoundsFails ==
    ASSUME RoundInv, ~disturbed', NEW p \in Players, NEW k \in Kinds, ReadFails(p, k)
    PROVE  /\ FreshScores' /\ ~disturbed /\ disturbed' = disturbed
           /\ SteadyScores
           /\ \A f \in StatFields : /\ Record(Witness, f) \in Nat
                                    /\ Record(Witness, f)' = Record(Witness, f) - Loses(f, k)
                                    /\ f = k => Record(Witness, f) > 0
<1> DEFINE other == Opponent(p)
<1>0. Types /\ OneAtATime /\ OneDecision /\ FreshScores
    BY DEF RoundInv
<1>1. /\ UNCHANGED <<server, pend, inbox, disturbed>> /\ ~disturbed
      /\ asked[p][k] \in Nat \ {0} /\ asked'[other] = asked[other]
      /\ \A l \in Kinds : asked'[p][l] = IF l = k THEN asked[p][l] - 1 ELSE asked[p][l]
      /\ \A q \in Players : \A f : Local(q, f)' = Local(q, f)
      /\ Resolving(other)' <=> Resolving(other)
      /\ k = "fight" => (Resolving(p)' <=> Resolving(p))
      /\ k # "fight" => Resolving(p)
    BY <1>0, ReadLost
<1>2. Alone /\ Alone' /\ Staged(p) /\ \A q \in Players : Current(q)
    BY <1>0, <1>1, SerialFails DEF OneAtATime, OneDecision, FreshScores
<1>3. other \in Players /\ other # p /\ \A q \in Players : q = p \/ q = other
    BY DEF Players, Opponent
<1>4. FreshScores'
    BY <1>1, <1>2, StillCurrent DEF FreshScores
<1>5. ASSUME NEW q \in Players, NEW f \in StatFields PROVE Record(q, f) \in Nat
    <2>1. Local(q, f) \in Nat
        BY <1>0, LocalType, FieldKinds, StatNames
    <2>q. QED BY <2>1 DEF Record
<1>6. CASE k = "fight"
    <2>1. \A q \in Players : \A l \in Kinds \ {"fight"} :
              inbox'[q] = inbox[q] /\ asked'[q][l] = asked[q][l]
        BY <1>1, <1>3, <1>6
    <2>2. \A q \in Players : Unseen(q) /\ (Resolving(q)' <=> Resolving(q))
        BY <2>1, <1>1, <1>3, <1>6, SameDueUnseen
    <2>3. Steady
        BY <2>2, CalmIsSteady
    <2>4. \A f \in StatFields : Record(Witness, f) \in Nat
        BY <1>5, WitnessIsPlayer
    <2>5. \A f \in StatFields : Loses(f, k) = 0 /\ f # k
        BY <1>6, StatNames DEF Loses
    <2>q. QED BY <2>3, <2>4, <2>5, <1>1, <1>4 DEF Steady, SteadyScores
<1>7. CASE k # "fight"
    <2>1. /\ Resolving(p) /\ ~Resolving(other) /\ ~Resolving(other)' /\ Witness = p
          /\ asked[p][k] = 1 /\ ~Has(p, k) /\ Due(p, k)
        <3>1. Resolving(p) /\ Waits(p, k)
            BY <1>1, <1>7 DEF Waits
        <3>q. QED BY <3>1, <1>1, <1>2, <1>3, WitnessIsPlayer DEF Alone, Staged, AskedOnce, Due
    <2>2. \A l \in Kinds : Has(p, l)' <=> Has(p, l)
        BY <1>1 DEF Has, Counts, Resolves
    <2>3. \A l \in Kinds : Waits(p, l)' <=> Waits(p, l) /\ l # k
        BY <2>1, <1>1 DEF Waits
    <2>4. \A l \in Kinds : Due(p, l)' <=> Due(p, l) /\ l # k
        BY <2>1, <2>2, <2>3 DEF Due
    <2>5. ASSUME NEW f \in StatFields
          PROVE  /\ Record(p, f)' = Record(p, f) - Loses(f, k)
                 /\ f = k => Record(p, f) > 0
        <3>1. Local(p, f) \in Nat /\ Local(p, f)' = Local(p, f) /\ f \in Kinds
            BY <1>0, <1>1, LocalType, FieldKinds, StatNames
        <3>2. CASE f = k
            BY <3>1, <3>2, <2>1, <2>4 DEF Record, Loses
        <3>3. CASE f # k
            <4>1. Record(p, f)' = Record(p, f)
                BY <3>1, <3>3, <2>4 DEF Record
            <4>2. Record(p, f) - 0 = Record(p, f)
                BY <1>5
            <4>q. QED BY <4>1, <4>2, <3>3 DEF Loses
        <3>q. QED BY <3>2, <3>3
    <2>6. PICK q \in Players : Witness' = q
        BY WitnessIsPlayer
    <2>7. /\ \A f \in KeyFields : Local(q, f)' = Local(p, f)'
          /\ \A f \in StatFields : Record(q, f)' = Record(p, f)'
        <3>1. CASE Resolving(p)'
            BY <3>1, <2>6, <1>2, WitnessIsPlayer
        <3>2. CASE ~Resolving(p)'
            <4>1. ~Resolving(q)'
                BY <3>2, <2>1, <1>3
            <4>q. QED BY <4>1, <3>2, RestsAlike
        <3>q. QED BY <3>1, <3>2
    <2>8. SteadyScores
        BY <2>1, <2>6, <2>7, <1>1 DEF SteadyScores
    <2>9. \A f \in StatFields : Record(Witness, f)' = Record(Witness, f) - Loses(f, k)
        BY <2>1, <2>5, <2>6, <2>7
    <2>q. QED BY <2>1, <2>5, <2>8, <2>9, <1>1, <1>4, <1>5
<1>q. QED BY <1>6, <1>7

\* A read that ends with an error: of a record, it is a win or loss missed;
\* otherwise it shows nothing.
LEMMA FailIsMiss ==
    ASSUME RoundInv, ~disturbed', NEW p \in Players, NEW k \in Kinds, ReadFails(p, k)
    PROVE  [Rounds!Next]_(Rounds!vars) /\ FreshScores'
<1>1. /\ FreshScores' /\ ~disturbed /\ disturbed' = disturbed
      /\ SteadyScores
      /\ \A f \in StatFields : /\ Record(Witness, f) \in Nat
                               /\ Record(Witness, f)' = Record(Witness, f) - Loses(f, k)
                               /\ f = k => Record(Witness, f) > 0
    BY RoundsFails
<1>2. /\ unrecorded \in [StatFields -> Nat] /\ unrecorded' \in [StatFields -> Nat]
      /\ \A f \in StatFields : unrecorded'[f] = unrecorded[f] + Loses(f, k)
    BY DEF ReadFails, RoundInv, Types, Loses
<1>3. /\ ScoresSeen[Witness]' = ScoresSeen[Witness]
      /\ RoundsSeen[Witness]' = RoundsSeen[Witness]
      /\ WinnerSeen[Witness]' = WinnerSeen[Witness]
    BY <1>1, ScoresStutter
<1> DEFINE missedWins == [q \in Players |-> unrecorded[WinsField(q)]]
           missedLosses == [q \in Players |-> unrecorded[LossesField(q)]]
<1>4. CASE k \notin StatFields
    <2>1. \A f \in StatFields : Loses(f, k) = 0
        BY <1>4 DEF Loses
    <2>2. \A f \in StatFields : Record(Witness, f)' = Record(Witness, f)
        BY <2>1, <1>1
    <2>3. \A f \in StatFields : unrecorded'[f] = unrecorded[f]
        BY <2>1, <1>2
    <2>4. unrecorded' = unrecorded
        BY <2>3, <1>2
    <2>q. QED BY <2>2, <2>4, <1>1, SteadyStutters DEF Steady, SteadyScores
<1>5. ASSUME NEW q \in Players, k = WinsField(q)
      PROVE  Rounds!MissWin(q)
    <2>1. \A r \in Players : /\ Loses(WinsField(r), k) = IF r = q THEN 1 ELSE 0
                             /\ Loses(LossesField(r), k) = 0
        BY <1>5 DEF Loses, WinsField, LossesField, Players
    <2>6. \A r \in Players : /\ unrecorded'[WinsField(r)] = IF r = q THEN unrecorded[WinsField(r)] + 1
                                                                ELSE unrecorded[WinsField(r)]
                             /\ unrecorded'[LossesField(r)] = unrecorded[LossesField(r)]
        BY <2>1, <1>2, SeenFields
    <2>7. missedWins' = [missedWins EXCEPT ![q] = @ + 1]
        BY <2>6, <1>5
    <2>8. missedLosses' = missedLosses
        BY <2>6
    <2>2. missedWins' = [missedWins EXCEPT ![q] = @ + 1] /\ missedLosses' = missedLosses
        BY <2>7, <2>8
    <2>3. WinsSeen[Witness]' = [WinsSeen[Witness] EXCEPT ![q] = @ - 1]
        BY <2>1, <1>1, SeenFields, SeenByWitness
    <2>4. LossesSeen[Witness]' = LossesSeen[Witness]
        BY <2>1, <1>1, SeenFields, SeenByWitness
    <2>5. WinsSeen[Witness][q] > 0
        BY <1>1, <1>5, SeenFields, SeenByWitness
    <2>q. QED BY <2>2, <2>3, <2>4, <2>5, <1>3 DEF Rounds!MissWin
<1>6. ASSUME NEW q \in Players, k = LossesField(q)
      PROVE  Rounds!MissLoss(q)
    <2>1. \A r \in Players : /\ Loses(LossesField(r), k) = IF r = q THEN 1 ELSE 0
                             /\ Loses(WinsField(r), k) = 0
        BY <1>6 DEF Loses, WinsField, LossesField, Players
    <2>6. \A r \in Players : /\ unrecorded'[LossesField(r)] = IF r = q THEN unrecorded[LossesField(r)] + 1
                                                                ELSE unrecorded[LossesField(r)]
                             /\ unrecorded'[WinsField(r)] = unrecorded[WinsField(r)]
        BY <2>1, <1>2, SeenFields
    <2>7. missedLosses' = [missedLosses EXCEPT ![q] = @ + 1]
        BY <2>6, <1>6
    <2>8. missedWins' = missedWins
        BY <2>6
    <2>2. missedLosses' = [missedLosses EXCEPT ![q] = @ + 1] /\ missedWins' = missedWins
        BY <2>7, <2>8
    <2>3. LossesSeen[Witness]' = [LossesSeen[Witness] EXCEPT ![q] = @ - 1]
        BY <2>1, <1>1, SeenFields, SeenByWitness
    <2>4. WinsSeen[Witness]' = WinsSeen[Witness]
        BY <2>1, <1>1, SeenFields, SeenByWitness
    <2>5. LossesSeen[Witness][q] > 0
        BY <1>1, <1>6, SeenFields, SeenByWitness
    <2>q. QED BY <2>2, <2>3, <2>4, <2>5, <1>3 DEF Rounds!MissLoss
<1>7. k \in StatFields => \E q \in Players : k = WinsField(q) \/ k = LossesField(q)
    BY StatNames DEF WinsField, LossesField, Players
<1>q. QED BY <1>1, <1>4, <1>5, <1>6, <1>7 DEF Rounds!Next, Rounds!Undisturbed, Rounds!Players, Players

\* A callback that shows nobody other scores or records and leaves its player in,
\* or out of, a resolution.
LEMMA RoundsCallback ==
    ASSUME RoundInv, ~disturbed', NEW p \in Players, NEW kinds, Callback(p, kinds),
           UNCHANGED <<server, disturbed>>,
           NEW more, Queue(more), pend' = [pend EXCEPT ![p] = @ \o more],
           \A f \in KeyFields : Own(more, f) = {},
           \A f \in StatFields : Record(p, f)' = Record(p, f),
           asked'[Opponent(p)] = asked[Opponent(p)],
           Resolving(p)' <=> Resolving(p)
    PROVE  Steady /\ FreshScores'
<1> DEFINE other == Opponent(p)
<1>0. Types /\ OneDecision /\ ~disturbed /\ \A q \in Players : Current(q)
    BY DEF RoundInv, FreshScores
<1>1. /\ other \in Players /\ other # p /\ inbox'[other] = inbox[other]
      /\ \A q \in Players : q = p \/ q = other
    BY <1>0, OpponentWaits
<1>2. \A i \in 1..Len(inbox'[p]) : \E j \in 1..Len(inbox[p]) : inbox'[p][i] = inbox[p][j]
    BY <1>0, RecordTaken DEF OneDecision, Staged
<1>3. \A f \in KeyFields : Local(p, f)' = Local(p, f)
    BY <1>0, OthersSeen, KeysAreRoom
<1>4. Unseen(p) /\ Current(p)'
    BY <1>0, <1>2, <1>3, StillCurrent DEF Unseen
<1>5. pend'[other] = pend[other]
    BY <1>0, <1>1 DEF Types
<1>6. \A f : Local(other, f)' = Local(other, f)
    BY <1>5 DEF Local
<1>7. Resolving(other)' <=> Resolving(other)
    BY <1>1, <1>5 DEF Resolving, Resolves
<1> HIDE DEF other
<1>8. Unseen(other) /\ Current(other)'
    BY <1>0, <1>1, <1>6, SameDueUnseen DEF other
<1>9. \A q \in Players : Unseen(q) /\ Current(q)' /\ (Resolving(q)' <=> Resolving(q))
    BY <1>1, <1>4, <1>7, <1>8
<1>q. QED BY <1>9, CalmIsSteady DEF FreshScores

LEMMA RoundsFight ==
    ASSUME RoundInv, ~disturbed', NEW p \in Players, FightCallback(p)
    PROVE  Steady /\ UNCHANGED <<disturbed, unrecorded>> /\ FreshScores'
<1> DEFINE theirs == Head(inbox[p]).data[InputField(Opponent(p))]
           a == Head(inbox[p])
           other == Opponent(p)
<1>0. Types /\ OneAtATime /\ OneDecision
    BY DEF RoundInv
<1>1. /\ Callback(p, {"fight"}) /\ a.kind = "fight"
      /\ UNCHANGED <<server, disturbed, unrecorded>> /\ ~disturbed
    BY DEF FightCallback, Callback, history
<1>2. Staged(p)
    BY <1>0, <1>1 DEF OneDecision
<1>3. /\ other \in Players /\ other # p
      /\ \A q \in Players : q = p \/ q = other
    BY DEF Players, Opponent
<1>4. /\ \A k \in StatFields : Has(p, k)' <=> Has(p, k)
      /\ Counts(p, a) => Has(p, "fight")
    BY <1>0, <1>1, <1>2, RecordTaken, StatNames DEF Staged
<1>5. Counts(p, a) <=> theirs \in Fighters
    BY <1>1 DEF Counts, Resolves
<1>6. ~Counts(p, a) => (Held(p)' <=> Held(p))
    BY <1>0, <1>1, AnswerTaken DEF Counts
<1> HIDE DEF theirs, a, other
<1>7. ASSUME NEW more, Queue(more), pend' = [pend EXCEPT ![p] = @ \o more],
             \A i \in 1..Len(more) : DOMAIN more[i] \subseteq InputFields \cup SelectionFields,
             \A k \in StatFields : asked'[p][k] = asked[p][k],
             asked'[other] = asked[other], Resolving(p)' <=> Resolving(p)
      PROVE  Steady /\ FreshScores'
    <2>1. \A f \in KeyFields \cup StatFields : Own(more, f) = {}
        BY <1>7, KeysAreRoom, StatNames DEF Own
    <2>2. \A f \in StatFields : Due(p, f)' <=> Due(p, f)
        BY <1>4, <1>7 DEF Due, Waits
    <2>3. \A f \in StatFields : Local(p, f)' = Local(p, f)
        BY <2>1, <1>0, <1>1, <1>7, RecordsSeen
    <2>4. \A f \in StatFields : Record(p, f)' = Record(p, f)
        BY <2>2, <2>3 DEF Record
    <2>q. QED BY <2>1, <2>4, <1>1, <1>7, RoundsCallback DEF other
<1>8. CASE theirs = "Empty" /\ Submit(p)
    <2> DEFINE more == <<Write(InputField(p), selection[p][p])>>
    <2>1. Queue(more) /\ pend' = [pend EXCEPT ![p] = @ \o more] /\ UNCHANGED asked
        <3>1. selection[p][p] \in Fighters
            BY <1>0 DEF Types
        <3>2. Write(InputField(p), selection[p][p]) \in Writes
            BY <3>1, <1>0, ResolutionWrites
        <3>q. QED BY <3>2, <1>8, FewAreQueues DEF Submit
    <2>2. \A i \in 1..Len(more) : DOMAIN more[i] \subseteq InputFields
        BY FieldNames DEF Write
    <2>3. ~Counts(p, a)
        BY <1>5, <1>8 DEF Fighters
    <2> HIDE DEF more
    <2>4. Written(p)' <=> Written(p)
        BY <2>1, <2>2, <1>0, WrittenGrows
    <2>5. Resolving(p)' <=> Resolving(p)
        BY <2>1, <2>3, <2>4, <1>6, SameReads, ResolvingParts
    <2>6. \A i \in 1..Len(more) : DOMAIN more[i] \subseteq InputFields \cup SelectionFields
        BY <2>2
    <2>q. QED BY <2>1, <2>5, <2>6, <1>1, <1>7
<1>9. CASE theirs = "absent" /\ FightTraps(p)
    <2>1. UNCHANGED <<server, pend, asked>> /\ ~Counts(p, a)
        BY <1>1, <1>5, <1>9 DEF FightTraps, Fighters
    <2>2. Resolving(p)' <=> Resolving(p)
        BY <2>1, <1>6, SameReads, NothingSeen, ResolvingParts
    <2>3. pend' = [pend EXCEPT ![p] = @ \o <<>>]
        <3>1. pend[p] \in Seq(Writes) /\ pend = [q \in Players |-> pend[q]]
            BY <1>0 DEF Types, Queue
        <3>2. pend[p] \o <<>> = pend[p]
            BY <3>1
        <3>q. QED BY <3>1, <3>2, <2>1
    <2>4. Queue(<<>>) /\ \A i \in 1..Len(<<>>) : DOMAIN <<>>[i] \subseteq InputFields \cup SelectionFields
        <3>1. \A f \in Fields : Settled(<<>>, f)
            BY FewAreSettled
        <3>2. <<>> \in Seq(Writes) /\ 1..Len(<<>>) = {}
            OBVIOUS
        <3>q. QED BY <3>1, <3>2 DEF Queue
    <2>q. QED BY <2>1, <2>2, <2>3, <2>4, <1>1, <1>7
<1>10. CASE theirs \in Fighters /\ Resolve(p, theirs)
    <2> DEFINE more == << Write(SelectionField(p), selection[p][p]),
                          Write(SelectionField(Opponent(p)), theirs),
                          Write("hostInputCheck", "Empty"), Write("guestInputCheck", "Empty") >>
    <2>1. Queue(more) /\ pend' = [pend EXCEPT ![p] = @ \o more] /\ Ask(p, {"engine"})
        BY <1>0, <1>10, ResolutionWrites, FewAreQueues DEF Resolve
    <2>2. \A i \in 1..Len(more) : DOMAIN more[i] \subseteq InputFields \cup SelectionFields
        <3>1. /\ SelectionField(p) \in SelectionFields /\ SelectionField(Opponent(p)) \in SelectionFields
              /\ "hostInputCheck" \in InputFields /\ "guestInputCheck" \in InputFields
            BY DEF InputFields, SelectionField, SelectionFields
        <3>q. QED BY <3>1 DEF Write
    <2> HIDE DEF more
    <2>3. /\ asked'[other] = asked[other]
          /\ \A k \in StatFields : asked'[p][k] = asked[p][k]
        BY <2>1, <1>0, <1>3, StatNames DEF Ask, Types
    <2>4. Resolving(p) /\ Resolving(p)'
        <3>1. Wanted(p)'
            BY <2>1, <1>0, AskedReads DEF Kinds
        <3>2. Due(p, "fight")
            BY <1>4, <1>5, <1>10 DEF Due
        <3>q. QED BY <3>1, <3>2, DueResolves, ResolvingParts, StatNames
    <2>q. QED BY <2>1, <2>2, <2>3, <2>4, <1>1, <1>7
<1>q. QED BY <1>1, <1>8, <1>9, <1>10 DEF FightCallback, theirs

\* The record that is written is no longer owed.
LEMMA RoundsStat ==
    ASSUME RoundInv, ~disturbed', NEW p \in Players, StatCallback(p)
    PROVE  Steady /\ UNCHANGED <<disturbed, unrecorded>> /\ FreshScores'
<1> DEFINE a == Head(inbox[p])
<1>0. Types /\ OneAtATime /\ OneDecision
    BY DEF RoundInv
<1>1. PICK f \in StatFields :
         /\ f = a.kind /\ Callback(p, StatFields)
         /\ pend' = [pend EXCEPT ![p] = @ \o <<Write(f, a.data[f] + 1)>>]
         /\ UNCHANGED <<server, disturbed, asked, unrecorded>> /\ ~disturbed
    BY DEF StatCallback, Callback, history
<1>2. Staged(p) /\ FreshRecords(p)
    BY <1>0, <1>1 DEF OneDecision
<1>3. a = inbox[p][1] /\ 1 \in 1..Len(inbox[p])
    BY <1>0, <1>1, AnswerTaken
<1>4. Counts(p, a)
    BY <1>1, StatNames DEF Counts
<1>5. /\ \A k \in Kinds : k # f => (Has(p, k)' <=> Has(p, k))
      /\ Has(p, f) /\ ~Has(p, f)'
    BY <1>0, <1>1, <1>2, <1>4, RecordTaken, StatNames DEF Staged
<1>6. a.data[f] = Local(p, f)
    BY <1>1, <1>2, <1>3 DEF FreshRecords
<1> HIDE DEF a
<1>7. Local(p, f) \in Nat /\ f \in Fields /\ f \in Kinds /\ f # "fight"
    BY <1>0, LocalType, FieldKinds, StatNames
<1> DEFINE w == Write(f, Local(p, f) + 1)
           more == <<w>>
<1>8. w \in Writes /\ DOMAIN w = {f} /\ w[f] = Local(p, f) + 1
    <2>1. FieldType(f) = Nat
        BY FieldKinds
    <2>2. Local(p, f) + 1 \in Nat
        BY <1>7
    <2>q. QED BY <2>1, <2>2, <1>7, SingleWrite
<1>9. Queue(more) /\ pend' = [pend EXCEPT ![p] = @ \o more] /\ more \in Seq(Writes)
    <2>1. Write(f, a.data[f] + 1) = w
        BY <1>6
    <2>2. pend' = [pend EXCEPT ![p] = @ \o more]
        BY <2>1, <1>1
    <2> HIDE DEF w
    <2>3. Queue(more)
        BY <1>8, FewAreQueues
    <2>q. QED BY <2>2, <2>3 DEF Queue
<1> HIDE DEF w
<1>10. /\ Newest(more, f, 1) /\ more[1] = w /\ \A g : g # f => Own(more, g) = {}
    BY <1>8 DEF Newest, Own
<1>11. ~(DOMAIN more[1] \subseteq InputFields) /\ 1 \in 1..Len(more)
    BY <1>8, StatNames
<1> HIDE DEF more
<1>12. Local(p, f)' = Local(p, f) + 1
    <2>1. pend[p] \in Seq(Writes) /\ pend'[p] = pend[p] \o more
        BY <1>0, <1>9 DEF Types, Queue
    <2>2. View(server, pend[p] \o more, f) = more[1][f]
        BY <2>1, <1>9, <1>10, NewerReplace
    <2>q. QED BY <2>1, <2>2, <1>1, <1>8, <1>10 DEF Local
<1>13. \A g \in StatFields : g # f => Local(p, g)' = Local(p, g)
    BY <1>0, <1>1, <1>9, <1>10, OthersSeen, StatNames
<1>14. \A k \in Kinds : (Waits(p, k)' <=> Waits(p, k)) /\ ~Waits(p, f)
    BY <1>1, <1>2, <1>5, <1>7 DEF Waits, Staged, AskedOnce
<1>15. ~Due(p, f)' /\ Due(p, f) /\ \A k \in StatFields : k # f => (Due(p, k)' <=> Due(p, k))
    BY <1>5, <1>7, <1>14, StatNames DEF Due
<1>16. \A g \in StatFields : Record(p, g)' = Record(p, g)
    <2>1. Record(p, f)' = Record(p, f)
        BY <1>7, <1>12, <1>15 DEF Record
    <2>2. \A g \in StatFields : g # f => Record(p, g)' = Record(p, g)
        BY <1>13, <1>15 DEF Record
    <2>q. QED BY <2>1, <2>2
<1>17. Resolving(p) /\ Resolving(p)'
    BY <1>0, <1>7, <1>9, <1>11, <1>15, DueResolves, WrittenGrows, ResolvingParts
<1>18. \A g \in KeyFields : Own(more, g) = {}
    BY <1>10, StatNames
<1>q. QED BY <1>1, <1>9, <1>16, <1>17, <1>18, RoundsCallback

\* What is seen of a point, or of a draw.
LEMMA RoundIsPointOrDraw ==
    ASSUME NEW data, \A f \in ScoreFields : data[f] \in Nat, NEW sel
    PROVE  LET s == NewScores(data, sel) IN
           \/ s.hostScore = data["hostScore"] /\ s.guestScore = data["guestScore"]
              /\ s.roundNumber = data["roundNumber"]
           \/ s.hostScore = data["hostScore"] + 1 /\ s.guestScore = data["guestScore"]
              /\ s.roundNumber = data["roundNumber"] + 1
           \/ s.hostScore = data["hostScore"] /\ s.guestScore = data["guestScore"] + 1
              /\ s.roundNumber = data["roundNumber"] + 1
<1>1. data["hostScore"] \in Nat /\ data["guestScore"] \in Nat /\ data["roundNumber"] \in Nat
    BY DEF ScoreFields
<1>2. CASE Outcome_MP(sel["host"], sel["guest"]) = "first"
    BY <1>1, <1>2 DEF NewScores
<1>3. CASE Outcome_MP(sel["host"], sel["guest"]) = "second"
    BY <1>1, <1>3 DEF NewScores
<1>4. CASE Outcome_MP(sel["host"], sel["guest"]) = "draw"
    BY <1>1, <1>4 DEF NewScores
<1>q. QED BY <1>2, <1>3, <1>4 DEF Outcome_MP, Verdict

\* The win and the loss of a decision are of nobody else's fields.
LEMMA OwedFields ==
    ASSUME NEW l \in Players, NEW q \in Players
    PROVE  LET owed == {WinsField(l), LossesField(Opponent(l))} IN
           /\ WinsField(q) \in owed <=> q = l
           /\ LossesField(q) \in owed <=> q = Opponent(l)
           /\ Opponent(l) = Rounds!Other(l)
BY DEF WinsField, LossesField, Opponent, Players, Rounds!Other

LEMMA LeaderDecides ==
    ASSUME NEW s, s.hostScore \in Nat, s.guestScore \in Nat, s.roundNumber \in Nat,
           NEW score, score = [q \in Players |-> IF q = "host" THEN s.hostScore ELSE s.guestScore]
    PROVE  /\ Leader(s) \in Players
           /\ MatchOver(s) => Rounds!Decides(Leader(s), score, s.roundNumber)
           /\ ~MatchOver(s) => \A q \in Players : ~Rounds!Decides(q, score, s.roundNumber)
<1>1. score["host"] = s.hostScore /\ score["guest"] = s.guestScore
    BY DEF Players
<1>2. Leader(s) \in Players
    BY DEF Leader, Players
<1>3. MatchOver(s) => Rounds!Decides(Leader(s), score, s.roundNumber)
    BY <1>1 DEF MatchOver, Rounds!Decides, Rounds!Other, Leader
<1>4. ASSUME ~MatchOver(s), NEW q \in Players PROVE ~Rounds!Decides(q, score, s.roundNumber)
    BY <1>1, <1>4 DEF MatchOver, Rounds!Decides, Rounds!Other, Players
<1>q. QED BY <1>2, <1>3, <1>4

\* The callback that computes a round is the round.
LEMMA RoundsEngine ==
    ASSUME RoundInv, ~disturbed', NEW p \in Players, EngineCallback(p)
    PROVE  Rounds!Undisturbed /\ FreshScores'
<1> DEFINE s == NewRound(p)
           a == Head(inbox[p])
           other == Opponent(p)
           l == Leader(s)
           owed == IF MatchOver(s) THEN {WinsField(l), LossesField(Opponent(l))} ELSE {}
<1>0. Types /\ OneAtATime /\ OneDecision
    BY DEF RoundInv
<1>1. Callback(p, {"engine"}) /\ a.kind = "engine" /\ UNCHANGED <<server, disturbed, unrecorded>> /\ ~disturbed
    BY DEF EngineCallback, Callback
<1>2. Alone /\ Alone' /\ Staged(p) /\ \A q \in Players : Current(q)
    BY <1>0, <1>1, SerialEngine DEF OneAtATime, OneDecision, FreshScores, RoundInv
<1>3. /\ other \in Players /\ other # p /\ inbox'[other] = inbox[other]
      /\ \A q \in Players : q = p \/ q = other
    BY <1>0, <1>1, OpponentWaits
<1>4. /\ \A k \in Kinds : Has(p, k)' => Has(p, k)
      /\ Has(p, "engine") /\ ~Has(p, "engine")'
    BY <1>0, <1>1, <1>2, RecordTaken, StatNames DEF Staged, Counts
<1>5. a = inbox[p][1] /\ 1 \in 1..Len(inbox[p]) /\ a \in Answers
    BY <1>0, <1>1, AnswerTaken, CallbackType
<1>6. /\ \A f \in ScoreFields : a.data[f] = Local(p, f) /\ a.data[f] \in Nat
      /\ s = NewScores(a.data, selection[p])
    BY <1>1, <1>2, <1>5, AnswerHolds DEF Current, NewRound
<1> HIDE DEF s, a, other, l
<1>7. /\ Queue(RoundWrites(s)) /\ Queue(DecisionWrites(p, s))
      /\ MatchOver(s) =>
           /\ pend' = [pend EXCEPT ![p] = @ \o DecisionWrites(p, s)]
           /\ Ask(p, {WinsField(l), LossesField(Opponent(l))})
      /\ ~MatchOver(s) => pend' = [pend EXCEPT ![p] = @ \o RoundWrites(s)] /\ UNCHANGED asked
    BY <1>0, EngineWrites DEF s, l
<1>8. PICK more : /\ Queue(more) /\ pend' = [pend EXCEPT ![p] = @ \o more]
                  /\ more = IF MatchOver(s) THEN DecisionWrites(p, s) ELSE RoundWrites(s)
    BY <1>7
<1>9. /\ Newest(more, "hostScore", 1) /\ more[1]["hostScore"] = s.hostScore
      /\ Newest(more, "guestScore", 2) /\ more[2]["guestScore"] = s.guestScore
      /\ Newest(more, "roundNumber", 3) /\ more[3]["roundNumber"] = s.roundNumber
      /\ MatchOver(s) => /\ Newest(more, "matchWinner", 4)
                         /\ more[4]["matchWinner"] = NameLabel(p, l)
    BY <1>8, RoundNewest, DecisionNewest DEF l
<1>10. pend[p] \in Seq(Writes) /\ more \in Seq(Writes) /\ pend'[p] = pend[p] \o more
       /\ pend'[other] = pend[other]
    BY <1>0, <1>3, <1>8 DEF Types, Queue
<1>11. /\ Local(p, "hostScore")' = s.hostScore /\ Local(p, "guestScore")' = s.guestScore
       /\ Local(p, "roundNumber")' = s.roundNumber
       /\ MatchOver(s) => Local(p, "matchWinner")' = NameLabel(p, l)
    <2>1. \A f, i : Newest(more, f, i) => View(server, pend[p] \o more, f) = more[i][f]
        BY <1>10, NewerReplace
    <2>2. \A f, i : Newest(more, f, i) => Local(p, f)' = more[i][f]
        BY <2>1, <1>1, <1>10 DEF Local
    <2>q. QED BY <2>2, <1>9
<1>12. /\ ~MatchOver(s) => Local(p, "matchWinner")' = Local(p, "matchWinner")
       /\ \A f \in StatFields : Local(p, f)' = Local(p, f)
    <2>1. \A f \in StatFields : Own(more, f) = {}
        BY <1>8, StatNames DEF DecisionWrites, RoundWrites, Own, Write
    <2>2. ~MatchOver(s) => Own(more, "matchWinner") = {}
        BY <1>8 DEF RoundWrites, Own, Write
    <2>q. QED BY <2>1, <2>2, <1>0, <1>1, <1>8, OthersSeen, StatNames, KeysAreRoom
<1>13. owed \subseteq StatFields
    BY StatNames DEF WinsField, LossesField
<1>14. /\ asked'[other] = asked[other]
       /\ \A k \in Kinds : asked[p][k] \in Nat
       /\ \A k \in Kinds : asked'[p][k] = IF k \in owed THEN asked[p][k] + 1 ELSE asked[p][k]
    <2>1. CASE MatchOver(s)
        BY <2>1, <1>0, <1>3, <1>7 DEF Ask, Types
    <2>2. CASE ~MatchOver(s)
        BY <2>2, <1>0, <1>3, <1>7 DEF Types
    <2>q. QED BY <2>1, <2>2
<1> HIDE DEF owed
<1>15. \A k \in StatFields : ~Due(p, k) /\ (Due(p, k)' <=> k \in owed)
    <2> SUFFICES ASSUME NEW k \in StatFields PROVE ~Due(p, k) /\ (Due(p, k)' <=> k \in owed)
        OBVIOUS
    <2>1. k \in Kinds /\ k # "engine" /\ k # "fight" /\ "engine" \in Kinds
        BY StatNames
    <2>2. ~Due(p, k)
        BY <2>1, <1>2, <1>4, StatNames DEF Staged, OneStage, Due
    <2>3. ~Has(p, k)' /\ asked[p][k] = 0
        BY <2>1, <2>2, <1>4, <1>14 DEF Due, Waits
    <2>4. Waits(p, k)' <=> k \in owed
        BY <2>1, <2>3, <1>14 DEF Waits
    <2>q. QED BY <2>2, <2>3, <2>4 DEF Due
<1>16. \A f \in StatFields : /\ Record(p, f) \in Nat
                             /\ Record(p, f)' = Record(p, f) + (IF f \in owed THEN 1 ELSE 0)
    <2> SUFFICES ASSUME NEW f \in StatFields
                 PROVE  /\ Record(p, f) \in Nat
                        /\ Record(p, f)' = Record(p, f) + (IF f \in owed THEN 1 ELSE 0)
        OBVIOUS
    <2>1. Local(p, f) \in Nat
        BY <1>0, LocalType, FieldKinds, StatNames
    <2>2. Record(p, f) = Local(p, f)
        BY <2>1, <1>15 DEF Record
    <2>3. Record(p, f)' = Local(p, f) + (IF f \in owed THEN 1 ELSE 0)
        BY <1>12, <1>15 DEF Record
    <2>q. QED BY <2>1, <2>2, <2>3
<1>17. Resolving(p) /\ Resolving(p)'
    <2>1. Resolving(p)
        BY <1>4, DueResolves, StatNames DEF Due
    <2>2. 1 \in 1..Len(more) /\ ~(DOMAIN more[1] \subseteq InputFields)
        BY <1>9, KeysAreRoom DEF Newest
    <2>q. QED BY <2>1, <2>2, <1>0, <1>8, WrittenGrows, ResolvingParts
<1>18. Witness = p /\ Witness' = p
    BY <1>2, <1>17, WitnessIsPlayer
<1>19. FreshScores'
    <2>1. Current(p)'
        <3>1. \A i \in 1..Len(inbox'[p]) : inbox'[p][i].kind # "engine"
            BY <1>4 DEF Has, Counts
        <3>q. QED BY <3>1 DEF Current
    <2>2. \A f : Local(other, f)' = Local(other, f)
        BY <1>1, <1>10 DEF Local
    <2>3. Current(other)'
        BY <2>2, <1>2, <1>3, <1>14, SameDueUnseen
    <2>q. QED BY <2>1, <2>3, <1>3 DEF FreshScores
<1> DEFINE score == ScoresSeen[p]'
           missedWins == [q \in Players |-> unrecorded[WinsField(q)]]
           missedLosses == [q \in Players |-> unrecorded[LossesField(q)]]
<1>20. score = [q \in Players |-> IF q = "host" THEN s.hostScore ELSE s.guestScore]
    BY <1>11 DEF ScoresSeen, ScoreField
<1>21. /\ s.hostScore \in Nat /\ s.guestScore \in Nat /\ s.roundNumber \in Nat
       /\ \/ s.hostScore = Local(p, "hostScore") /\ s.guestScore = Local(p, "guestScore")
             /\ s.roundNumber = Local(p, "roundNumber")
          \/ s.hostScore = Local(p, "hostScore") + 1 /\ s.guestScore = Local(p, "guestScore")
             /\ s.roundNumber = Local(p, "roundNumber") + 1
          \/ s.hostScore = Local(p, "hostScore") /\ s.guestScore = Local(p, "guestScore") + 1
             /\ s.roundNumber = Local(p, "roundNumber") + 1
    <2>1. "hostScore" \in ScoreFields /\ "guestScore" \in ScoreFields /\ "roundNumber" \in ScoreFields
        BY DEF ScoreFields
    <2>2. \A f \in ScoreFields : a.data[f] \in Nat
        BY <1>6
    <2>q. QED BY <2>1, <2>2, <1>6, RoundIsPointOrDraw
<1>22. Rounds!Draw \/ Rounds!Point
    <2>1. ScoresSeen[p] = [q \in Players |-> IF q = "host" THEN Local(p, "hostScore") ELSE Local(p, "guestScore")]
        BY DEF ScoresSeen, ScoreField
    <2> DEFINE old == ScoresSeen[p]
    <2>2. \/ score = old /\ s.roundNumber = Local(p, "roundNumber")
          \/ score = [old EXCEPT !["host"] = @ + 1] /\ s.roundNumber = Local(p, "roundNumber") + 1
          \/ score = [old EXCEPT !["guest"] = @ + 1] /\ s.roundNumber = Local(p, "roundNumber") + 1
        BY <2>1, <1>20, <1>21 DEF Players
    <2>3. /\ ScoresSeen[Witness] = old /\ ScoresSeen[Witness]' = score
          /\ RoundsSeen[Witness] = Local(p, "roundNumber")
          /\ RoundsSeen[Witness]' = s.roundNumber
        BY <1>11, <1>18 DEF RoundsSeen
    <2> HIDE DEF old, score
    <2>q. QED BY <2>2, <2>3 DEF Rounds!Draw, Rounds!Point, Rounds!Players
<1>23. /\ l \in Players
       /\ MatchOver(s) => Rounds!Decides(l, score, s.roundNumber)
       /\ ~MatchOver(s) => \A q \in Players : ~Rounds!Decides(q, score, s.roundNumber)
    BY <1>20, <1>21, LeaderDecides DEF l
<1>24. /\ ScoresSeen[Witness]' = score /\ RoundsSeen[Witness]' = s.roundNumber
       /\ WinnerSeen[Witness] = WinnerSeen[p] /\ WinnerSeen[Witness]' = WinnerSeen[p]'
       /\ WinsSeen[Witness] = WinsSeen[p] /\ WinsSeen[Witness]' = WinsSeen[p]'
       /\ LossesSeen[Witness] = LossesSeen[p] /\ LossesSeen[Witness]' = LossesSeen[p]'
    BY <1>11, <1>18 DEF RoundsSeen
<1>27. missedWins' = missedWins /\ missedLosses' = missedLosses
    BY <1>1
<1> HIDE DEF score
<1>25. CASE ~MatchOver(s)
    <2>1. WinnerSeen[p]' = WinnerSeen[p]
        BY <1>12, <1>25 DEF WinnerSeen
    <2>2. \A f \in StatFields : Record(p, f)' = Record(p, f)
        BY <1>16, <1>25 DEF owed
    <2>3. WinsSeen[p]' = WinsSeen[p] /\ LossesSeen[p]' = LossesSeen[p]
        BY <2>2, SeenFields DEF WinsSeen, LossesSeen
    <2>4. Rounds!GoOn
        BY <2>1, <2>3, <1>23, <1>24, <1>25 DEF Rounds!GoOn, Rounds!Players, Players
    <2>q. QED BY <2>4, <1>1, <1>19, <1>22, <1>27 DEF Rounds!Round, Rounds!Undisturbed
<1>26. CASE MatchOver(s)
    <2>1. WinnerSeen[p]' = l
        <3>1. l = "host" \/ l = "guest"
            BY <1>23 DEF Players
        <3>q. QED BY <3>1, <1>11, <1>26 DEF WinnerSeen, NameLabel
    <2>2. \A q \in Players : /\ Record(p, WinsField(q))' = Record(p, WinsField(q)) + (IF q = l THEN 1 ELSE 0)
                             /\ Record(p, LossesField(q))' = Record(p, LossesField(q)) + (IF q = Opponent(l) THEN 1 ELSE 0)
                             /\ Record(p, WinsField(q)) \in Nat /\ Record(p, LossesField(q)) \in Nat
        BY <1>16, <1>23, <1>26, OwedFields, SeenFields DEF owed
    <2>3. Opponent(l) \in Players /\ Opponent(l) = Rounds!Other(l)
        BY <1>23, OwedFields DEF Opponent, Players
    <2>4. WinsSeen[p]' = [WinsSeen[p] EXCEPT ![l] = @ + 1]
        BY <2>2 DEF WinsSeen
    <2>5. LossesSeen[p]' = [LossesSeen[p] EXCEPT ![Opponent(l)] = @ + 1]
        BY <2>2 DEF LossesSeen
    <2>6. Rounds!Award(l)
        BY <2>1, <2>3, <2>4, <2>5, <1>23, <1>24, <1>26 DEF Rounds!Award
    <2>q. QED BY <2>6, <1>1, <1>19, <1>22, <1>23, <1>27
          DEF Rounds!Round, Rounds!Undisturbed, Rounds!Players, Players
<1>q. QED BY <1>25, <1>26

LEMMA RoundsInit == Init => Rounds!Init /\ FreshScores
<1> SUFFICES ASSUME Init PROVE Rounds!Init /\ FreshScores
    OBVIOUS
<1>1. ASSUME NEW p \in Players
      PROVE  /\ Len(inbox[p]) = 0 /\ 1..Len(inbox[p]) = {} /\ pend[p] = <<>>
             /\ \A k \in Kinds : asked[p][k] = 0
    BY <1>1 DEF Init
<1>2. ASSUME NEW p \in Players, NEW f \in Fields PROVE Local(p, f) = server[f]
    <2>1. Own(pend[p], f) = {}
        BY <1>1 DEF Own
    <2>q. QED BY <2>1, ViewOfDocument DEF Local
<1>3. Witness \in Players
    BY WitnessIsPlayer
<1>4. /\ "hostScore" \in Fields /\ "guestScore" \in Fields /\ "roundNumber" \in Fields
      /\ "matchWinner" \in Fields
      /\ server["hostScore"] = 0 /\ server["guestScore"] = 0 /\ server["roundNumber"] = 0
      /\ server["matchWinner"] = "none"
      /\ \A f \in StatFields : f \in Fields /\ server[f] = 0
    BY StatNames, KeysAreRoom DEF Init, InputFields, SelectionFields
<1>5. \A f \in StatFields : Record(Witness, f) = 0
    <2> SUFFICES ASSUME NEW f \in StatFields PROVE Record(Witness, f) = 0
        OBVIOUS
    <2>1. f \in Kinds /\ ~Due(Witness, f)
        BY <1>1, <1>3, StatNames DEF Due, Waits, Has
    <2>q. QED BY <2>1, <1>2, <1>3, <1>4 DEF Record
<1>6. /\ ScoresSeen[Witness] = [p \in Rounds!Players |-> 0] /\ RoundsSeen[Witness] = 0
      /\ WinnerSeen[Witness] = "none"
    BY <1>2, <1>3, <1>4 DEF ScoresSeen, RoundsSeen, WinnerSeen, ScoreField, Players, Rounds!Players
<1>7. /\ WinsSeen[Witness] = [p \in Rounds!Players |-> 0]
      /\ LossesSeen[Witness] = [p \in Rounds!Players |-> 0]
    BY <1>3, <1>5, SeenFields DEF WinsSeen, LossesSeen, Players, Rounds!Players
<1>8. FreshScores
    BY <1>1 DEF FreshScores, Current
<1>9. /\ [q \in Players |-> unrecorded[WinsField(q)]] = [p \in Rounds!Players |-> 0]
      /\ [q \in Players |-> unrecorded[LossesField(q)]] = [p \in Rounds!Players |-> 0]
    BY SeenFields DEF Init, Players, Rounds!Players
<1>q. QED BY <1>6, <1>7, <1>8, <1>9 DEF Rounds!Init, Rounds!None, Init

\* Only the callback of the engine is a round, and only a read of a record that
\* ends with an error is a record missed; every other step shows nothing.
LEMMA RoundsNext ==
    ASSUME RoundInv, [Next]_vars
    PROVE  [Rounds!Next]_(Rounds!vars) /\ FreshScores'
<1>1. CASE disturbed'
    BY <1>1 DEF Rounds!Next, Rounds!Disturb, FreshScores
<1>2. CASE ~disturbed'
    <2> USE <1>2
    <2>1. CASE UNCHANGED vars
        BY <2>1, RoundsScreen, SteadyStutters DEF vars, history
    <2>2. ASSUME NEW p \in Players, PlayerStep(p)
          PROVE  UNCHANGED Rounds!vars /\ FreshScores'
        BY <2>2, RoundsPlayer, SteadyStutters
    <2>3. ASSUME NEW p \in Players, ScreenStep(p)
          PROVE  UNCHANGED Rounds!vars /\ FreshScores'
        BY <2>3, ScreenSteps, RoundsScreen, SteadyStutters
    <2>4. ASSUME NEW p \in Players, NEW k \in Kinds, Serve(p, k) \/ ServeCached(p, k)
          PROVE  UNCHANGED Rounds!vars /\ FreshScores'
        <3>1. PICK data : Answer(p, k, data) /\ [kind |-> k, data |-> data] \in Answers
            BY <2>4, ServeAnswers DEF RoundInv
        <3>q. QED BY <3>1, RoundsServe, SteadyStutters
    <2>5. ASSUME NEW p \in Players, ApplyWrite(p) \/ FightCallback(p) \/ StatCallback(p)
          PROVE  UNCHANGED Rounds!vars /\ FreshScores'
        BY <2>5, RoundsApply, RoundsFight, RoundsStat, SteadyStutters
    <2>6. ASSUME NEW p \in Players, EngineCallback(p)
          PROVE  Rounds!Next /\ FreshScores'
        BY <2>6, RoundsEngine DEF Rounds!Next
    <2>7. ASSUME NEW p \in Players, SystemStep(p)
          PROVE  [Rounds!Next]_(Rounds!vars) /\ FreshScores'
        BY <2>3, <2>4, <2>5, <2>6, <2>7, FailIsMiss DEF SystemStep, ScreenStep
    <2>q. QED BY <2>1, <2>2, <2>7 DEF Next
<1>q. QED BY <1>1, <1>2

\* Two devices that read, compute and write back field by field, each with
\* callbacks in any order, play rounds as if each were one step, and a read of a
\* record that ends with an error is one win or loss missed, as long as the match
\* is not disturbed: for any number of rounds, taps and reads not answered.
THEOREM MatchRoundsAreAtomic == Spec => RoundsAreAtomic
<1>1. Init => Rounds!Init /\ RoundInv
    BY TypesInit, SerialInit, RecordsInit, RoundsInit DEF RoundInv
<1>2. RoundInv /\ [Next]_vars => RoundInv' /\ [Rounds!Next]_(Rounds!vars)
    BY TypesNext, SerialNext, RecordsNext, RoundsNext DEF RoundInv
<1>q. QED BY <1>1, <1>2, PTL DEF Spec, RoundsAreAtomic, Rounds!Spec

=============================================================================
