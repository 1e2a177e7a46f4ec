------------------------ MODULE WritePipelineProofs ------------------------
(***************************************************************************)
(* Proofs about WritePipeline, for every size of the pipeline and any      *)
(* number of writes, interruptions and restarts.                           *)
(*                                                                         *)
(* The inductive invariant says that the queue is a run of consecutive     *)
(* writes, that the pipeline is its beginning, and that what is on the     *)
(* wire is the pipeline again: first the part that is answered, then the   *)
(* part still to be taken.  That answers are told apart by their order     *)
(* alone is then enough.                                                   *)
(***************************************************************************)
EXTENDS WritePipeline, SequenceTheorems, TLAPS

\* The number of writes that have left the queue.
Gone == made - Len(queue)

QueueIsRun ==
    /\ Len(queue) <= made
    /\ \A i \in 1..Len(queue) : queue[i] = Gone + i

\* Nothing is under way without a call, and only the handshake before it is
\* answered.
CallBegins ==
    /\ stream # "Open" =>
        ~handshake /\ ~idle /\ requests = <<>> /\ replies = <<>> /\ ended = "no"
    /\ stream = "Open" /\ ~handshake =>
        /\ Len(replies) <= 1
        /\ ended = "no" => /\ Len(requests) + Len(replies) = 1
                           /\ \A i \in 1..Len(requests) : requests[i] = Hello
        /\ ended = "permanent" => Len(replies) = 0

\* AnswersMatchPipeline, place by place.
WireIsPipeline ==
    handshake =>
        /\ Len(replies) <= Len(pipeline)
        /\ \A i \in 1..Len(replies) : replies[i] = pipeline[i]
        /\ ended = "no" =>
            /\ Len(replies) + Len(requests) = Len(pipeline)
            /\ \A i \in 1..Len(requests) : requests[i] = pipeline[Len(replies) + i]

TimerAndNetwork ==
    /\ enabled /\ Len(pipeline) > 0 => stream \in Started
    /\ ~enabled => stream \notin Started
    /\ idle => handshake /\ Len(pipeline) = 0

OutcomesInOrder == \A n \in Writes : (outcome[n] = "none") <=> (n > Gone)

\* What is answered has been applied; only the oldest write in the queue may
\* have been told so already, by an application that ended before its removal.
AnsweredIsApplied ==
    /\ \A n \in Writes : outcome[n] = "ok" => n \in applied /\ doc >= n
    /\ \A n \in Writes : told[n] = "ok" => n \in applied /\ doc >= n /\ n <= Gone + 1
    /\ handshake => \A i \in 1..Len(replies) : replies[i] \in applied /\ doc >= replies[i]

RefusedIsNext ==
    handshake /\ ended = "permanent" =>
        Len(replies) < Len(pipeline) /\ pipeline[Len(replies) + 1] \in refused

IInv ==
    /\ TypeOK
    /\ QueueIsRun /\ PipelineIsOldestPart
    /\ CallBegins /\ WireIsPipeline
    /\ CredentialsAreOfThisStart /\ TimerAndNetwork
    /\ OutcomesInOrder /\ AnsweredIsApplied
    /\ RejectionHasCause /\ RefusedIsNext

-----------------------------------------------------------------------------
(* The parts of the handlers.                                              *)

\* Adding a write at the end of the queue.
LEMMA AppendIsRun ==
    ASSUME NEW q \in Seq(Nat), NEW n \in Nat, Len(q) <= n,
           \A i \in 1..Len(q) : q[i] = n - Len(q) + i
    PROVE  /\ Append(q, n + 1) \in Seq(Nat) /\ Len(Append(q, n + 1)) = Len(q) + 1
           /\ \A i \in 1..(Len(q) + 1) :
                Append(q, n + 1)[i] = (n + 1) - (Len(q) + 1) + i
           /\ \A i \in 1..Len(q) : Append(q, n + 1)[i] = q[i]
    OBVIOUS

\* Taking the first element off.
LEMMA TailShifts ==
    ASSUME NEW S, NEW q \in Seq(S), Len(q) > 0
    PROVE  /\ Tail(q) \in Seq(S) /\ Len(Tail(q)) = Len(q) - 1
           /\ \A i \in 1..(Len(q) - 1) : Tail(q)[i] = q[i + 1]
           /\ Head(q) = q[1] /\ q[1] \in S
    OBVIOUS

LEMMA EmptyHasNoElements ==
    ASSUME NEW S
    PROVE  <<>> \in Seq(S) /\ Len(<<>>) = 0
    OBVIOUS

LEMMA NonEmpty ==
    ASSUME NEW S, NEW q \in Seq(S)
    PROVE  (q # <<>>) <=> (Len(q) > 0)
    OBVIOUS

\* One sequence sent after another.
LEMMA ConcatShifts ==
    ASSUME NEW S, NEW a \in Seq(S), NEW b \in Seq(S)
    PROVE  /\ a \o b \in Seq(S) /\ Len(a \o b) = Len(a) + Len(b)
           /\ \A i \in 1..Len(a) : (a \o b)[i] = a[i]
           /\ \A i \in 1..Len(b) : (a \o b)[Len(a) + i] = b[i]
<1>1. /\ a \o b \in Seq(S) /\ Len(a \o b) = Len(a) + Len(b)
      /\ \A i \in 1..(Len(a) + Len(b)) :
            (a \o b)[i] = IF i <= Len(a) THEN a[i] ELSE b[i - Len(a)]
  BY ConcatProperties
<1>2. Len(a) \in Nat /\ Len(b) \in Nat
  OBVIOUS
<1>3. \A i \in 1..Len(b) : (a \o b)[Len(a) + i] = b[i]
  <2> SUFFICES ASSUME NEW i \in 1..Len(b) PROVE (a \o b)[Len(a) + i] = b[i]
    OBVIOUS
  <2>1. Len(a) + i \in 1..(Len(a) + Len(b)) /\ ~(Len(a) + i <= Len(a))
        /\ (Len(a) + i) - Len(a) = i
    BY <1>2
  <2> QED BY <1>1, <2>1
<1> QED BY <1>1, <1>2, <1>3

\* What is added to the pipeline is sent after what was sent: if r was the rest
\* of the pipeline p from its place k on, it is the rest of the longer one again.
LEMMA SendsAdded ==
    ASSUME NEW r \in Seq(Writes \cup {Hello}), NEW p \in Seq(Writes), NEW n \in Nat,
           n <= Len(p)
    PROVE  /\ r \o SubSeq(p, n + 1, Len(p)) \in Seq(Writes \cup {Hello})
           /\ \A k \in Nat :
                k + Len(r) = n /\ (\A i \in 1..Len(r) : r[i] = p[k + i]) =>
                  /\ k + Len(r \o SubSeq(p, n + 1, Len(p))) = Len(p)
                  /\ \A i \in 1..Len(r \o SubSeq(p, n + 1, Len(p))) :
                        (r \o SubSeq(p, n + 1, Len(p)))[i] = p[k + i]
<1> DEFINE a == SubSeq(p, n + 1, Len(p))
           s == r \o a
<1>1. /\ a \in Seq(Writes) /\ Len(a) = Len(p) - n
      /\ \A i \in 1..(Len(p) - n) : a[i] = p[n + i]
  <2>1. Len(p) \in Nat /\ \A i \in (n + 1)..Len(p) : p[i] \in Writes
    OBVIOUS
  <2>2. /\ a \in Seq(Writes) /\ Len(a) = IF n + 1 <= Len(p) THEN Len(p) - (n + 1) + 1 ELSE 0
        /\ \A i \in 1..(Len(p) - (n + 1) + 1) : a[i] = p[(n + 1) + i - 1]
    BY <2>1, SubSeqProperties
  <2> HIDE DEF a
  <2> QED BY <2>1, <2>2
<1> HIDE DEF a
<1>2. a \in Seq(Writes \cup {Hello})
  BY <1>1
<1>3. /\ s \in Seq(Writes \cup {Hello}) /\ Len(s) = Len(r) + Len(a)
      /\ \A i \in 1..Len(r) : s[i] = r[i]
      /\ \A i \in 1..Len(a) : s[Len(r) + i] = a[i]
  BY <1>2, ConcatShifts
<1> HIDE DEF s
<1>4. /\ Len(r) \in Nat /\ Len(a) \in Nat /\ Len(p) \in Nat
        /\ Len(a) = Len(p) - n /\ Len(s) = Len(r) + Len(a)
  BY <1>1, <1>3
<1>5. ASSUME NEW k \in Nat, k + Len(r) = n, \A i \in 1..Len(r) : r[i] = p[k + i]
      PROVE  k + Len(s) = Len(p) /\ \A i \in 1..Len(s) : s[i] = p[k + i]
  <2>1. k + Len(s) = Len(p) /\ Len(r) \in Nat
    BY <1>4, <1>5
  <2>2. ASSUME NEW i \in 1..Len(s) PROVE s[i] = p[k + i]
    <3>1. CASE i <= Len(r)
      BY <3>1, <1>3, <1>5, <2>1
    <3>2. CASE i > Len(r)
      <4>1. /\ i - Len(r) \in 1..Len(a) /\ i - Len(r) \in 1..(Len(p) - n)
            /\ Len(r) + (i - Len(r)) = i /\ n + (i - Len(r)) = k + i
        BY <3>2, <1>4, <1>5
      <4>2. s[Len(r) + (i - Len(r))] = a[i - Len(r)] /\ a[i - Len(r)] = p[n + (i - Len(r))]
        BY <4>1, <1>1, <1>3
      <4> QED BY <4>1, <4>2
    <3> QED BY <3>1, <3>2, <2>1, <1>4
  <2> QED BY <2>1, <2>2
<1> QED BY <1>3, <1>5 DEF s, a

\* FillWritePipeline: what was the beginning of the queue is again, as long as
\* it can be (Refilled).
LEMMA RefilledIsBeginning ==
    ASSUME PendingAssumption,
           NEW p \in Seq(Writes), NEW q \in Seq(Writes), NEW net \in BOOLEAN, NEW base \in Nat,
           Len(p) <= Len(q), Len(p) <= MaxPendingWrites,
           \A i \in 1..Len(q) : q[i] = base + i,
           \A i \in 1..Len(p) : p[i] = q[i]
    PROVE  /\ Refilled(p, q, net) \in Seq(Writes)
           /\ Len(Refilled(p, q, net)) =
                IF net THEN Smaller(MaxPendingWrites, Len(q)) ELSE Len(p)
           /\ \A i \in 1..Len(Refilled(p, q, net)) : Refilled(p, q, net)[i] = q[i]
           /\ Len(p) <= Len(Refilled(p, q, net))
<1> DEFINE m == Smaller(Len(q), NextBatch(p, q) + (MaxPendingWrites - Len(p)) - 1)
           added == SubSeq(q, NextBatch(p, q), m)
<1>1. NextBatch(p, q) = Len(p) + 1
  <2>1. CASE p = <<>> \/ q = <<>>
    <3>1. Len(p) = 0
      BY <2>1, EmptyHasNoElements
    <3> QED BY <2>1, <3>1 DEF NextBatch
  <2>2. CASE p # <<>> /\ q # <<>>
    <3>1. Len(p) \in 1..Len(q) /\ 1 \in 1..Len(q)
      BY <2>2, NonEmpty
    <3>2. p[Len(p)] = base + Len(p) /\ q[1] = base + 1
      BY <3>1
    <3> QED BY <2>2, <3>2 DEF NextBatch
  <2> QED BY <2>1, <2>2
<1>2. m = Smaller(MaxPendingWrites, Len(q)) /\ m \in Nat /\ Len(p) <= m /\ m <= Len(q)
  BY <1>1 DEF Smaller, PendingAssumption
<1>3. /\ added \in Seq(Writes) /\ Len(added) = m - Len(p)
      /\ \A i \in 1..Len(added) : added[i] = q[Len(p) + i]
  <2> HIDE DEF m
  <2>1. SubSeq(q, Len(p) + 1, m) \in Seq(Writes) /\ Len(SubSeq(q, Len(p) + 1, m)) = m - Len(p)
    BY <1>2
  <2>2. \A i \in 1..(m - Len(p)) : SubSeq(q, Len(p) + 1, m)[i] = q[Len(p) + i]
    BY <1>2
  <2> QED BY <1>1, <2>1, <2>2
<1>4. CASE net
  <2>1. Refilled(p, q, net) = p \o added
    BY <1>4 DEF Refilled
  <2> HIDE DEF added, m
  <2>2. /\ p \o added \in Seq(Writes) /\ Len(p \o added) = Len(p) + Len(added)
        /\ \A i \in 1..Len(p) : (p \o added)[i] = p[i]
        /\ \A i \in (Len(p) + 1)..(Len(p) + Len(added)) :
                (p \o added)[i] = added[i - Len(p)]
    BY <1>3
  <2>3. \A i \in 1..m : (p \o added)[i] = q[i]
    <3> SUFFICES ASSUME NEW i \in 1..m PROVE (p \o added)[i] = q[i]
      OBVIOUS
    <3>1. CASE i <= Len(p)
      BY <3>1, <1>2, <2>2
    <3>2. CASE i > Len(p)
      <4>1. i - Len(p) \in 1..Len(added)
        BY <3>2, <1>2, <1>3
      <4>2. added[i - Len(p)] = q[Len(p) + (i - Len(p))]
        BY <4>1, <1>3
      <4> QED BY <3>2, <4>1, <4>2, <1>2, <1>3, <2>2
    <3>3. i \in Nat /\ Len(p) \in Nat
      BY <1>2
    <3>4. i <= Len(p) \/ i > Len(p)
      BY <3>3
    <3> QED BY <3>1, <3>2, <3>4
  <2>4. Len(p \o added) = m
    BY <1>2, <1>3, <2>2
  <2> DEFINE r == p \o added
  <2>5. /\ r \in Seq(Writes) /\ Len(r) = m
        /\ \A i \in 1..m : r[i] = q[i]
        /\ Refilled(p, q, net) = r
    BY <2>1, <2>2, <2>3, <2>4
  <2> HIDE DEF r
  <2> QED BY <1>4, <1>2, <2>5
<1>5. CASE ~net
  BY <1>5 DEF Refilled
<1> QED BY <1>4, <1>5

\* ShouldStartWriteStream and StartWriteStream, at the end of a handler.
LEMMA StartsIfNeeded ==
    ASSUME NEW state \in {"Initial", "Starting", "Open", "Error", "Backoff"},
           NEW p \in Seq(Writes), NEW net \in BOOLEAN, NEW open,
           closeCount' \in Nat, open \subseteq 0..closeCount',
           (closeCount' \in open) <=> (state = "Starting"),
           StartIfNeeded(state, p, net, open)
    PROVE  /\ stream' \in {"Initial", "Starting", "Open", "Error", "Backoff"}
           /\ asked' \subseteq 0..closeCount'
           /\ CredentialsAreOfThisStart'
           /\ (stream' = "Open") <=> (state = "Open")
           /\ net /\ Len(p) > 0 => stream' \in Started
           /\ ~net => stream' = state
<1>1. Len(p) > 0 => p # <<>>
  BY NonEmpty
<1>2. CASE ~ShouldStart(state, p, net)
  <2>1. stream' = state /\ asked' = open
    BY <1>2 DEF StartIfNeeded
  <2> QED BY <1>2, <1>1, <2>1 DEF ShouldStart, Started, CredentialsAreOfThisStart
<1>3. CASE ShouldStart(state, p, net) /\ state = "Error"
  <2>1. stream' = "Backoff" /\ asked' = open
    BY <1>3 DEF StartIfNeeded
  <2> QED BY <1>3, <1>1, <2>1 DEF ShouldStart, Started, CredentialsAreOfThisStart
<1>4. CASE ShouldStart(state, p, net) /\ state # "Error"
  <2>1. stream' = "Starting" /\ asked' = open \cup {closeCount'}
    BY <1>4 DEF StartIfNeeded
  <2> QED BY <1>4, <1>1, <2>1 DEF ShouldStart, Started, CredentialsAreOfThisStart
<1> QED BY <1>2, <1>3, <1>4

\* What the invariant says of the queue and the pipeline, spelled out.
LEMMA StoreFacts ==
    ASSUME IInv
    PROVE  /\ queue \in Seq(Writes) /\ pipeline \in Seq(Writes)
           /\ Gone \in Nat /\ made = Gone + Len(queue)
           /\ Len(pipeline) <= Len(queue) /\ Len(pipeline) <= MaxPendingWrites
           /\ enabled /\ Len(queue) > 0 => Len(pipeline) > 0
           /\ ~enabled => Len(pipeline) = 0
           /\ \A i \in 1..Len(queue) : queue[i] = Gone + i
           /\ \A i \in 1..Len(pipeline) : pipeline[i] = Gone + i /\ pipeline[i] = queue[i]
<1>1. /\ queue \in Seq(Writes) /\ pipeline \in Seq(Writes) /\ made \in Nat
      /\ enabled \in BOOLEAN /\ MaxPendingWrites \in Nat \ {0}
  BY PendingAssumption, BoundsAssumption DEF IInv, TypeOK, Writes, PendingAssumption,
     BoundsAssumption
<1>2. Gone \in Nat /\ made = Gone + Len(queue)
  BY <1>1 DEF IInv, QueueIsRun, Gone
<1>3. /\ Len(pipeline) <= Len(queue) /\ Len(pipeline) <= MaxPendingWrites
      /\ enabled /\ Len(queue) > 0 => Len(pipeline) > 0
      /\ ~enabled => Len(pipeline) = 0
  BY <1>1 DEF IInv, PipelineIsOldestPart, Smaller
<1>4. \A i \in 1..Len(queue) : queue[i] = Gone + i
  BY DEF IInv, QueueIsRun
<1>5. \A i \in 1..Len(pipeline) : pipeline[i] = Gone + i /\ pipeline[i] = queue[i]
  <2>1. \A i \in 1..Len(pipeline) : i \in 1..Len(queue) /\ pipeline[i] = queue[i]
    BY <1>1, <1>3 DEF IInv, PipelineIsOldestPart
  <2> QED BY <2>1, <1>4
<1> QED BY <1>1, <1>2, <1>3, <1>4, <1>5

\* A handler that fills the pipeline up from p leaves it the oldest part of the
\* queue.
LEMMA FillsPipeline ==
    ASSUME queue' \in Seq(Writes), made' \in Nat, enabled' \in BOOLEAN, QueueIsRun',
           NEW p \in Seq(Writes), Len(p) <= Len(queue'), Len(p) <= MaxPendingWrites,
           \A i \in 1..Len(p) : p[i] = queue'[i], ~enabled' => Len(p) = 0,
           pipeline' = Refilled(p, queue', enabled')
    PROVE  /\ pipeline' \in Seq(Writes) /\ PipelineIsOldestPart'
           /\ Len(p) <= Len(pipeline')
           /\ \A i \in 1..Len(p) : pipeline'[i] = p[i]
<1> DEFINE base == made' - Len(queue')
<1>1. base \in Nat
  BY DEF QueueIsRun
<1>2. \A i \in 1..Len(queue') : queue'[i] = base + i
  BY DEF QueueIsRun, Gone
<1> HIDE DEF base
<1>3. /\ pipeline' \in Seq(Writes)
      /\ Len(pipeline') = IF enabled' THEN Smaller(MaxPendingWrites, Len(queue')) ELSE Len(p)
      /\ \A i \in 1..Len(pipeline') : pipeline'[i] = queue'[i]
      /\ Len(p) <= Len(pipeline')
  <2>1. /\ Refilled(p, queue', enabled') \in Seq(Writes)
        /\ Len(Refilled(p, queue', enabled')) =
             IF enabled' THEN Smaller(MaxPendingWrites, Len(queue')) ELSE Len(p)
        /\ \A i \in 1..Len(Refilled(p, queue', enabled')) :
             Refilled(p, queue', enabled')[i] = queue'[i]
        /\ Len(p) <= Len(Refilled(p, queue', enabled'))
    BY <1>1, <1>2, RefilledIsBeginning, PendingAssumption
  <2> QED BY <2>1
<1>4. PipelineIsOldestPart'
  BY <1>3 DEF PipelineIsOldestPart
<1>5. \A i \in 1..Len(p) : pipeline'[i] = p[i]
  BY <1>3
<1> QED BY <1>3, <1>4, <1>5

\* The front of the pipeline is settled, acknowledged or rejected.
LEMMA SettlesFront ==
    ASSUME IInv, Len(pipeline) > 0,
           queue' = Tail(queue), made' = made, enabled' = enabled,
           pipeline' = Refilled(Tail(pipeline), queue', enabled')
    PROVE  /\ queue' \in Seq(Writes) /\ pipeline' \in Seq(Writes)
           /\ QueueIsRun' /\ PipelineIsOldestPart'
           /\ Gone' = Gone + 1 /\ Head(pipeline) = Gone + 1 /\ Head(pipeline) \in Writes
           /\ Len(pipeline) - 1 <= Len(pipeline')
           /\ \A i \in 1..(Len(pipeline) - 1) : pipeline'[i] = pipeline[i + 1]
<1> USE StoreFacts
<1>1. /\ queue' \in Seq(Writes) /\ Len(queue') = Len(queue) - 1
      /\ \A i \in 1..Len(queue') : queue'[i] = queue[i + 1]
  BY TailShifts
<1>2. /\ Tail(pipeline) \in Seq(Writes) /\ Len(Tail(pipeline)) = Len(pipeline) - 1
      /\ \A i \in 1..(Len(pipeline) - 1) : Tail(pipeline)[i] = pipeline[i + 1]
      /\ Head(pipeline) = pipeline[1] /\ pipeline[1] \in Writes
  BY TailShifts
<1>3. Gone' = Gone + 1 /\ made' \in Nat
  BY <1>1 DEF Gone
<1>4. QueueIsRun'
  <2>1. Len(queue') <= made'
    BY <1>1
  <2>2. \A i \in 1..Len(queue') : i + 1 \in 1..Len(queue) /\ queue'[i] = Gone' + i
    BY <1>1, <1>3
  <2> QED BY <2>1, <2>2 DEF QueueIsRun
<1>5. \A i \in 1..Len(Tail(pipeline)) : Tail(pipeline)[i] = queue'[i]
  <2> SUFFICES ASSUME NEW i \in 1..Len(Tail(pipeline)) PROVE Tail(pipeline)[i] = queue'[i]
    OBVIOUS
  <2>1. i \in 1..Len(queue') /\ i + 1 \in 1..Len(pipeline) /\ i \in 1..(Len(pipeline) - 1)
    BY <1>1, <1>2
  <2> QED BY <2>1, <1>1, <1>2
<1>6. enabled' \in BOOLEAN /\ (~enabled' => Len(Tail(pipeline)) = 0)
  BY DEF IInv, TypeOK
<1>7. Len(Tail(pipeline)) <= Len(queue') /\ Len(Tail(pipeline)) <= MaxPendingWrites
  BY <1>1, <1>2, PendingAssumption DEF PendingAssumption
<1> HIDE StoreFacts
<1>8. /\ pipeline' \in Seq(Writes) /\ PipelineIsOldestPart'
      /\ Len(Tail(pipeline)) <= Len(pipeline')
      /\ \A i \in 1..Len(Tail(pipeline)) : pipeline'[i] = Tail(pipeline)[i]
  BY <1>1, <1>2, <1>3, <1>4, <1>5, <1>6, <1>7, FillsPipeline
<1>9. Head(pipeline) = Gone + 1
  BY <1>2, StoreFacts
<1>10. \A i \in 1..(Len(pipeline) - 1) : pipeline'[i] = pipeline[i + 1]
  BY <1>2, <1>8
<1> QED BY <1>1, <1>2, <1>3, <1>4, <1>8, <1>9, <1>10

-----------------------------------------------------------------------------
(* Every step keeps the invariant.                                         *)

Streams == {"Initial", "Starting", "Open", "Error", "Backoff"}

LEMMA Typing ==
    ASSUME IInv
    PROVE  /\ callbacks \subseteq Writes /\ applied \subseteq Writes /\ refused \subseteq Writes
           /\ enabled \in BOOLEAN /\ handshake \in BOOLEAN /\ idle \in BOOLEAN
           /\ stream \in Streams /\ closeCount \in Nat /\ asked \subseteq 0..closeCount
           /\ requests \in Seq(Writes \cup {Hello}) /\ replies \in Seq(Writes \cup {Hello})
           /\ ended \in {"no", "transient", "permanent"}
           /\ doc \in Writes \cup {0} /\ made \in Writes \cup {0}
           /\ outcome \in [Writes -> Outcomes] /\ told \in [Writes -> Outcomes]
           /\ launches \in Nat
  BY DEF IInv, TypeOK, Streams

\* A step after which there is no call, and that settles nothing.
LEMMA CallIsOver ==
    ASSUME IInv,
           stream' \in Streams, stream' # "Open", handshake' = FALSE, idle' = FALSE,
           Disconnected,
           queue' = queue, made' = made, outcome' = outcome, launches' \in Nat,
           doc' = doc, applied' = applied, refused' = refused,
           told' \in [Writes -> Outcomes],
           \A n \in Writes : told'[n] = "ok" => n \in applied /\ doc >= n /\ n <= Gone + 1,
           callbacks' \subseteq Writes, enabled' \in BOOLEAN,
           pipeline' \in Seq(Writes), PipelineIsOldestPart',
           closeCount' \in Nat, asked' \subseteq 0..closeCount', CredentialsAreOfThisStart',
           ~enabled' => stream' \notin Started,
           enabled' /\ Len(pipeline') > 0 => stream' \in Started
    PROVE  IInv'
<1>1. /\ requests' \in Seq(Writes \cup {Hello}) /\ replies' \in Seq(Writes \cup {Hello})
      /\ Len(requests') = 0 /\ Len(replies') = 0 /\ ended' = "no"
      /\ requests' = <<>> /\ replies' = <<>>
  BY EmptyHasNoElements DEF Disconnected
<1>2. TypeOK'
  BY <1>1, Typing, StoreFacts DEF TypeOK, Streams
<1>3. QueueIsRun' /\ Gone' = Gone
  BY DEF IInv, QueueIsRun, Gone
<1>4. CallBegins' /\ WireIsPipeline' /\ RefusedIsNext'
  BY <1>1 DEF CallBegins, WireIsPipeline, RefusedIsNext
<1>5. TimerAndNetwork'
  BY DEF TimerAndNetwork
<1>6. OutcomesInOrder'
  BY <1>3 DEF IInv, OutcomesInOrder
<1>7. AnsweredIsApplied'
  BY <1>3 DEF IInv, AnsweredIsApplied
<1>8. RejectionHasCause'
  BY DEF IInv, RejectionHasCause
<1> QED BY <1>2, <1>3, <1>4, <1>5, <1>6, <1>7, <1>8 DEF IInv

\* The oldest part of an unchanged queue, taken anew.
LEMMA FillsAnew ==
    ASSUME IInv, queue' = queue, made' = made, enabled' = TRUE,
           pipeline' = Refilled(<<>>, queue', TRUE)
    PROVE  pipeline' \in Seq(Writes) /\ PipelineIsOldestPart'
<1>1. <<>> \in Seq(Writes) /\ Len(<<>>) = 0
  BY EmptyHasNoElements
<1>2. /\ queue' \in Seq(Writes) /\ made' \in Nat /\ enabled' \in BOOLEAN
      /\ Len(<<>>) <= Len(queue') /\ Len(<<>>) <= MaxPendingWrites
  BY <1>1, StoreFacts, PendingAssumption DEF PendingAssumption
<1>3. QueueIsRun'
  BY DEF IInv, QueueIsRun, Gone
<1>4. \A i \in 1..Len(<<>>) : (<<>>)[i] = queue'[i]
  BY <1>1
<1> QED BY <1>1, <1>2, <1>3, <1>4, FillsPipeline

\* Nothing else of what AnsweredIsApplied says of told is needed to keep it.
LEMMA ToldStands ==
    ASSUME IInv
    PROVE  \A n \in Writes : told[n] = "ok" => n \in applied /\ doc >= n /\ n <= Gone + 1
  BY DEF IInv, AnsweredIsApplied

LEMMA IdleTimeoutKeeps == ASSUME IInv, IdleTimeout PROVE IInv'
<1>1. stream = "Open" /\ stream' = "Initial" /\ closeCount' = closeCount + 1
  BY Typing DEF IInv, CallBegins, IdleTimeout, CloseGracefully
<1>2. closeCount' \in Nat /\ asked' \subseteq 0..closeCount' /\ closeCount' \notin asked'
  BY <1>1, Typing DEF IdleTimeout
<1>3. CredentialsAreOfThisStart'
  BY <1>1, <1>2 DEF CredentialsAreOfThisStart
<1>4. PipelineIsOldestPart' /\ pipeline' \in Seq(Writes)
  BY StoreFacts DEF IInv, PipelineIsOldestPart, IdleTimeout, clientVars
<1>5. pipeline' = pipeline /\ Len(pipeline) = 0
  BY DEF IInv, TimerAndNetwork, IdleTimeout
<1>6. /\ CloseGracefully /\ queue' = queue /\ made' = made /\ outcome' = outcome
      /\ told' = told /\ launches' = launches /\ doc' = doc /\ applied' = applied
      /\ refused' = refused /\ callbacks' = callbacks /\ enabled' = enabled
  BY DEF IdleTimeout, serverVars, historyVars
<1>7. /\ stream' \in Streams /\ stream' # "Open" /\ stream' \notin Started
      /\ handshake' = FALSE /\ idle' = FALSE /\ Disconnected /\ Len(pipeline') = 0
  BY <1>1, <1>5, <1>6 DEF CloseGracefully, Streams, Started
<1>8. /\ enabled' \in BOOLEAN /\ callbacks' \subseteq Writes /\ launches' \in Nat
      /\ told' \in [Writes -> Outcomes]
      /\ \A n \in Writes : told'[n] = "ok" => n \in applied /\ doc >= n /\ n <= Gone + 1
  BY <1>6, Typing, ToldStands
<1>9. enabled' /\ Len(pipeline') > 0 => stream' \in Started
  BY <1>7
<1> QED BY <1>2, <1>3, <1>4, <1>6, <1>7, <1>8, <1>9, CallIsOver

LEMMA DisableNetworkKeeps == ASSUME IInv, DisableNetwork PROVE IInv'
<1>1. /\ enabled' = FALSE /\ pipeline' = <<>> /\ Len(pipeline') = 0
      /\ pipeline' \in Seq(Writes)
  BY EmptyHasNoElements DEF DisableNetwork
<1>2. PipelineIsOldestPart'
  BY <1>1 DEF PipelineIsOldestPart
<1>3. /\ queue' = queue /\ made' = made /\ outcome' = outcome /\ told' = told
      /\ launches' = launches /\ doc' = doc /\ applied' = applied /\ refused' = refused
      /\ callbacks' = callbacks /\ asked' = asked
  BY DEF DisableNetwork, serverVars, historyVars
<1>4. CASE stream \in Started
  <2>1. CloseGracefully
    BY <1>4 DEF DisableNetwork, StopStream
  <2>2. closeCount' \in Nat /\ asked' \subseteq 0..closeCount' /\ closeCount' \notin asked'
    BY <1>3, <2>1, Typing DEF CloseGracefully
  <2>3. CredentialsAreOfThisStart'
    BY <2>1, <2>2 DEF CredentialsAreOfThisStart, CloseGracefully
  <2> QED
    BY <1>1, <1>2, <1>3, <2>1, <2>2, <2>3, CallIsOver, Typing, ToldStands
    DEF CloseGracefully, Streams, Started
<1>5. CASE stream \notin Started
  <2>1. UNCHANGED <<closeCount, stream, handshake, idle, callVars>>
    BY <1>5 DEF DisableNetwork, StopStream
  <2>2. stream # "Open" /\ handshake' = FALSE /\ idle' = FALSE
    BY <1>5, <2>1, Typing DEF IInv, CallBegins, Started
  <2>3. Disconnected
    BY <1>5, <2>1 DEF IInv, CallBegins, Started, Disconnected, callVars
  <2>4. CredentialsAreOfThisStart'
    BY <1>3, <2>1 DEF IInv, CredentialsAreOfThisStart
  <2> QED
    BY <1>1, <1>2, <1>3, <1>5, <2>1, <2>2, <2>3, <2>4, CallIsOver, Typing, ToldStands
<1> QED BY <1>4, <1>5

LEMMA RestartNetworkKeeps == ASSUME IInv, RestartNetwork PROVE IInv'
<1>1. /\ enabled' = TRUE /\ pipeline' = Refilled(<<>>, queue', TRUE)
      /\ handshake' = FALSE /\ idle' = FALSE /\ Disconnected
      /\ queue' = queue /\ made' = made /\ outcome' = outcome /\ told' = told
      /\ launches' = launches /\ doc' = doc /\ applied' = applied /\ refused' = refused
      /\ callbacks' = callbacks
      /\ StartIfNeeded("Initial", pipeline', TRUE, asked)
  BY DEF RestartNetwork, serverVars, historyVars
<1>2. pipeline' \in Seq(Writes) /\ PipelineIsOldestPart'
  BY <1>1, FillsAnew
<1>3. /\ closeCount' \in Nat /\ asked \subseteq 0..closeCount'
      /\ (closeCount' \in asked) <=> ("Initial" = "Starting")
  <2>1. CASE stream \in Started
    BY <2>1, Typing DEF RestartNetwork
  <2>2. CASE stream \notin Started
    <3>1. closeCount' = closeCount /\ closeCount \notin asked
      BY <2>2 DEF RestartNetwork, IInv, CredentialsAreOfThisStart, Started
    <3> QED BY <3>1, Typing
  <2> QED BY <2>1, <2>2
<1>4. /\ stream' \in Streams /\ asked' \subseteq 0..closeCount' /\ CredentialsAreOfThisStart'
      /\ stream' # "Open" /\ (enabled' /\ Len(pipeline') > 0 => stream' \in Started)
  BY <1>1, <1>2, <1>3, StartsIfNeeded, "Initial" \in Streams, "Initial" # "Open" DEF Streams
<1> QED BY <1>1, <1>2, <1>3, <1>4, CallIsOver, Typing, ToldStands

\* Starting anew with what is on disk.
LEMMA LaunchedKeeps ==
    ASSUME IInv, Launched,
           queue' = queue, made' = made, outcome' = outcome,
           UNCHANGED serverVars,
           told' \in [Writes -> Outcomes],
           \A n \in Writes : told'[n] = "ok" => n \in applied /\ doc >= n /\ n <= Gone + 1
    PROVE  IInv'
<1>1. pipeline' \in Seq(Writes) /\ PipelineIsOldestPart'
  BY FillsAnew DEF Launched
<1>2. /\ enabled' = TRUE /\ callbacks' \subseteq Writes /\ closeCount' = 0
      /\ handshake' = FALSE /\ idle' = FALSE /\ Disconnected /\ launches' \in Nat
      /\ doc' = doc /\ applied' = applied /\ refused' = refused
  BY Typing DEF Launched, serverVars
<1>3. /\ stream' \in Streams /\ stream' # "Open" /\ CredentialsAreOfThisStart'
      /\ asked' \subseteq 0..closeCount'
      /\ (Len(pipeline') > 0 => stream' \in Started)
  <2>1. CASE pipeline' = <<>>
    <3>1. stream' = "Initial" /\ asked' = {} /\ Len(pipeline') = 0
      BY <2>1, EmptyHasNoElements DEF Launched
    <3> QED BY <3>1 DEF CredentialsAreOfThisStart, Streams
  <2>2. CASE pipeline' # <<>>
    <3>1. stream' = "Starting" /\ asked' = {0}
      BY <2>2 DEF Launched
    <3> QED BY <3>1, <1>2 DEF CredentialsAreOfThisStart, Streams, Started
  <2> QED BY <2>1, <2>2
<1> QED
  BY <1>1, <1>2, <1>3, CallIsOver

LEMMA RelaunchKeeps == ASSUME IInv, Relaunch PROVE IInv'
  BY LaunchedKeeps, Typing, ToldStands DEF Relaunch

LEMMA RelaunchBeforeRemovalKeeps == ASSUME IInv, RelaunchBeforeRemoval PROVE IInv'
<1>1. /\ Len(replies) > 0 /\ Len(pipeline) > 0 /\ handshake /\ Head(pipeline) \in Writes
      /\ Head(pipeline) = pipeline[1]
  BY Typing, StoreFacts, NonEmpty, TailShifts DEF RelaunchBeforeRemoval, Ready
<1>2. /\ replies[1] = pipeline[1] /\ replies[1] \in applied /\ doc >= replies[1]
      /\ pipeline[1] = Gone + 1
  BY <1>1, Typing, StoreFacts DEF IInv, WireIsPipeline, AnsweredIsApplied
<1>3. told' = [told EXCEPT ![Head(pipeline)] = "ok"]
  BY DEF RelaunchBeforeRemoval
<1>4. told' \in [Writes -> Outcomes]
  BY <1>1, <1>3, Typing DEF Outcomes
<1>5. \A n \in Writes : told'[n] = "ok" => n \in applied /\ doc >= n /\ n <= Gone + 1
  <2> SUFFICES ASSUME NEW n \in Writes, told'[n] = "ok"
               PROVE  n \in applied /\ doc >= n /\ n <= Gone + 1
    OBVIOUS
  <2>1. CASE n = Head(pipeline)
    BY <2>1, <1>1, <1>2, StoreFacts
  <2>2. CASE n # Head(pipeline)
    BY <2>2, <1>3, Typing, ToldStands
  <2> QED BY <2>1, <2>2
<1> QED
  BY <1>4, <1>5, LaunchedKeeps DEF RelaunchBeforeRemoval

\* A stream that ends with an error settles the front of the pipeline if the
\* error is permanent, and nothing otherwise.
LEMMA CloseWithErrorKeeps ==
    ASSUME IInv,
           NEW status \in {"transient", "permanent"}, NEW open, open \subseteq asked,
           closeCount + 1 \notin open,
           status = "permanent" => stream = "Open" /\ ended = "permanent",
           CloseWithError(status, open)
    PROVE  IInv'
<1>1. /\ closeCount' = closeCount + 1 /\ handshake' = FALSE /\ idle' = FALSE /\ Disconnected
      /\ StartIfNeeded(FailedState(status), pipeline', enabled, open)
      /\ enabled' = enabled /\ doc' = doc /\ applied' = applied /\ refused' = refused
      /\ made' = made /\ launches' = launches
  BY DEF CloseWithError, serverVars
<1>2. /\ closeCount' \in Nat /\ open \subseteq 0..closeCount' /\ closeCount' \notin open
      /\ FailedState(status) \in {"Initial", "Error"}
  BY <1>1, Typing DEF FailedState
<1>3. ASSUME pipeline' \in Seq(Writes)
      PROVE
      /\ stream' \in Streams /\ asked' \subseteq 0..closeCount' /\ CredentialsAreOfThisStart'
      /\ stream' # "Open" /\ (~enabled' => stream' \notin Started)
      /\ (enabled' /\ Len(pipeline') > 0 => stream' \in Started)
  <2>1. /\ FailedState(status) \in {"Initial", "Starting", "Open", "Error", "Backoff"}
        /\ (closeCount' \in open) <=> (FailedState(status) = "Starting")
        /\ FailedState(status) # "Open" /\ FailedState(status) \notin Started
    BY <1>2 DEF Started
  <2> QED BY <1>1, <1>2, <1>3, <2>1, StartsIfNeeded, Typing DEF Streams
<1>4. CASE ~FailsFront(status)
  <2>1. /\ queue' = queue /\ outcome' = outcome /\ told' = told /\ callbacks' = callbacks
        /\ pipeline' = pipeline
    BY <1>4 DEF CloseWithError
  <2>2. pipeline' \in Seq(Writes) /\ PipelineIsOldestPart'
    BY <1>1, <2>1, StoreFacts DEF IInv, PipelineIsOldestPart
  <2> QED BY <1>1, <1>2, <1>3, <2>1, <2>2, CallIsOver, Typing, ToldStands
<1>5. CASE FailsFront(status)
  <2> DEFINE n == Head(pipeline)
  <2>1. handshake /\ ended = "permanent" /\ Len(pipeline) > 0
    BY <1>5, StoreFacts, NonEmpty DEF FailsFront
  <2>2. /\ queue' = Tail(queue) /\ outcome' = [outcome EXCEPT ![n] = "error"]
        /\ NotifyUser(n, "error") /\ pipeline' = Refilled(Tail(pipeline), queue', enabled')
    BY <1>1, <1>5 DEF CloseWithError
  <2>3. /\ queue' \in Seq(Writes) /\ pipeline' \in Seq(Writes)
        /\ QueueIsRun' /\ PipelineIsOldestPart'
        /\ Gone' = Gone + 1 /\ n = Gone + 1 /\ n \in Writes
    BY <1>1, <2>1, <2>2, SettlesFront
  <2>4. /\ callbacks' \subseteq Writes /\ outcome' \in [Writes -> Outcomes]
        /\ told' \in [Writes -> Outcomes]
        /\ \A k \in Writes : told'[k] = "ok" => told[k] = "ok"
        /\ \A k \in Writes : outcome'[k] = IF k = n THEN "error" ELSE outcome[k]
    <3> HIDE DEF n
    <3>1. /\ callbacks' \subseteq Writes /\ outcome' \in [Writes -> Outcomes]
          /\ \A k \in Writes : outcome'[k] = IF k = n THEN "error" ELSE outcome[k]
      BY <2>2, <2>3, Typing DEF NotifyUser, Outcomes
    <3>2. told' = told \/ told' = [told EXCEPT ![n] = "error"]
      BY <2>2 DEF NotifyUser
    <3> QED BY <3>1, <3>2, <2>3, Typing DEF Outcomes
  <2>5. /\ requests' \in Seq(Writes \cup {Hello}) /\ replies' \in Seq(Writes \cup {Hello})
        /\ requests' = <<>> /\ replies' = <<>> /\ ended' = "no"
    BY <1>1, EmptyHasNoElements DEF Disconnected
  <2> HIDE DEF n
  <2>6. TypeOK'
    BY <1>1, <1>2, <1>3, <2>3, <2>4, <2>5, Typing DEF TypeOK, Streams
  <2>7. CallBegins' /\ WireIsPipeline' /\ RefusedIsNext' /\ TimerAndNetwork'
    BY <1>1, <1>3, <2>3, <2>5 DEF CallBegins, WireIsPipeline, RefusedIsNext, TimerAndNetwork
  <2>8. OutcomesInOrder'
    <3> SUFFICES ASSUME NEW k \in Writes
                 PROVE  (outcome'[k] = "none") <=> (k > Gone')
      BY DEF OutcomesInOrder
    <3>1. (outcome[k] = "none") <=> (k > Gone)
      BY DEF IInv, OutcomesInOrder
    <3>2. k \in Nat /\ Gone \in Nat
      BY StoreFacts DEF Writes
    <3> QED BY <2>3, <2>4, <3>1, <3>2
  <2>9. AnsweredIsApplied'
    <3>1. \A k \in Writes : outcome'[k] = "ok" => k \in applied' /\ doc' >= k
      BY <1>1, <2>4 DEF IInv, AnsweredIsApplied
    <3>2. \A k \in Writes : told'[k] = "ok" => k \in applied' /\ doc' >= k /\ k <= Gone' + 1
      <4>1. \A k \in Writes : k \in Nat
        BY DEF Writes
      <4> QED BY <1>1, <2>3, <2>4, <4>1, StoreFacts, ToldStands
    <3> QED BY <1>1, <3>1, <3>2 DEF AnsweredIsApplied
  <2>10. RejectionHasCause'
    <3>1. /\ Len(replies) + 1 \in 1..Len(pipeline) /\ pipeline[Len(replies) + 1] \in refused
          /\ pipeline[Len(replies) + 1] = Gone + (Len(replies) + 1)
      BY <2>1, StoreFacts, Typing DEF IInv, RefusedIsNext
    <3>2. pipeline[Len(replies) + 1] >= n
      BY <3>1, <2>3, StoreFacts, Typing
    <3> QED BY <1>1, <2>4, <3>1, <3>2 DEF IInv, RejectionHasCause
  <2> QED BY <2>3, <2>6, <2>7, <2>8, <2>9, <2>10, <1>3 DEF IInv
<1> QED BY <1>4, <1>5

LEMMA TokenFailsKeeps == ASSUME IInv, TokenFails PROVE IInv'
<1>1. closeCount + 1 \notin asked \ {closeCount}
  BY Typing
<1> QED BY <1>1, CloseWithErrorKeeps DEF TokenFails

LEMMA FinishKeeps == ASSUME IInv, Finish PROVE IInv'
<1>1. closeCount + 1 \notin asked
  BY Typing
<1>2. ended \in {"transient", "permanent"} /\ stream = "Open" /\ CloseWithError(ended, asked)
  BY Typing DEF Finish
<1> QED BY <1>1, <1>2, CloseWithErrorKeeps

LEMMA EnableNetworkKeeps == ASSUME IInv, EnableNetwork PROVE IInv'
<1>1. /\ ~enabled /\ enabled' = TRUE /\ pipeline' = Refilled(pipeline, queue, TRUE)
      /\ closeCount' = closeCount /\ StartIfNeeded(stream, pipeline', TRUE, asked)
      /\ queue' = queue /\ made' = made /\ outcome' = outcome /\ told' = told
      /\ launches' = launches /\ doc' = doc /\ applied' = applied /\ refused' = refused
      /\ callbacks' = callbacks /\ handshake' = handshake /\ idle' = idle
      /\ requests' = requests /\ replies' = replies /\ ended' = ended
  BY DEF EnableNetwork, callVars, serverVars, historyVars
<1>2. stream \notin Started /\ stream # "Open" /\ Len(pipeline) = 0
  BY <1>1, StoreFacts DEF IInv, TimerAndNetwork, Started
<1>3. /\ handshake' = FALSE /\ idle' = FALSE /\ Disconnected
  BY <1>1, <1>2, Typing DEF IInv, CallBegins, Disconnected
<1>4. pipeline = <<>>
  BY <1>2, StoreFacts, NonEmpty
<1>5. pipeline' \in Seq(Writes) /\ PipelineIsOldestPart'
  BY <1>1, <1>4, FillsAnew
<1>6. /\ closeCount' \in Nat /\ asked \subseteq 0..closeCount'
      /\ (closeCount' \in asked) <=> (stream = "Starting")
  BY <1>1, Typing DEF IInv, CredentialsAreOfThisStart
<1>7. /\ stream' \in Streams /\ asked' \subseteq 0..closeCount' /\ CredentialsAreOfThisStart'
      /\ stream' # "Open" /\ (enabled' /\ Len(pipeline') > 0 => stream' \in Started)
  BY <1>1, <1>2, <1>5, <1>6, StartsIfNeeded, Typing DEF Streams
<1> QED BY <1>1, <1>3, <1>5, <1>7, CallIsOver, Typing, ToldStands

LEMMA BackoffElapsedKeeps == ASSUME IInv, BackoffElapsed PROVE IInv'
<1>1. /\ stream = "Backoff" /\ stream' = "Starting" /\ asked' = asked \cup {closeCount}
      /\ closeCount' = closeCount /\ enabled' = enabled /\ pipeline' = pipeline
      /\ queue' = queue /\ made' = made /\ outcome' = outcome /\ told' = told
      /\ launches' = launches /\ doc' = doc /\ applied' = applied /\ refused' = refused
      /\ callbacks' = callbacks /\ handshake' = handshake /\ idle' = idle
      /\ requests' = requests /\ replies' = replies /\ ended' = ended
  BY DEF BackoffElapsed, callVars, serverVars, historyVars
<1>2. handshake' = FALSE /\ idle' = FALSE /\ Disconnected
  BY <1>1, Typing DEF IInv, CallBegins, Disconnected
<1>3. /\ closeCount' \in Nat /\ asked' \subseteq 0..closeCount' /\ CredentialsAreOfThisStart'
  BY <1>1, Typing DEF CredentialsAreOfThisStart
<1>4. enabled
  BY <1>1 DEF IInv, TimerAndNetwork, Started
<1>5. pipeline' \in Seq(Writes) /\ PipelineIsOldestPart'
  BY <1>1, StoreFacts DEF IInv, PipelineIsOldestPart
<1> QED
  BY <1>1, <1>2, <1>3, <1>4, <1>5, CallIsOver, Typing, ToldStands DEF Streams, Started

\* A step that leaves the queue, the pipeline and what was settled alone.
LEMMA StoreUntouched ==
    ASSUME IInv, queue' = queue, made' = made, enabled' = enabled, pipeline' = pipeline,
           outcome' = outcome
    PROVE  /\ QueueIsRun' /\ PipelineIsOldestPart' /\ OutcomesInOrder' /\ Gone' = Gone
           /\ queue' \in Seq(Writes) /\ pipeline' \in Seq(Writes)
  BY StoreFacts
  DEF IInv, QueueIsRun, PipelineIsOldestPart, OutcomesInOrder, Gone

LEMMA ResumeStartKeeps ==
    ASSUME IInv, NEW count, ResumeStart(count) PROVE IInv'
<1>1. /\ count \in asked /\ asked' = asked \ {count}
      /\ closeCount' = closeCount /\ enabled' = enabled /\ pipeline' = pipeline
      /\ queue' = queue /\ made' = made /\ outcome' = outcome /\ told' = told
      /\ launches' = launches /\ doc' = doc /\ applied' = applied /\ refused' = refused
      /\ callbacks' = callbacks /\ handshake' = handshake /\ idle' = idle
      /\ replies' = replies /\ ended' = ended
  BY DEF ResumeStart, serverVars, historyVars
<1>2. /\ QueueIsRun' /\ PipelineIsOldestPart' /\ OutcomesInOrder' /\ Gone' = Gone
      /\ queue' \in Seq(Writes) /\ pipeline' \in Seq(Writes)
  BY <1>1, StoreUntouched
<1>3. CASE count = closeCount
  <2>1. stream = "Starting" /\ stream' = "Open" /\ requests' = <<Hello>>
    BY <1>1, <1>3 DEF ResumeStart, IInv, CredentialsAreOfThisStart
  <2>2. /\ ~handshake /\ ~idle /\ replies = <<>> /\ ended = "no" /\ enabled
    BY <2>1, Typing DEF IInv, CallBegins, TimerAndNetwork, Started
  <2>3. /\ requests' \in Seq(Writes \cup {Hello}) /\ Len(requests') = 1
        /\ \A i \in 1..Len(requests') : requests'[i] = Hello
    BY <2>1
  <2>4. Len(replies') = 0 /\ replies' \in Seq(Writes \cup {Hello})
    BY <1>1, <2>2, EmptyHasNoElements
  <2>5. TypeOK'
    BY <1>1, <1>2, <2>1, <2>3, <2>4, Typing DEF TypeOK, Streams
  <2>6. CallBegins'
    BY <1>1, <2>1, <2>2, <2>3, <2>4 DEF CallBegins
  <2>7. WireIsPipeline' /\ RefusedIsNext' /\ TimerAndNetwork'
    BY <1>1, <2>1, <2>2 DEF WireIsPipeline, RefusedIsNext, TimerAndNetwork, Started
  <2>8. CredentialsAreOfThisStart'
    BY <1>1, <1>3, <2>1 DEF CredentialsAreOfThisStart
  <2>9. AnsweredIsApplied' /\ RejectionHasCause'
    BY <1>1, <1>2, <2>2 DEF IInv, AnsweredIsApplied, RejectionHasCause
  <2> QED BY <1>2, <2>5, <2>6, <2>7, <2>8, <2>9 DEF IInv
<1>4. CASE count # closeCount
  <2>1. stream' = stream /\ requests' = requests
    BY <1>4 DEF ResumeStart
  <2>2. TypeOK'
    BY <1>1, <1>2, <2>1, Typing DEF TypeOK, Streams
  <2>3. CallBegins' /\ WireIsPipeline' /\ RefusedIsNext' /\ TimerAndNetwork'
    BY <1>1, <2>1 DEF IInv, CallBegins, WireIsPipeline, RefusedIsNext, TimerAndNetwork
  <2>4. CredentialsAreOfThisStart'
    BY <1>1, <1>4, <2>1 DEF IInv, CredentialsAreOfThisStart
  <2>5. AnsweredIsApplied' /\ RejectionHasCause'
    BY <1>1, <1>2 DEF IInv, AnsweredIsApplied, RejectionHasCause
  <2> QED BY <1>2, <2>2, <2>3, <2>4, <2>5 DEF IInv
<1> QED BY <1>3, <1>4

LEMMA HandshakeCompleteKeeps == ASSUME IInv, HandshakeComplete PROVE IInv'
<1>1. /\ stream = "Open" /\ ~handshake /\ handshake' = TRUE
      /\ replies # <<>> /\ replies' = Tail(replies) /\ requests' = requests \o pipeline
      /\ idle' = (idle /\ pipeline = <<>>)
      /\ stream' = stream /\ asked' = asked /\ ended' = ended
      /\ closeCount' = closeCount /\ enabled' = enabled /\ pipeline' = pipeline
      /\ queue' = queue /\ made' = made /\ outcome' = outcome /\ told' = told
      /\ launches' = launches /\ doc' = doc /\ applied' = applied /\ refused' = refused
      /\ callbacks' = callbacks
  BY DEF HandshakeComplete, serverVars, historyVars
<1>2. /\ QueueIsRun' /\ PipelineIsOldestPart' /\ OutcomesInOrder' /\ Gone' = Gone
      /\ queue' \in Seq(Writes) /\ pipeline' \in Seq(Writes)
  BY <1>1, StoreUntouched
<1>3. Len(replies) = 1 /\ Len(replies') = 0 /\ replies' \in Seq(Writes \cup {Hello})
  <2>1. Len(replies) <= 1 /\ Len(replies) > 0
    BY <1>1, Typing, NonEmpty DEF IInv, CallBegins
  <2>2. Len(Tail(replies)) = Len(replies) - 1 /\ Tail(replies) \in Seq(Writes \cup {Hello})
    BY <2>1, Typing, TailShifts
  <2>3. Len(replies) \in Nat
    BY Typing
  <2> QED BY <1>1, <2>1, <2>2, <2>3
<1>4. ended # "permanent" /\ (ended = "no" => Len(requests) = 0)
  BY <1>1, <1>3, Typing DEF IInv, CallBegins
<1>5. /\ requests' \in Seq(Writes \cup {Hello})
      /\ Len(requests') = Len(requests) + Len(pipeline)
      /\ \A i \in 1..Len(pipeline) : requests'[Len(requests) + i] = pipeline[i]
  <2>1. pipeline \in Seq(Writes \cup {Hello})
    BY StoreFacts
  <2> QED BY <1>1, <2>1, Typing, ConcatShifts
<1>6. idle' \in BOOLEAN /\ (idle' => idle)
  BY <1>1
<1>7. TypeOK'
  BY <1>1, <1>2, <1>3, <1>5, <1>6, Typing DEF TypeOK, Streams
<1>8. CallBegins' /\ RefusedIsNext'
  BY <1>1, <1>4 DEF CallBegins, RefusedIsNext
<1>9. WireIsPipeline'
  <2>1. ended' = "no" =>
          /\ Len(replies') + Len(requests') = Len(pipeline')
          /\ \A i \in 1..Len(requests') : requests'[i] = pipeline'[Len(replies') + i]
    BY <1>1, <1>3, <1>4, <1>5, StoreFacts
  <2> QED BY <1>1, <1>2, <1>3, <2>1, StoreFacts DEF WireIsPipeline
<1>10. CredentialsAreOfThisStart' /\ TimerAndNetwork'
  BY <1>1, <1>6 DEF IInv, CredentialsAreOfThisStart, TimerAndNetwork
<1>11. AnsweredIsApplied' /\ RejectionHasCause'
  BY <1>1, <1>2, <1>3 DEF IInv, AnsweredIsApplied, RejectionHasCause
<1> QED BY <1>2, <1>7, <1>8, <1>9, <1>10, <1>11 DEF IInv

\* A step of the call alone: the device keeps what it has.
LEMMA DeviceUntouched ==
    ASSUME IInv, UNCHANGED <<queue, clientVars, callbacks, historyVars>>
    PROVE  /\ QueueIsRun' /\ PipelineIsOldestPart' /\ OutcomesInOrder' /\ Gone' = Gone
           /\ CredentialsAreOfThisStart' /\ TimerAndNetwork'
           /\ queue' = queue /\ pipeline' = pipeline /\ handshake' = handshake
           /\ stream' = stream /\ outcome' = outcome /\ told' = told
<1>1. /\ queue' = queue /\ pipeline' = pipeline /\ handshake' = handshake
      /\ stream' = stream /\ outcome' = outcome /\ told' = told /\ made' = made
      /\ enabled' = enabled /\ idle' = idle /\ closeCount' = closeCount /\ asked' = asked
  BY DEF clientVars, historyVars
<1>2. CredentialsAreOfThisStart' /\ TimerAndNetwork'
  BY <1>1 DEF IInv, CredentialsAreOfThisStart, TimerAndNetwork
<1> QED BY <1>1, <1>2, StoreUntouched

\* The first answers arrive, the later ones do not.
LEMMA ConnectionLostKeeps == ASSUME IInv, ConnectionLost PROVE IInv'
<1> PICK k \in 0..Len(replies) : replies' = SubSeq(replies, 1, k)
  BY DEF ConnectionLost
<1>1. /\ stream = "Open" /\ ended = "no" /\ ended' = "transient" /\ requests' = requests
      /\ doc' = doc /\ applied' = applied /\ refused' = refused
      /\ UNCHANGED <<queue, clientVars, callbacks, historyVars>>
  BY DEF ConnectionLost, serverVars
<1>2. /\ QueueIsRun' /\ PipelineIsOldestPart' /\ OutcomesInOrder' /\ Gone' = Gone
      /\ CredentialsAreOfThisStart' /\ TimerAndNetwork'
      /\ queue' = queue /\ pipeline' = pipeline /\ handshake' = handshake
      /\ stream' = stream /\ outcome' = outcome /\ told' = told
  BY <1>1, DeviceUntouched
<1>3. /\ replies' \in Seq(Writes \cup {Hello}) /\ Len(replies') = k
      /\ \A i \in 1..k : replies'[i] = replies[i]
  <2>1. Len(replies) \in Nat /\ k \in Nat /\ k <= Len(replies)
    BY Typing
  <2>2. \A i \in 1..k : replies[i] \in Writes \cup {Hello}
    BY <2>1, Typing
  <2>3. /\ SubSeq(replies, 1, k) \in Seq(Writes \cup {Hello})
        /\ Len(SubSeq(replies, 1, k)) = IF 1 <= k THEN k - 1 + 1 ELSE 0
        /\ \A i \in 1..(k - 1 + 1) : SubSeq(replies, 1, k)[i] = replies[1 + i - 1]
    BY <2>1, <2>2, SubSeqProperties
  <2>4. (IF 1 <= k THEN k - 1 + 1 ELSE 0) = k /\ k - 1 + 1 = k
    BY <2>1
  <2>5. \A i \in 1..k : 1 + i - 1 = i
    BY <2>1
  <2> QED BY <2>3, <2>4, <2>5
<1>4. k \in Nat /\ Len(replies) \in Nat /\ k <= Len(replies)
  BY Typing
<1>5. TypeOK'
  BY <1>1, <1>2, <1>3, Typing, StoreFacts DEF TypeOK, Streams, clientVars, historyVars
<1>6. CallBegins' /\ RefusedIsNext'
  BY <1>1, <1>2, <1>3, <1>4 DEF IInv, CallBegins, RefusedIsNext
<1>7. WireIsPipeline'
  BY <1>1, <1>2, <1>3, <1>4, StoreFacts DEF IInv, WireIsPipeline
<1>8. AnsweredIsApplied' /\ RejectionHasCause'
  BY <1>1, <1>2, <1>3, <1>4 DEF IInv, AnsweredIsApplied, RejectionHasCause
<1> QED BY <1>2, <1>5, <1>6, <1>7, <1>8 DEF IInv

\* The request that is next is the handshake, or the write of the pipeline after
\* the answered ones.
LEMMA NextRequest ==
    ASSUME IInv, stream = "Open", ended = "no", requests # <<>>
    PROVE  /\ Len(requests) > 0 /\ Head(requests) = requests[1]
           /\ Tail(requests) \in Seq(Writes \cup {Hello})
           /\ Len(Tail(requests)) = Len(requests) - 1
           /\ \A i \in 1..(Len(requests) - 1) : Tail(requests)[i] = requests[i + 1]
           /\ ~handshake => /\ Head(requests) = Hello /\ Len(requests) = 1
                            /\ Len(replies) = 0
           /\ handshake => /\ Len(replies) + 1 \in 1..Len(pipeline)
                           /\ Head(requests) = pipeline[Len(replies) + 1]
                           /\ Head(requests) = Gone + (Len(replies) + 1)
                           /\ Head(requests) \in Writes /\ Head(requests) # Hello
<1>1. Len(requests) > 0
  BY Typing, NonEmpty
<1>2. /\ Head(requests) = requests[1] /\ Tail(requests) \in Seq(Writes \cup {Hello})
      /\ Len(Tail(requests)) = Len(requests) - 1
      /\ \A i \in 1..(Len(requests) - 1) : Tail(requests)[i] = requests[i + 1]
  BY <1>1, Typing, TailShifts
<1>3. Len(requests) \in Nat /\ Len(replies) \in Nat
  BY Typing
<1>4. ASSUME ~handshake
      PROVE  Head(requests) = Hello /\ Len(requests) = 1 /\ Len(replies) = 0
  <2>1. /\ Len(requests) + Len(replies) = 1
        /\ \A i \in 1..Len(requests) : requests[i] = Hello
    BY <1>4 DEF IInv, CallBegins
  <2> QED BY <2>1, <1>1, <1>2, <1>3
<1>5. ASSUME handshake
      PROVE  /\ Len(replies) + 1 \in 1..Len(pipeline)
             /\ Head(requests) = pipeline[Len(replies) + 1]
             /\ Head(requests) = Gone + (Len(replies) + 1)
             /\ Head(requests) \in Writes /\ Head(requests) # Hello
  <2>1. /\ Len(replies) + Len(requests) = Len(pipeline)
        /\ \A i \in 1..Len(requests) : requests[i] = pipeline[Len(replies) + i]
    BY <1>5 DEF IInv, WireIsPipeline
  <2>2. Len(replies) + 1 \in 1..Len(pipeline) /\ requests[1] = pipeline[Len(replies) + 1]
    BY <2>1, <1>1, <1>3
  <2>3. /\ pipeline[Len(replies) + 1] \in Writes
        /\ pipeline[Len(replies) + 1] = Gone + (Len(replies) + 1)
    BY <2>2, StoreFacts
  <2>4. \A n \in Writes : n # Hello
    BY DEF Writes, Hello
  <2> QED BY <1>2, <2>2, <2>3, <2>4
<1> QED BY <1>1, <1>2, <1>4, <1>5

LEMMA ServerRefusesKeeps == ASSUME IInv, ServerRefuses PROVE IInv'
<1>1. /\ stream = "Open" /\ ended = "no" /\ ended' = "permanent" /\ requests # <<>>
      /\ requests' = Tail(requests) /\ refused' = refused \cup ({Head(requests)} \ {Hello})
      /\ replies' = replies /\ doc' = doc /\ applied' = applied
      /\ UNCHANGED <<queue, clientVars, callbacks, historyVars>>
  BY DEF ServerRefuses
<1>2. /\ QueueIsRun' /\ PipelineIsOldestPart' /\ OutcomesInOrder' /\ Gone' = Gone
      /\ CredentialsAreOfThisStart' /\ TimerAndNetwork'
      /\ queue' = queue /\ pipeline' = pipeline /\ handshake' = handshake
      /\ stream' = stream /\ outcome' = outcome /\ told' = told
  BY <1>1, DeviceUntouched
<1>3. refused \subseteq refused' /\ refused' \subseteq Writes
  <2>1. Head(requests) = Hello \/ Head(requests) \in Writes
    BY <1>1, NextRequest, Typing
  <2> QED BY <1>1, <2>1, Typing
<1>4. requests' \in Seq(Writes \cup {Hello})
  BY <1>1, NextRequest
<1>5. TypeOK'
  BY <1>1, <1>2, <1>3, <1>4, Typing, StoreFacts DEF TypeOK, Streams, clientVars, historyVars
<1>6. CallBegins'
  <2>1. ~handshake => Len(replies) = 0
    BY <1>1, NextRequest
  <2> QED BY <1>1, <1>2, <2>1 DEF CallBegins
<1>7. RefusedIsNext'
  <2>1. ASSUME handshake
        PROVE  Len(replies) < Len(pipeline) /\ pipeline[Len(replies) + 1] \in refused'
    <3>1. /\ Len(replies) + 1 \in 1..Len(pipeline) /\ Head(requests) # Hello
          /\ Head(requests) = pipeline[Len(replies) + 1]
      BY <1>1, <2>1, NextRequest
    <3>2. pipeline[Len(replies) + 1] \in refused'
      BY <1>1, <3>1
    <3>3. Len(replies) \in Nat /\ Len(pipeline) \in Nat
      BY Typing, StoreFacts
    <3> QED BY <3>1, <3>2, <3>3
  <2> QED BY <1>1, <1>2, <2>1 DEF RefusedIsNext
<1>8. WireIsPipeline'
  BY <1>1, <1>2 DEF IInv, WireIsPipeline
<1>9. AnsweredIsApplied' /\ RejectionHasCause'
  BY <1>1, <1>2, <1>3 DEF IInv, AnsweredIsApplied, RejectionHasCause
<1> QED BY <1>2, <1>5, <1>6, <1>7, <1>8, <1>9 DEF IInv

LEMMA AppendAdds ==
    ASSUME NEW S, NEW q \in Seq(S), NEW e \in S
    PROVE  /\ Append(q, e) \in Seq(S) /\ Len(Append(q, e)) = Len(q) + 1
           /\ \A i \in 1..Len(q) : Append(q, e)[i] = q[i]
           /\ Append(q, e)[Len(q) + 1] = e
    OBVIOUS

LEMMA ServerAppliesKeeps == ASSUME IInv, ServerApplies PROVE IInv'
<1> DEFINE h == Head(requests)
<1>1. /\ stream = "Open" /\ ended = "no" /\ ended' = "no" /\ requests # <<>>
      /\ requests' = Tail(requests) /\ replies' = Append(replies, h) /\ refused' = refused
      /\ UNCHANGED <<queue, clientVars, callbacks, historyVars>>
  BY DEF ServerApplies, serverVars
<1>2. /\ QueueIsRun' /\ PipelineIsOldestPart' /\ OutcomesInOrder' /\ Gone' = Gone
      /\ CredentialsAreOfThisStart' /\ TimerAndNetwork'
      /\ queue' = queue /\ pipeline' = pipeline /\ handshake' = handshake
      /\ stream' = stream /\ outcome' = outcome /\ told' = told
  BY <1>1, DeviceUntouched
<1>3. /\ h \in Writes \cup {Hello} /\ requests' \in Seq(Writes \cup {Hello})
      /\ Len(requests') = Len(requests) - 1
      /\ \A i \in 1..Len(requests') : requests'[i] = requests[i + 1]
  BY <1>1, NextRequest, Typing
<1>4. /\ replies' \in Seq(Writes \cup {Hello}) /\ Len(replies') = Len(replies) + 1
      /\ \A i \in 1..Len(replies) : replies'[i] = replies[i]
      /\ replies'[Len(replies) + 1] = h
  BY <1>1, <1>3, Typing, AppendAdds
<1>5. Len(replies) \in Nat /\ Len(requests) \in Nat /\ Len(pipeline) \in Nat
  BY Typing, StoreFacts
<1>6. RefusedIsNext'
  BY <1>1 DEF RefusedIsNext
<1>7. CASE ~handshake
  <2>1. h = Hello /\ Len(requests) = 1 /\ Len(replies) = 0
    BY <1>1, <1>7, NextRequest
  <2>2. doc' = doc /\ applied' = applied
    BY <2>1 DEF ServerApplies, serverVars
  <2> HIDE DEF h
  <2>3. TypeOK'
    BY <1>1, <1>2, <1>3, <1>4, <2>2, Typing, StoreFacts
    DEF TypeOK, Streams, clientVars, historyVars
  <2>4. CallBegins'
    BY <1>1, <1>2, <1>3, <1>4, <1>7, <2>1 DEF CallBegins
  <2>5. WireIsPipeline'
    BY <1>2, <1>7 DEF WireIsPipeline
  <2>6. AnsweredIsApplied' /\ RejectionHasCause'
    BY <1>1, <1>2, <1>7, <2>2 DEF IInv, AnsweredIsApplied, RejectionHasCause
  <2> QED BY <1>2, <1>6, <2>3, <2>4, <2>5, <2>6 DEF IInv
<1>8. CASE handshake
  <2>1. /\ Len(replies) + 1 \in 1..Len(pipeline) /\ h = pipeline[Len(replies) + 1]
        /\ h = Gone + (Len(replies) + 1) /\ h \in Writes /\ h # Hello
    BY <1>1, <1>8, NextRequest
  <2>2. doc' = h /\ applied' = applied \cup {h}
    BY <2>1 DEF ServerApplies
  <2> HIDE DEF h
  <2>3. TypeOK'
    BY <1>1, <1>2, <1>3, <1>4, <2>1, <2>2, Typing, StoreFacts
    DEF TypeOK, Streams, clientVars, historyVars
  <2>4. CallBegins'
    BY <1>1, <1>2, <1>8 DEF CallBegins
  <2>5. WireIsPipeline'
    <3>1. /\ Len(replies) <= Len(pipeline)
          /\ \A i \in 1..Len(replies) : replies[i] = pipeline[i]
          /\ Len(replies) + Len(requests) = Len(pipeline)
          /\ \A i \in 1..Len(requests) : requests[i] = pipeline[Len(replies) + i]
      BY <1>1, <1>8 DEF IInv, WireIsPipeline
    <3>2. \A i \in 1..Len(replies') : replies'[i] = pipeline[i]
      <4>1. \A i \in 1..(Len(replies) + 1) : i \in 1..Len(replies) \/ i = Len(replies) + 1
        BY <1>5
      <4> QED BY <1>4, <2>1, <3>1, <4>1
    <3>3. \A i \in 1..Len(requests') : requests'[i] = pipeline[Len(replies') + i]
      <4> SUFFICES ASSUME NEW i \in 1..Len(requests')
                   PROVE  requests'[i] = pipeline[Len(replies') + i]
        OBVIOUS
      <4>1. i + 1 \in 1..Len(requests) /\ Len(replies) + (i + 1) = Len(replies') + i
        BY <1>3, <1>4, <1>5
      <4> QED BY <1>3, <3>1, <4>1
    <3>4. Len(replies') + Len(requests') = Len(pipeline) /\ Len(replies') <= Len(pipeline)
      <4>1. Len(replies') = Len(replies) + 1 /\ Len(requests') = Len(requests) - 1
        BY <1>3, <1>4
      <4>2. Len(replies) + 1 <= Len(pipeline)
        BY <1>5, <2>1
      <4>3. Len(replies) + Len(requests) = Len(pipeline)
        BY <3>1
      <4> QED BY <1>5, <4>1, <4>2, <4>3
    <3> QED BY <1>2, <3>2, <3>3, <3>4 DEF WireIsPipeline
  <2>6. \A n \in Writes : n <= Gone + 1 => doc' >= n
    <3>1. \A n \in Writes : n \in Nat
      BY DEF Writes
    <3> QED BY <1>5, <2>1, <2>2, <3>1, StoreFacts
  <2>7. AnsweredIsApplied'
    <3>1. \A n \in Writes : outcome[n] = "ok" => n \in applied' /\ doc' >= n
      <4>1. \A n \in Writes : outcome[n] = "ok" => ~(n > Gone) /\ n \in applied
        BY DEF IInv, OutcomesInOrder, AnsweredIsApplied
      <4>2. \A n \in Writes : ~(n > Gone) => n <= Gone + 1
        BY StoreFacts DEF Writes
      <4> QED BY <2>2, <2>6, <4>1, <4>2
    <3>2. \A n \in Writes : told[n] = "ok" => n \in applied' /\ doc' >= n /\ n <= Gone + 1
      BY <2>2, <2>6, ToldStands
    <3>3. \A i \in 1..Len(replies') : replies'[i] \in applied' /\ doc' >= replies'[i]
      <4>1. \A i \in 1..Len(replies) : replies'[i] \in applied'
        BY <1>4, <1>8, <2>2 DEF IInv, AnsweredIsApplied
      <4>2. \A i \in 1..(Len(replies) + 1) : i \in 1..Len(replies) \/ i = Len(replies) + 1
        BY <1>5
      <4>3. \A i \in 1..Len(replies') : replies'[i] \in applied'
        BY <1>4, <2>2, <4>1, <4>2
      <4>4. \A i \in 1..Len(replies') : doc' >= replies'[i]
        <5> SUFFICES ASSUME NEW i \in 1..Len(replies') PROVE doc' >= replies'[i]
          OBVIOUS
        <5>1. i \in 1..Len(pipeline) /\ i <= Len(replies) + 1 /\ i \in Nat
          BY <1>4, <1>5, <2>1
        <5>2. replies'[i] = pipeline[i] /\ pipeline[i] = Gone + i
          BY <1>2, <1>8, <2>5, <5>1, StoreFacts DEF WireIsPipeline
        <5> QED BY <1>5, <2>1, <2>2, <5>1, <5>2, StoreFacts
      <4> QED BY <4>3, <4>4
    <3> QED BY <1>2, <3>1, <3>2, <3>3 DEF AnsweredIsApplied
  <2>8. RejectionHasCause'
    BY <1>1, <1>2 DEF IInv, RejectionHasCause
  <2> QED BY <1>2, <1>6, <2>3, <2>4, <2>5, <2>7, <2>8 DEF IInv
<1> QED BY <1>7, <1>8

LEMMA WriteMutationsKeeps == ASSUME IInv, WriteMutations PROVE IInv'
<1>1. /\ made < LastWrite /\ made' = made + 1 /\ queue' = Append(queue, made + 1)
      /\ callbacks' = callbacks \cup {made + 1}
      /\ pipeline' = Refilled(pipeline, queue', enabled')
      /\ StartIfNeeded(stream, pipeline', enabled, asked)
      /\ enabled' = enabled /\ handshake' = handshake /\ closeCount' = closeCount
      /\ replies' = replies /\ ended' = ended
      /\ doc' = doc /\ applied' = applied /\ refused' = refused
      /\ outcome' = outcome /\ told' = told /\ launches' = launches
  BY DEF WriteMutations, serverVars
<1>2. made \in Nat /\ made + 1 \in Writes
  BY <1>1, StoreFacts, BoundsAssumption DEF Writes, BoundsAssumption
<1>3. /\ queue' \in Seq(Writes) /\ Len(queue') = Len(queue) + 1
      /\ \A i \in 1..Len(queue) : queue'[i] = queue[i]
      /\ queue'[Len(queue) + 1] = made + 1
  BY <1>1, <1>2, StoreFacts, AppendAdds
<1>4. Len(queue) \in Nat /\ Len(pipeline) \in Nat
  BY StoreFacts
<1>5. Gone' = Gone /\ Len(queue') <= made' /\ made' \in Nat
  BY <1>1, <1>2, <1>3, <1>4, StoreFacts DEF Gone
<1>6. QueueIsRun'
  <2>1. ASSUME NEW i \in 1..Len(queue') PROVE queue'[i] = Gone + i
    <3>1. CASE i \in 1..Len(queue)
      BY <3>1, <1>3, StoreFacts
    <3>2. CASE i = Len(queue) + 1
      BY <3>2, <1>3, <1>4, StoreFacts
    <3> QED BY <3>1, <3>2, <1>3, <1>4
  <2> QED BY <1>5, <2>1 DEF QueueIsRun
<1>7. OutcomesInOrder'
  BY <1>1, <1>5 DEF IInv, OutcomesInOrder
<1>8. /\ pipeline' \in Seq(Writes) /\ PipelineIsOldestPart'
      /\ Len(pipeline) <= Len(pipeline')
      /\ \A i \in 1..Len(pipeline) : pipeline'[i] = pipeline[i]
  <2>1. \A i \in 1..Len(pipeline) : pipeline[i] = queue'[i]
    <3>1. \A i \in 1..Len(pipeline) : i \in 1..Len(queue)
      BY <1>4, StoreFacts
    <3> QED BY <1>3, <3>1, StoreFacts
  <2>2. Len(pipeline) <= Len(queue') /\ Len(pipeline) <= MaxPendingWrites
    BY <1>3, <1>4, StoreFacts
  <2>3. enabled' \in BOOLEAN /\ (~enabled' => Len(pipeline) = 0)
    BY <1>1, StoreFacts, Typing
  <2> QED BY <1>1, <1>3, <1>5, <1>6, <2>1, <2>2, <2>3, StoreFacts, FillsPipeline
<1>9. /\ stream' \in Streams /\ asked' \subseteq 0..closeCount' /\ CredentialsAreOfThisStart'
      /\ (stream' = "Open") <=> (stream = "Open")
      /\ ~enabled => stream' = stream
      /\ enabled /\ Len(pipeline') > 0 => stream' \in Started
  <2>1. closeCount' \in Nat /\ asked \subseteq 0..closeCount' /\ enabled \in BOOLEAN
        /\ stream \in {"Initial", "Starting", "Open", "Error", "Backoff"}
    BY <1>1, Typing DEF Streams
  <2>2. (closeCount' \in asked) <=> (stream = "Starting")
    BY <1>1 DEF IInv, CredentialsAreOfThisStart
  <2> QED BY <1>1, <1>8, <2>1, <2>2, StartsIfNeeded DEF Streams
<1>10. CASE Ready /\ pipeline' # pipeline
  <2>1. /\ requests' = requests \o SubSeq(pipeline', Len(pipeline) + 1, Len(pipeline'))
        /\ idle' = FALSE /\ stream = "Open" /\ handshake
    BY <1>10 DEF WriteMutations, Ready
  <2>2. /\ requests' \in Seq(Writes \cup {Hello})
        /\ \A k \in Nat :
              k + Len(requests) = Len(pipeline)
              /\ (\A i \in 1..Len(requests) : requests[i] = pipeline'[k + i]) =>
                /\ k + Len(requests') = Len(pipeline')
                /\ \A i \in 1..Len(requests') : requests'[i] = pipeline'[k + i]
    <3> DEFINE sent == SubSeq(pipeline', Len(pipeline) + 1, Len(pipeline'))
    <3>1. /\ requests \o sent \in Seq(Writes \cup {Hello})
          /\ \A k \in Nat :
                k + Len(requests) = Len(pipeline)
                /\ (\A i \in 1..Len(requests) : requests[i] = pipeline'[k + i]) =>
                  /\ k + Len(requests \o sent) = Len(pipeline')
                  /\ \A i \in 1..Len(requests \o sent) :
                        (requests \o sent)[i] = pipeline'[k + i]
      <4>1. /\ requests \in Seq(Writes \cup {Hello}) /\ pipeline' \in Seq(Writes)
            /\ Len(pipeline) \in Nat /\ Len(pipeline) <= Len(pipeline')
        BY <1>4, <1>8, Typing
      <4> QED BY <4>1, SendsAdded
    <3>2. requests' = requests \o sent
      BY <2>1
    <3> HIDE DEF sent
    <3> QED BY <3>1, <3>2
  <2>3. TypeOK'
    BY <1>1, <1>2, <1>3, <1>8, <1>9, <2>1, <2>2, Typing DEF TypeOK, Streams
  <2>4. CallBegins' /\ TimerAndNetwork'
    BY <1>1, <1>9, <2>1 DEF IInv, CallBegins, TimerAndNetwork
  <2>5. WireIsPipeline' /\ RefusedIsNext'
    <3>1. Len(replies) \in Nat /\ Len(requests) \in Nat
      BY Typing
    <3>2. /\ Len(replies') <= Len(pipeline')
          /\ \A i \in 1..Len(replies') : replies'[i] = pipeline'[i]
      BY <1>1, <1>4, <1>8, <2>1, <3>1 DEF IInv, WireIsPipeline
    <3>3. ASSUME ended = "no"
          PROVE  /\ Len(replies') + Len(requests') = Len(pipeline')
                 /\ \A i \in 1..Len(requests') : requests'[i] = pipeline'[Len(replies') + i]
      <4>1. /\ Len(replies) + Len(requests) = Len(pipeline)
            /\ \A i \in 1..Len(requests) : requests[i] = pipeline[Len(replies) + i]
        BY <2>1, <3>3 DEF IInv, WireIsPipeline
      <4>2. \A i \in 1..Len(requests) : Len(replies) + i \in 1..Len(pipeline)
        BY <3>1, <4>1
      <4>3. \A i \in 1..Len(requests) : requests[i] = pipeline'[Len(replies) + i]
        BY <1>8, <4>1, <4>2
      <4> QED BY <1>1, <2>2, <3>1, <4>1, <4>3
    <3>4. RefusedIsNext'
      <4>1. SUFFICES ASSUME ended = "permanent"
                     PROVE  /\ Len(replies) < Len(pipeline')
                            /\ pipeline'[Len(replies) + 1] \in refused
        BY <1>1 DEF RefusedIsNext
      <4>2. Len(replies) < Len(pipeline) /\ pipeline[Len(replies) + 1] \in refused
        BY <2>1, <4>1 DEF IInv, RefusedIsNext
      <4>3. Len(replies) + 1 \in 1..Len(pipeline) /\ Len(pipeline') \in Nat
        BY <1>4, <1>8, <3>1, <4>2
      <4> QED BY <1>4, <1>8, <3>1, <4>2, <4>3
    <3> QED BY <1>1, <3>2, <3>3, <3>4 DEF WireIsPipeline
  <2>6. AnsweredIsApplied' /\ RejectionHasCause'
    BY <1>1, <1>5 DEF IInv, AnsweredIsApplied, RejectionHasCause
  <2> QED BY <1>6, <1>7, <1>8, <1>9, <2>3, <2>4, <2>5, <2>6 DEF IInv
<1>11. CASE ~(Ready /\ pipeline' # pipeline)
  <2>1. requests' = requests /\ idle' = idle
    BY <1>11 DEF WriteMutations
  <2>2. TypeOK'
    BY <1>1, <1>2, <1>3, <1>8, <1>9, <2>1, Typing DEF TypeOK, Streams
  <2>3. CallBegins'
    BY <1>1, <1>9, <2>1 DEF IInv, CallBegins
  <2>4. handshake => stream = "Open"
    BY DEF IInv, CallBegins
  <2>5. handshake => pipeline' = pipeline
    BY <1>11, <2>4 DEF Ready
  <2>6. WireIsPipeline' /\ RefusedIsNext'
    BY <1>1, <2>1, <2>5 DEF IInv, WireIsPipeline, RefusedIsNext
  <2>7. TimerAndNetwork'
    <3>1. ASSUME idle PROVE handshake /\ Len(pipeline') = 0
      BY <2>5, <3>1 DEF IInv, TimerAndNetwork
    <3> QED BY <1>1, <1>9, <2>1, <3>1 DEF IInv, TimerAndNetwork
  <2>8. AnsweredIsApplied' /\ RejectionHasCause'
    BY <1>1, <1>5 DEF IInv, AnsweredIsApplied, RejectionHasCause
  <2> QED BY <1>6, <1>7, <1>8, <1>9, <2>2, <2>3, <2>6, <2>7, <2>8 DEF IInv
<1> QED BY <1>10, <1>11

LEMMA MutationResultKeeps == ASSUME IInv, MutationResult PROVE IInv'
<1> DEFINE n == Head(pipeline)
           left == Len(pipeline) - 1
           sent == SubSeq(pipeline', left + 1, Len(pipeline'))
<1>1. /\ stream = "Open" /\ handshake /\ Len(replies) > 0 /\ Len(pipeline) > 0
      /\ Len(Tail(pipeline)) = left /\ n = pipeline[1]
  BY Typing, StoreFacts, NonEmpty, TailShifts DEF MutationResult, Ready
<1>2. /\ NotifyUser(n, "ok") /\ outcome' = [outcome EXCEPT ![n] = "ok"]
      /\ queue' = Tail(queue) /\ enabled' = enabled /\ stream' = stream
      /\ pipeline' = Refilled(Tail(pipeline), queue', enabled')
      /\ replies' = Tail(replies) /\ handshake' = handshake /\ closeCount' = closeCount
      /\ asked' = asked /\ ended' = ended /\ made' = made /\ launches' = launches
      /\ doc' = doc /\ applied' = applied /\ refused' = refused
  BY DEF MutationResult, serverVars
<1>3. /\ requests' = requests \o sent
      /\ idle' = (MarksIdle(pipeline') \/ (idle /\ Len(pipeline') = left))
  BY <1>1 DEF MutationResult
<1>4. /\ queue' \in Seq(Writes) /\ pipeline' \in Seq(Writes)
      /\ QueueIsRun' /\ PipelineIsOldestPart'
      /\ Gone' = Gone + 1 /\ n = Gone + 1 /\ n \in Writes
      /\ left <= Len(pipeline')
      /\ \A i \in 1..left : pipeline'[i] = pipeline[i + 1]
  BY <1>1, <1>2, SettlesFront
<1>5. /\ Len(replies) \in Nat /\ Len(requests) \in Nat /\ Len(pipeline) \in Nat
      /\ left \in Nat /\ Gone \in Nat /\ Len(pipeline') \in Nat /\ left + 1 = Len(pipeline)
  BY <1>1, <1>4, Typing, StoreFacts
<1>6. /\ replies' \in Seq(Writes \cup {Hello}) /\ Len(replies') = Len(replies) - 1
      /\ \A i \in 1..Len(replies') : replies'[i] = replies[i + 1]
  BY <1>1, <1>2, Typing, TailShifts
<1>7. /\ requests' \in Seq(Writes \cup {Hello})
      /\ \A k \in Nat :
            k + Len(requests) = left
            /\ (\A i \in 1..Len(requests) : requests[i] = pipeline'[k + i]) =>
              /\ k + Len(requests') = Len(pipeline')
              /\ \A i \in 1..Len(requests') : requests'[i] = pipeline'[k + i]
  <2>1. /\ requests \in Seq(Writes \cup {Hello}) /\ pipeline' \in Seq(Writes)
        /\ left \in Nat /\ left <= Len(pipeline')
    BY <1>4, <1>5, Typing
  <2> HIDE DEF left
  <2>2. /\ requests \o sent \in Seq(Writes \cup {Hello})
        /\ \A k \in Nat :
              k + Len(requests) = left
              /\ (\A i \in 1..Len(requests) : requests[i] = pipeline'[k + i]) =>
                /\ k + Len(requests \o sent) = Len(pipeline')
                /\ \A i \in 1..Len(requests \o sent) :
                      (requests \o sent)[i] = pipeline'[k + i]
    BY <2>1, SendsAdded
  <2> HIDE DEF sent
  <2> QED BY <1>3, <2>2
<1>8. /\ callbacks' \subseteq Writes
      /\ outcome' \in [Writes -> Outcomes] /\ told' \in [Writes -> Outcomes]
      /\ \A k \in Writes : told'[k] = "ok" => told[k] = "ok" \/ k = n
      /\ \A k \in Writes : outcome'[k] = IF k = n THEN "ok" ELSE outcome[k]
  <2> HIDE DEF n
  <2>1. /\ callbacks' \subseteq Writes /\ outcome' \in [Writes -> Outcomes]
        /\ \A k \in Writes : outcome'[k] = IF k = n THEN "ok" ELSE outcome[k]
    BY <1>2, <1>4, Typing DEF NotifyUser, Outcomes
  <2>2. told' = told \/ told' = [told EXCEPT ![n] = "ok"]
    BY <1>2 DEF NotifyUser
  <2> QED BY <2>1, <2>2, <1>4, Typing DEF Outcomes
<1>9. n \in applied /\ doc >= n
  BY <1>1, Typing DEF IInv, WireIsPipeline, AnsweredIsApplied
<1> HIDE DEF n, sent, left
<1>10. idle' \in BOOLEAN /\ (idle' => Len(pipeline') = 0)
  <2>1. MarksIdle(pipeline') => Len(pipeline') = 0
    BY <1>4, NonEmpty DEF MarksIdle
  <2>2. ~idle
    BY <1>1 DEF IInv, TimerAndNetwork
  <2>3. idle' = MarksIdle(pipeline')
    BY <1>3, <2>2, Zenon DEF MarksIdle
  <2> QED BY <2>1, <2>3 DEF MarksIdle
<1>11. TypeOK'
  BY <1>2, <1>4, <1>6, <1>7, <1>8, <1>10, Typing DEF TypeOK, Streams
<1>12. CallBegins' /\ CredentialsAreOfThisStart'
  BY <1>1, <1>2 DEF IInv, CallBegins, CredentialsAreOfThisStart
<1>13. TimerAndNetwork'
  BY <1>1, <1>2, <1>10 DEF IInv, TimerAndNetwork
<1>14. OutcomesInOrder'
  <2> SUFFICES ASSUME NEW k \in Writes PROVE (outcome'[k] = "none") <=> (k > Gone')
    BY DEF OutcomesInOrder
  <2>1. (outcome[k] = "none") <=> (k > Gone)
    BY DEF IInv, OutcomesInOrder
  <2>2. k \in Nat
    BY DEF Writes
  <2> QED BY <1>4, <1>5, <1>8, <2>1, <2>2
<1>15. /\ Len(replies) <= Len(pipeline)
       /\ \A i \in 1..Len(replies) : replies[i] = pipeline[i]
       /\ ended = "no" =>
            /\ Len(replies) + Len(requests) = Len(pipeline)
            /\ \A i \in 1..Len(requests) : requests[i] = pipeline[Len(replies) + i]
  BY <1>1 DEF IInv, WireIsPipeline
<1>16. WireIsPipeline'
  <2>1. Len(replies') <= left
    BY <1>5, <1>6, <1>15
  <2>2. \A i \in 1..Len(replies') : replies'[i] = pipeline'[i]
    <3> SUFFICES ASSUME NEW i \in 1..Len(replies') PROVE replies'[i] = pipeline'[i]
      OBVIOUS
    <3>1. i \in 1..left /\ i + 1 \in 1..Len(replies)
      BY <1>5, <1>6, <2>1
    <3> QED BY <1>4, <1>6, <1>15, <3>1
  <2>3. ASSUME ended = "no"
        PROVE  /\ Len(replies') + Len(requests') = Len(pipeline')
               /\ \A i \in 1..Len(requests') : requests'[i] = pipeline'[Len(replies') + i]
    <3>1. Len(replies') \in Nat /\ Len(replies') + 1 = Len(replies)
      BY <1>1, <1>5, <1>6
    <3>2. Len(replies') + Len(requests) = left
      <4>1. Len(replies) + Len(requests) = Len(pipeline)
        BY <1>15, <2>3
      <4> QED BY <1>5, <3>1, <4>1
    <3>3. ASSUME NEW i \in 1..Len(requests) PROVE requests[i] = pipeline'[Len(replies') + i]
      <4>1. /\ Len(replies') + i \in 1..left
            /\ (Len(replies') + i) + 1 = Len(replies) + i
        BY <1>5, <3>1, <3>2
      <4>2. requests[i] = pipeline[Len(replies) + i]
        BY <1>15, <2>3
      <4> QED BY <1>4, <4>1, <4>2
    <3> QED BY <1>7, <3>1, <3>2, <3>3
  <2>4. Len(replies') <= Len(pipeline')
    BY <1>4, <1>5, <1>6, <2>1
  <2> QED BY <1>2, <2>2, <2>3, <2>4 DEF WireIsPipeline
<1>17. RefusedIsNext'
  <2> SUFFICES ASSUME ended = "permanent"
               PROVE  /\ Len(replies') < Len(pipeline')
                      /\ pipeline'[Len(replies') + 1] \in refused
    BY <1>2 DEF RefusedIsNext
  <2>1. Len(replies) < Len(pipeline) /\ pipeline[Len(replies) + 1] \in refused
    BY <1>1 DEF IInv, RefusedIsNext
  <2>2. Len(replies') + 1 = Len(replies)
    BY <1>5, <1>6
  <2>3. Len(replies) \in 1..left
    BY <1>1, <1>5, <2>1
  <2>4. pipeline'[Len(replies)] = pipeline[Len(replies) + 1]
    BY <1>4, <2>3
  <2>5. Len(replies') < Len(pipeline')
    BY <1>4, <1>5, <1>6, <2>3
  <2> QED BY <2>1, <2>2, <2>4, <2>5
<1>18. AnsweredIsApplied'
  <2>1. \A k \in Writes : outcome'[k] = "ok" => k \in applied' /\ doc' >= k
    BY <1>2, <1>8, <1>9 DEF IInv, AnsweredIsApplied
  <2>2. \A k \in Writes : told'[k] = "ok" => k \in applied' /\ doc' >= k /\ k <= Gone' + 1
    <3>1. \A k \in Writes : k \in Nat
      BY DEF Writes
    <3> QED BY <1>2, <1>4, <1>5, <1>8, <1>9, <3>1, ToldStands
  <2>3. \A i \in 1..Len(replies') : replies'[i] \in applied' /\ doc' >= replies'[i]
    <3>1. \A i \in 1..Len(replies') : i + 1 \in 1..Len(replies)
      BY <1>5, <1>6
    <3> QED BY <1>1, <1>2, <1>6, <3>1 DEF IInv, AnsweredIsApplied
  <2> QED BY <2>1, <2>2, <2>3 DEF AnsweredIsApplied
<1>19. RejectionHasCause'
  <2>1. \A k \in Writes : outcome'[k] = "error" => outcome[k] = "error"
    BY <1>8
  <2> QED BY <1>2, <2>1 DEF IInv, RejectionHasCause
<1> QED BY <1>4, <1>11, <1>12, <1>13, <1>14, <1>16, <1>17, <1>18, <1>19 DEF IInv

-----------------------------------------------------------------------------
(* The invariant, and what follows from it.                                *)

LEMMA InitSatisfies == ASSUME Init PROVE IInv
<1>1. /\ queue \in Seq(Writes) /\ Len(queue) = 0 /\ pipeline \in Seq(Writes)
      /\ Len(pipeline) = 0
      /\ requests \in Seq(Writes \cup {Hello}) /\ Len(requests) = 0
      /\ replies \in Seq(Writes \cup {Hello}) /\ Len(replies) = 0
  BY EmptyHasNoElements DEF Init
<1>2. TypeOK
  BY <1>1 DEF Init, TypeOK, Outcomes
<1>3. Gone = 0 /\ QueueIsRun
  <2>1. made = 0 /\ Len(queue) = 0
    BY <1>1 DEF Init
  <2> QED BY <2>1 DEF Gone, QueueIsRun
<1>4. PipelineIsOldestPart
  BY <1>1, PendingAssumption DEF Init, PipelineIsOldestPart, Smaller, PendingAssumption
<1>5. /\ CallBegins /\ WireIsPipeline /\ CredentialsAreOfThisStart /\ TimerAndNetwork
      /\ RefusedIsNext
  BY DEF Init, CallBegins, WireIsPipeline, CredentialsAreOfThisStart, TimerAndNetwork,
     RefusedIsNext
<1>6. OutcomesInOrder /\ AnsweredIsApplied /\ RejectionHasCause
  BY <1>3 DEF Init, OutcomesInOrder, AnsweredIsApplied, RejectionHasCause, Writes
<1> QED BY <1>2, <1>3, <1>4, <1>5, <1>6 DEF IInv

LEMMA StutteringKeeps == ASSUME IInv, UNCHANGED vars PROVE IInv'
<1>1. /\ UNCHANGED <<queue, clientVars, callbacks, historyVars>>
      /\ requests' = requests /\ replies' = replies /\ ended' = ended
      /\ doc' = doc /\ applied' = applied /\ refused' = refused /\ idle' = idle
  BY DEF vars, clientVars, callVars, serverVars
<1>2. /\ QueueIsRun' /\ PipelineIsOldestPart' /\ OutcomesInOrder' /\ Gone' = Gone
      /\ CredentialsAreOfThisStart' /\ TimerAndNetwork'
      /\ queue' = queue /\ pipeline' = pipeline /\ handshake' = handshake
      /\ stream' = stream /\ outcome' = outcome /\ told' = told
  BY <1>1, DeviceUntouched
<1>3. TypeOK'
  BY <1>1 DEF IInv, TypeOK, clientVars, historyVars
<1>4. CallBegins' /\ WireIsPipeline' /\ RefusedIsNext'
  BY <1>1, <1>2 DEF IInv, CallBegins, WireIsPipeline, RefusedIsNext
<1>5. AnsweredIsApplied' /\ RejectionHasCause'
  BY <1>1, <1>2 DEF IInv, AnsweredIsApplied, RejectionHasCause
<1> QED BY <1>2, <1>3, <1>4, <1>5 DEF IInv

LEMMA StepKeeps == ASSUME IInv, [Next]_vars PROVE IInv'
<1>1. CASE WriteMutations
  BY <1>1, WriteMutationsKeeps
<1>2. ASSUME NEW count \in asked, ResumeStart(count) PROVE IInv'
  BY <1>2, ResumeStartKeeps
<1>3. CASE TokenFails
  BY <1>3, TokenFailsKeeps
<1>4. CASE BackoffElapsed
  BY <1>4, BackoffElapsedKeeps
<1>5. CASE HandshakeComplete
  BY <1>5, HandshakeCompleteKeeps
<1>6. CASE MutationResult
  BY <1>6, MutationResultKeeps
<1>7. CASE Finish
  BY <1>7, FinishKeeps
<1>8. CASE IdleTimeout
  BY <1>8, IdleTimeoutKeeps
<1>9. CASE DisableNetwork
  BY <1>9, DisableNetworkKeeps
<1>10. CASE EnableNetwork
  BY <1>10, EnableNetworkKeeps
<1>11. CASE RestartNetwork
  BY <1>11, RestartNetworkKeeps
<1>12. CASE Relaunch
  BY <1>12, RelaunchKeeps
<1>13. CASE RelaunchBeforeRemoval
  BY <1>13, RelaunchBeforeRemovalKeeps
<1>14. CASE ServerApplies
  BY <1>14, ServerAppliesKeeps
<1>15. CASE ServerRefuses
  BY <1>15, ServerRefusesKeeps
<1>16. CASE ConnectionLost
  BY <1>16, ConnectionLostKeeps
<1>17. CASE UNCHANGED vars
  BY <1>17, StutteringKeeps
<1> QED
  BY <1>1, <1>2, <1>3, <1>4, <1>5, <1>6, <1>7, <1>8, <1>9, <1>10, <1>11, <1>12, <1>13,
     <1>14, <1>15, <1>16, <1>17 DEF Next

LEMMA Invariance == Spec => []IInv
  BY InitSatisfies, StepKeeps, PTL DEF Spec

LEMMA WireInOrder == ASSUME IInv PROVE AnswersMatchPipeline
<1> SUFFICES ASSUME handshake
             PROVE  /\ Len(replies) <= Len(pipeline)
                    /\ \A i \in 1..Len(replies) : replies[i] = pipeline[i]
                    /\ ended = "no" => replies \o requests = pipeline
  BY DEF AnswersMatchPipeline
<1>1. /\ Len(replies) <= Len(pipeline)
      /\ \A i \in 1..Len(replies) : replies[i] = pipeline[i]
  BY DEF IInv, WireIsPipeline
<1>2. ASSUME ended = "no" PROVE replies \o requests = pipeline
  <2>1. /\ Len(replies) + Len(requests) = Len(pipeline)
        /\ \A i \in 1..Len(requests) : requests[i] = pipeline[Len(replies) + i]
    BY <1>2 DEF IInv, WireIsPipeline
  <2>2. /\ replies \in Seq(Writes \cup {Hello}) /\ requests \in Seq(Writes \cup {Hello})
        /\ pipeline \in Seq(Writes \cup {Hello})
    BY Typing, StoreFacts
  <2>3. /\ replies \o requests \in Seq(Writes \cup {Hello})
        /\ Len(replies \o requests) = Len(replies) + Len(requests)
        /\ \A i \in 1..Len(replies) : (replies \o requests)[i] = replies[i]
        /\ \A i \in 1..Len(requests) : (replies \o requests)[Len(replies) + i] = requests[i]
    BY <2>2, ConcatShifts
  <2> DEFINE s == replies \o requests
  <2>4. Len(replies) \in Nat /\ Len(requests) \in Nat
    BY Typing
  <2>5. ASSUME NEW i \in 1..Len(s) PROVE s[i] = pipeline[i]
    <3>1. CASE i <= Len(replies)
      <4>1. i \in 1..Len(replies)
        BY <2>4, <3>1
      <4> QED BY <1>1, <2>3, <4>1
    <3>2. CASE i > Len(replies)
      <4> DEFINE j == i - Len(replies)
      <4>1. j \in 1..Len(requests) /\ Len(replies) + j = i
        BY <2>3, <2>4, <3>2
      <4> HIDE DEF j, s
      <4>2. s[Len(replies) + j] = requests[j] /\ requests[j] = pipeline[Len(replies) + j]
        BY <2>1, <2>3, <4>1 DEF s
      <4> QED BY <4>1, <4>2
    <3> QED BY <3>1, <3>2, <2>4
  <2> QED BY <2>1, <2>2, <2>3, <2>5, SeqEqual
<1> QED BY <1>1, <1>2

LEMMA WaitingIsServed == ASSUME IInv PROVE NothingIsForgotten
<1> SUFFICES ASSUME enabled, queue # <<>> PROVE stream \in Started /\ ~idle
  BY DEF NothingIsForgotten
<1>1. Len(pipeline) > 0
  BY StoreFacts, NonEmpty
<1>2. ~idle
  BY <1>1 DEF IInv, TimerAndNetwork
<1>3. stream \in Started
  BY <1>1 DEF IInv, TimerAndNetwork
<1> QED BY <1>2, <1>3

\* Everything TypeOK says holds at all times.
THEOREM WritePipelineTypeCorrect == Spec => []TypeOK
  BY Invariance, PTL DEF IInv

\* However the client refills its pipeline, after an answer, an error, a new
\* write or a restart, it holds the oldest writes of the queue and no other
\* (FillWritePipeline).
THEOREM PipelineAlwaysOldest == Spec => []PipelineIsOldestPart
  BY Invariance, PTL DEF IInv

\* The answers that are read are always about the write at their place in the
\* pipeline, although nothing in them says so (OnWriteStreamMutationResult).
THEOREM AnswersAlwaysMatch == Spec => []AnswersMatchPipeline
  BY Invariance, WireInOrder, PTL

\* While the network is enabled a waiting write always has a stream that is
\* started and will not be closed for being idle.
THEOREM NothingEverForgotten == Spec => []NothingIsForgotten
  BY Invariance, WaitingIsServed, PTL

\* A start waits for its own credentials and takes no others
\* (ResumeStartWithCredentials).
THEOREM CredentialsAlwaysOfThisStart == Spec => []CredentialsAreOfThisStart
  BY Invariance, PTL DEF IInv

\* What was reported done has been applied and stays so, through any number of
\* lost connections and restarts.
THEOREM AcknowledgedAlwaysStands == Spec => []AcknowledgedStands
<1>1. IInv => AcknowledgedStands
  BY DEF IInv, AnsweredIsApplied, AcknowledgedStands
<1> QED BY <1>1, Invariance, PTL

\* Writes leave the queue in the order they were made, each with an outcome.
THEOREM SettledAlwaysInOrder == Spec => []SettledInOrder
<1>1. ASSUME IInv PROVE SettledInOrder
  <2> SUFFICES ASSUME NEW n \in 1..made
               PROVE  (outcome[n] = "none") <=> \E i \in 1..Len(queue) : queue[i] = n
    BY DEF SettledInOrder
  <2>1. /\ made \in Nat /\ n \in Nat /\ n <= made /\ Gone \in Nat /\ Len(queue) \in Nat
        /\ made = Gone + Len(queue)
    BY <1>1, StoreFacts
  <2>2. n \in Writes
    BY <1>1, <2>1, Typing, BoundsAssumption DEF Writes, BoundsAssumption
  <2>3. (outcome[n] = "none") <=> (n > Gone)
    BY <1>1, <2>2 DEF IInv, OutcomesInOrder
  <2>4. \A i \in 1..Len(queue) : queue[i] = Gone + i
    BY <1>1, StoreFacts
  <2>5. ASSUME n > Gone PROVE \E i \in 1..Len(queue) : queue[i] = n
    <3>1. n - Gone \in 1..Len(queue) /\ Gone + (n - Gone) = n
      BY <2>1, <2>5
    <3> QED BY <2>4, <3>1
  <2>6. ASSUME NEW i \in 1..Len(queue), queue[i] = n PROVE n > Gone
    BY <2>1, <2>4, <2>6
  <2> QED BY <2>3, <2>5, <2>6
<1> QED BY <1>1, Invariance, PTL

\* A write that is lost was refused, or made before one that was.
THEOREM RejectionAlwaysHasCause == Spec => []RejectionHasCause
  BY Invariance, PTL DEF IInv

-----------------------------------------------------------------------------
(* The client keeps the promise of OrderedWrites.                          *)

Passed == IF handshake THEN Len(replies) ELSE 0

LEMMA PassedFits ==
    ASSUME IInv PROVE Passed \in Nat /\ Passed <= Len(queue) /\ Len(queue) \in Nat
<1>1. CASE handshake
  <2>1. Passed = Len(replies) /\ Len(replies) <= Len(pipeline)
    BY <1>1 DEF Passed, IInv, WireIsPipeline
  <2>2. Len(replies) \in Nat /\ Len(pipeline) \in Nat /\ Len(queue) \in Nat
    BY Typing, StoreFacts
  <2> QED BY <2>1, <2>2, StoreFacts
<1>2. CASE ~handshake
  BY <1>2, StoreFacts DEF Passed
<1> QED BY <1>1, <1>2

LEMMA ForgetsAll ==
    ASSUME IInv, handshake' = FALSE, queue' = queue, doc' = doc, made' = made
    PROVE  InOrder!Forget
<1>1. Passed' = 0 /\ 0 \in 0..Passed
  BY PassedFits DEF Passed
<1> QED BY <1>1 DEF InOrder!Forget, Passed

LEMMA MakesNext == ASSUME IInv, WriteMutations PROVE InOrder!Make
  BY DEF WriteMutations, InOrder!Make, serverVars

LEMMA SettlesOldest == ASSUME IInv, MutationResult PROVE InOrder!Acknowledge
<1>1. /\ handshake /\ handshake' = handshake /\ queue' = Tail(queue)
      /\ replies' = Tail(replies) /\ doc' = doc /\ made' = made
  BY DEF MutationResult, Ready, serverVars
<1>2. Len(replies) > 0 /\ Len(replies) \in Nat
  BY Typing, NonEmpty DEF MutationResult
<1>3. Len(Tail(replies)) = Len(replies) - 1
  BY <1>2, Typing, TailShifts
<1>4. Passed > 0 /\ Passed' = Passed - 1
  BY <1>1, <1>2, <1>3 DEF Passed
<1> QED BY <1>1, <1>4 DEF InOrder!Acknowledge, Passed

LEMMA RefusesOldest ==
    ASSUME IInv, NEW status, NEW open, CloseWithError(status, open)
    PROVE  InOrder!Refuse \/ InOrder!Forget
<1>1. handshake' = FALSE /\ doc' = doc /\ made' = made
  BY DEF CloseWithError, serverVars
<1>2. CASE FailsFront(status)
  <2>1. queue' = Tail(queue) /\ pipeline # <<>>
    BY <1>2 DEF CloseWithError, FailsFront
  <2>2. queue # <<>>
    <3>1. Len(pipeline) > 0
      BY <2>1, StoreFacts, NonEmpty
    <3>2. Len(queue) > 0
      BY <3>1, StoreFacts
    <3> QED BY <3>2, StoreFacts, NonEmpty
  <2> QED BY <1>1, <2>1, <2>2 DEF InOrder!Refuse
<1>3. CASE ~FailsFront(status)
  <2>1. queue' = queue
    BY <1>3 DEF CloseWithError
  <2> QED BY <1>1, <2>1, ForgetsAll
<1> QED BY <1>2, <1>3

LEMMA AppliesNext ==
    ASSUME IInv, ServerApplies PROVE InOrder!Apply \/ UNCHANGED InOrder!vars
<1>1. /\ stream = "Open" /\ ended = "no" /\ requests # <<>>
      /\ replies' = Append(replies, Head(requests))
      /\ queue' = queue /\ made' = made /\ handshake' = handshake
  BY DEF ServerApplies, clientVars, historyVars
<1>2. CASE ~handshake
  <2>1. Head(requests) = Hello
    BY <1>1, <1>2, NextRequest
  <2>2. doc' = doc
    BY <2>1 DEF ServerApplies, serverVars
  <2> QED BY <1>1, <1>2, <2>2 DEF InOrder!vars
<1>3. CASE handshake
  <2>1. /\ Len(replies) + 1 \in 1..Len(pipeline) /\ Head(requests) # Hello
        /\ Head(requests) = pipeline[Len(replies) + 1]
    BY <1>1, <1>3, NextRequest
  <2>2. Len(replies) \in Nat /\ Len(pipeline) \in Nat /\ Len(queue) \in Nat
    BY Typing, StoreFacts
  <2>3. doc' = queue[Len(replies) + 1] /\ Len(replies) < Len(queue)
    <3>1. doc' = pipeline[Len(replies) + 1]
      BY <2>1 DEF ServerApplies
    <3> QED BY <2>1, <2>2, <3>1, StoreFacts
  <2>4. Len(replies') = Len(replies) + 1
    <3>1. Head(requests) \in Writes \cup {Hello}
      BY <2>1, StoreFacts
    <3> QED BY <1>1, <3>1, Typing, AppendAdds
  <2>5. Passed = Len(replies) /\ Passed' = Len(replies) + 1
    BY <1>1, <1>3, <2>4 DEF Passed
  <2> QED BY <1>1, <2>3, <2>5 DEF InOrder!Apply, Passed
<1> QED BY <1>2, <1>3

LEMMA ForgetsSome == ASSUME IInv, ConnectionLost PROVE InOrder!Forget
<1> PICK k \in 0..Len(replies) : replies' = SubSeq(replies, 1, k)
  BY DEF ConnectionLost
<1>1. queue' = queue /\ made' = made /\ handshake' = handshake /\ doc' = doc
  BY DEF ConnectionLost, clientVars, serverVars, historyVars
<1>2. CASE ~handshake
  BY <1>1, <1>2, ForgetsAll, Typing
<1>3. CASE handshake
  <2>1. Len(replies) \in Nat /\ k \in Nat
    BY Typing
  <2>2. \A i \in 1..k : replies[i] \in Writes \cup {Hello}
    BY <2>1, Typing
  <2>3. Len(SubSeq(replies, 1, k)) = IF 1 <= k THEN k - 1 + 1 ELSE 0
    BY <2>1, <2>2, SubSeqProperties
  <2>4. (IF 1 <= k THEN k - 1 + 1 ELSE 0) = k
    BY <2>1
  <2>5. Passed' = k /\ Passed = Len(replies)
    BY <1>1, <1>3, <2>3, <2>4 DEF Passed
  <2> QED BY <1>1, <2>5 DEF InOrder!Forget, Passed
<1> QED BY <1>2, <1>3

\* Nothing that OrderedWrites shows changes.
LEMMA ShowsNothing ==
    ASSUME IInv, queue' = queue, doc' = doc, made' = made,
           \/ handshake' = handshake /\ replies' = replies
           \/ ~handshake /\ handshake' /\ Len(replies') = 0
    PROVE  UNCHANGED InOrder!vars
<1>1. CASE handshake' = handshake /\ replies' = replies
  BY <1>1 DEF InOrder!vars
<1>2. CASE ~handshake /\ handshake' /\ Len(replies') = 0
  <2>1. Passed' = 0 /\ Passed = 0
    BY <1>2 DEF Passed
  <2> QED BY <2>1 DEF InOrder!vars, Passed
<1> QED BY <1>1, <1>2

LEMMA StepIsInOrder == ASSUME IInv, [Next]_vars PROVE [InOrder!Next]_(InOrder!vars)
<1> USE DEF InOrder!Next
<1>1. CASE WriteMutations
  BY <1>1, MakesNext
<1>2. ASSUME NEW count \in asked, ResumeStart(count) PROVE UNCHANGED InOrder!vars
  BY <1>2, ShowsNothing DEF ResumeStart, serverVars, historyVars
<1>3. CASE TokenFails
  BY <1>3, RefusesOldest DEF TokenFails
<1>4. CASE BackoffElapsed
  BY <1>4, ShowsNothing DEF BackoffElapsed, callVars, serverVars, historyVars
<1>5. CASE HandshakeComplete
  <2>1. /\ ~handshake /\ handshake' /\ stream = "Open" /\ replies # <<>>
        /\ replies' = Tail(replies) /\ queue' = queue /\ doc' = doc /\ made' = made
    BY <1>5 DEF HandshakeComplete, serverVars, historyVars
  <2>2. Len(replies) \in Nat /\ Len(replies) > 0 /\ Len(replies) <= 1
    BY <2>1, Typing, NonEmpty DEF IInv, CallBegins
  <2>3. Len(Tail(replies)) = Len(replies) - 1
    BY <2>2, Typing, TailShifts
  <2>4. Len(replies') = 0
    BY <2>1, <2>2, <2>3
  <2> QED BY <2>1, <2>4, ShowsNothing
<1>6. CASE MutationResult
  BY <1>6, SettlesOldest
<1>7. CASE Finish
  BY <1>7, RefusesOldest DEF Finish
<1>8. CASE IdleTimeout
  BY <1>8, ForgetsAll DEF IdleTimeout, CloseGracefully, serverVars, historyVars
<1>9. CASE DisableNetwork
  <2>1. queue' = queue /\ doc' = doc /\ made' = made
    BY <1>9 DEF DisableNetwork, serverVars, historyVars
  <2>2. CASE stream \in Started
    BY <1>9, <2>1, <2>2, ForgetsAll DEF DisableNetwork, StopStream, CloseGracefully
  <2>3. CASE stream \notin Started
    BY <1>9, <2>1, <2>3, ShowsNothing DEF DisableNetwork, StopStream, callVars
  <2> QED BY <2>2, <2>3
<1>10. CASE EnableNetwork
  BY <1>10, ShowsNothing DEF EnableNetwork, callVars, serverVars, historyVars
<1>11. CASE RestartNetwork
  BY <1>11, ForgetsAll DEF RestartNetwork, serverVars, historyVars
<1>12. CASE Relaunch
  BY <1>12, ForgetsAll DEF Relaunch, Launched, serverVars
<1>13. CASE RelaunchBeforeRemoval
  BY <1>13, ForgetsAll DEF RelaunchBeforeRemoval, Launched, serverVars
<1>14. CASE ServerApplies
  BY <1>14, AppliesNext
<1>15. CASE ServerRefuses
  BY <1>15, ShowsNothing DEF ServerRefuses, clientVars, historyVars
<1>16. CASE ConnectionLost
  BY <1>16, ForgetsSome
<1>17. CASE UNCHANGED vars
  BY <1>17, ShowsNothing DEF vars, clientVars, callVars, serverVars, historyVars
<1> QED
  BY <1>1, <1>2, <1>3, <1>4, <1>5, <1>6, <1>7, <1>8, <1>9, <1>10, <1>11, <1>12, <1>13,
     <1>14, <1>15, <1>16, <1>17 DEF Next

\* The client of WritePipeline, with its reconnections, refusals and restarts,
\* implements the queue of OrderedWrites: the server sees the writes in order,
\* sees again only what it may, and no write is settled out of turn.
THEOREM PipelineKeepsOrder == Spec => KeepsOrder
<1>1. Init => InOrder!Init
  BY DEF Init, InOrder!Init
<1> QED BY <1>1, Invariance, StepIsInOrder, PTL DEF Spec, KeepsOrder, InOrder!Spec
=============================================================================
