--------------------------- MODULE WritePipeline ---------------------------
(***************************************************************************)
(* The way of a write of one device to the server: the Firestore client    *)
(* under Pods that setData and updateData of the game call.                *)
(*                                                                         *)
(* A write becomes a batch of the mutation queue, which is on disk.  The   *)
(* RemoteStore copies the oldest batches into its pipeline and sends them  *)
(* on the write stream; the server answers in order, and each answer is    *)
(* taken to be about the front of the pipeline.  A stream that ends with   *)
(* an error is started again after a backoff and everything in the         *)
(* pipeline is sent again, except that a permanent error rejects the front *)
(* of the pipeline.  Every handler runs to its end on the worker queue,    *)
(* so each is one action with all the calls it makes.                      *)
(*                                                                         *)
(* Covered: connections that break with answers under way, refused writes  *)
(* and handshakes, failed tokens, idle streams, disabled and restarted     *)
(* network, and an application that ends at any time, also between the     *)
(* completion of a write and its removal from the queue.  The server and   *)
(* the connection are external.  The states Open and Healthy of a stream   *)
(* are one here, as they differ only in the treatment of a token.  A batch *)
(* is known by the number of its write: LevelDB numbers the batches in the *)
(* same order, and nothing remembers a number it gives again after all     *)
(* batches are gone and the application was started anew.                  *)
(***************************************************************************)
EXTENDS Integers, Sequences

CONSTANTS
    MaxPendingWrites,   \* kMaxPendingWrites, 10 in the code
    LastWrite,          \* bound on the writes; the code has none
    MaxCloses,          \* bound on the interruptions of the stream of one launch
    MaxRelaunches       \* bound on the restarts of the application

ASSUME PendingAssumption == MaxPendingWrites \in Nat \ {0}
ASSUME BoundsAssumption ==
    LastWrite \in Nat /\ MaxCloses \in Nat /\ MaxRelaunches \in Nat

Writes == 1..LastWrite
Hello == 0              \* the handshake, on the wire among the writes
Outcomes == {"none", "ok", "error"}

VARIABLES
    \* on disk
    queue,              \* mutation_queue_
    \* RemoteStore and SyncEngine
    enabled,            \* is_network_enabled_
    pipeline,           \* write_pipeline_
    callbacks,          \* mutation_callbacks_: writes whose completion is awaited
    \* WriteStream
    stream,             \* state_
    handshake,          \* handshake_complete_
    idle,               \* idleness_timer_ is scheduled
    closeCount,         \* close_count_
    asked,              \* the close counts with which credentials were asked for
    \* the call and the server
    requests,           \* sent and not yet taken by the server
    replies,            \* answers the client has not read
    ended,              \* "no", or the status with which the call ended
    doc,                \* the last write the server applied
    \* history
    made,               \* how many writes were made
    applied, refused,   \* what the server has applied and refused
    outcome,            \* how each write left the queue
    told,               \* what its completion was told
    launches

clientVars == <<enabled, pipeline, stream, handshake, idle, closeCount, asked>>
callVars == <<requests, replies, ended>>
serverVars == <<doc, applied, refused>>
historyVars == <<made, outcome, told, launches>>
vars == <<queue, clientVars, callbacks, callVars, serverVars, historyVars>>

Started == {"Starting", "Open", "Backoff"}

Init ==
    /\ queue = <<>> /\ pipeline = <<>> /\ callbacks = {}
    /\ enabled = TRUE
    /\ stream = "Initial" /\ handshake = FALSE /\ idle = FALSE
    /\ closeCount = 0 /\ asked = {}
    /\ requests = <<>> /\ replies = <<>> /\ ended = "no"
    /\ doc = 0 /\ applied = {} /\ refused = {} /\ made = 0
    /\ outcome = [n \in Writes |-> "none"]
    /\ told = [n \in Writes |-> "none"]
    /\ launches = 0

-----------------------------------------------------------------------------
(* Parts of the handlers.                                                  *)

\* Variants of definitions, named Definition_Change, are only used to see
\* that a property notices the change.
NextBatch_FromLast(p, q) ==
    IF p = <<>> \/ q = <<>> THEN 1 ELSE p[Len(p)] - q[1] + 1

NextBatch_FromFront(p, q) == 1

\* NextMutationBatchAfterBatchId: where in q the batch after the last of p is.
NextBatch(p, q) ==
    IF p = <<>> \/ q = <<>> THEN 1 ELSE p[Len(p)] - q[1] + 2

Smaller(a, b) == IF a <= b THEN a ELSE b

\* The loop of FillWritePipeline: batches are added while CanAddToWritePipeline.
Refilled(p, q, net) ==
    LET from == NextBatch(p, q)
        room == MaxPendingWrites - Len(p)
    IN IF net THEN p \o SubSeq(q, from, Smaller(Len(q), from + room - 1)) ELSE p

ShouldStart_NotAfterError(state, p, net) == net /\ state = "Initial" /\ p # <<>>

\* ShouldStartWriteStream
ShouldStart(state, p, net) == net /\ state \notin Started /\ p # <<>>

\* The end of FillWritePipeline and of OnWriteStreamClose: the stream is
\* started when it is needed, which asks for credentials, after a backoff if
\* the stream had an error; open are the requests for credentials not answered.
StartIfNeeded(state, p, net, open) ==
    IF ~ShouldStart(state, p, net)
    THEN stream' = state /\ asked' = open
    ELSE IF state = "Error"
         THEN stream' = "Backoff" /\ asked' = open
         ELSE stream' = "Starting" /\ asked' = open \cup {closeCount'}

Ready_WhenOpen == stream = "Open"

\* AddToWritePipeline sends a batch at once when the handshake is complete.
Ready == stream = "Open" /\ handshake

MarksIdle_Always(p) == TRUE

\* FillWritePipeline, with nothing more to add, lets an empty stream become idle.
MarksIdle(p) == p = <<>>

\* NotifyUser, for a completion that is still there.
NotifyUser(n, status) ==
    /\ told' = IF n \in callbacks THEN [told EXCEPT ![n] = status] ELSE told
    /\ callbacks' = callbacks \ {n}

Disconnected_KeepsReplies == requests' = <<>> /\ replies' = replies /\ ended' = "no"

\* The call of a closed stream is gone, with all that was under way.
Disconnected == requests' = <<>> /\ replies' = <<>> /\ ended' = "no"

\* A bound: how often something may interrupt the stream.
MayInterrupt == closeCount < MaxCloses

-----------------------------------------------------------------------------
(* The device.                                                             *)

\* SyncEngine::WriteMutations: the batch is stored, its completion noted and
\* the pipeline filled; what is added to it is sent if the stream is ready,
\* which cancels the idle timer.
WriteMutations ==
    /\ made < LastWrite
    /\ made' = made + 1
    /\ queue' = Append(queue, made')
    /\ callbacks' = callbacks \cup {made'}
    /\ pipeline' = Refilled(pipeline, queue', enabled)
    /\ IF Ready /\ pipeline' # pipeline
       THEN /\ requests' = requests \o SubSeq(pipeline', Len(pipeline) + 1, Len(pipeline'))
            /\ idle' = FALSE
       ELSE UNCHANGED <<requests, idle>>
    /\ UNCHANGED closeCount
    /\ StartIfNeeded(stream, pipeline', enabled, asked)
    /\ UNCHANGED <<enabled, handshake, replies, ended, serverVars,
                   outcome, told, launches>>

\* HandleWriteError with a permanent error, or nothing for another one: the
\* front of the pipeline is rejected, without a backoff.
FailsFront_BeforeHandshake(status) == status = "permanent" /\ pipeline # <<>>

FailsFront(status) == status = "permanent" /\ pipeline # <<>> /\ handshake

FailedState_Status(status) == IF FailsFront(status) THEN "Initial" ELSE status

\* InhibitBackoff clears the error.
FailedState(status) == IF FailsFront(status) THEN "Initial" ELSE "Error"

\* Stream::Close with an error and OnWriteStreamClose.  handshake_complete_ is
\* reset only after the latter.
CloseWithError(status, open) ==
    /\ closeCount' = closeCount + 1
    /\ idle' = FALSE /\ handshake' = FALSE
    /\ Disconnected
    /\ IF FailsFront(status)
       THEN /\ queue' = Tail(queue)
            /\ outcome' = [outcome EXCEPT ![Head(pipeline)] = "error"]
            /\ NotifyUser(Head(pipeline), "error")
            /\ pipeline' = Refilled(Tail(pipeline), queue', enabled)
       ELSE UNCHANGED <<queue, outcome, told, callbacks, pipeline>>
    /\ StartIfNeeded(FailedState(status), pipeline', enabled, open)
    /\ UNCHANGED <<enabled, serverVars, made, launches>>

ResumeStart_AnyCount(count) ==
    /\ count \in asked
    /\ stream' = "Open" /\ requests' = <<Hello>>
    /\ asked' = asked \ {count}
    /\ UNCHANGED <<queue, enabled, pipeline, callbacks, handshake, idle, closeCount,
                   replies, ended, serverVars, historyVars>>

\* The credentials arrive: unless the stream was closed meanwhile, the call is
\* made, the stream open and the handshake sent (ResumeStartWithCredentials,
\* OnStreamStart, OnWriteStreamOpen).
ResumeStart(count) ==
    /\ count \in asked
    /\ asked' = asked \ {count}
    /\ IF count = closeCount
       THEN stream' = "Open" /\ requests' = <<Hello>>
       ELSE UNCHANGED <<stream, requests>>
    /\ UNCHANGED <<queue, enabled, pipeline, callbacks, handshake, idle, closeCount,
                   replies, ended, serverVars, historyVars>>

\* The credentials are an error: the stream ends before it has a call.
TokenFails ==
    /\ MayInterrupt
    /\ closeCount \in asked /\ stream = "Starting"
    /\ CloseWithError("transient", asked \ {closeCount})

BackoffElapsed ==
    /\ stream = "Backoff"
    /\ stream' = "Starting"
    /\ asked' = asked \cup {closeCount}
    /\ UNCHANGED <<queue, enabled, pipeline, callbacks, handshake, idle, closeCount,
                   callVars, serverVars, historyVars>>

\* The first answer completes the handshake: all of the pipeline is sent.
HandshakeComplete ==
    /\ stream = "Open" /\ replies # <<>> /\ ~handshake
    /\ handshake' = TRUE
    /\ replies' = Tail(replies)
    /\ requests' = requests \o pipeline
    /\ idle' = (idle /\ pipeline = <<>>)
    /\ UNCHANGED <<queue, enabled, pipeline, callbacks, stream, closeCount, asked,
                   ended, serverVars, historyVars>>

\* OnWriteStreamMutationResult: a later answer is about the front of the
\* pipeline.  Its completion is told, the batch removed, the pipeline filled
\* and what is added sent; an empty pipeline makes the stream idle.
MutationResult ==
    /\ Ready /\ replies # <<>>
    /\ pipeline # <<>>
    /\ LET n == Head(pipeline)
           rest == Tail(pipeline)
       IN /\ NotifyUser(n, "ok")
          /\ outcome' = [outcome EXCEPT ![n] = "ok"]
          /\ queue' = Tail(queue)
          /\ pipeline' = Refilled(rest, queue', enabled)
          /\ requests' = requests \o SubSeq(pipeline', Len(rest) + 1, Len(pipeline'))
          /\ idle' = (MarksIdle(pipeline') \/ (idle /\ Len(pipeline') = Len(rest)))
    /\ replies' = Tail(replies)
    /\ UNCHANGED <<enabled, stream, handshake, closeCount, asked, ended, serverVars,
                   made, launches>>

\* The call ends for the client once it has read all answers, or a write that
\* the server did not take fails first: answers not yet read are then dropped
\* (OnOperationFailed, FastFinishCompletionsBlocking).
Finish ==
    /\ stream = "Open" /\ ended # "no"
    /\ replies = <<>> \/ requests # <<>>
    /\ CloseWithError(ended, asked)

\* Stream::Close with status OK, which Stop and the idle timer call.
CloseGracefully ==
    /\ closeCount' = closeCount + 1
    /\ stream' = "Initial" /\ handshake' = FALSE /\ idle' = FALSE
    /\ Disconnected

IdleTimeout ==
    /\ idle
    /\ CloseGracefully
    /\ UNCHANGED <<queue, enabled, pipeline, callbacks, asked, serverVars, historyVars>>

\* DisableNetworkInternal stops the stream, if it is started.
StopStream ==
    IF stream \in Started
    THEN CloseGracefully
    ELSE UNCHANGED <<closeCount, stream, handshake, idle, callVars>>

DisableNetwork ==
    /\ MayInterrupt
    /\ enabled
    /\ enabled' = FALSE
    /\ StopStream
    /\ pipeline' = <<>>
    /\ UNCHANGED <<queue, callbacks, asked, serverVars, historyVars>>

EnableNetwork ==
    /\ ~enabled
    /\ enabled' = TRUE
    /\ pipeline' = Refilled(pipeline, queue, TRUE)
    /\ UNCHANGED closeCount
    /\ StartIfNeeded(stream, pipeline', TRUE, asked)
    /\ UNCHANGED <<queue, callbacks, handshake, idle, callVars, serverVars, historyVars>>

\* The connectivity changed: RestartNetwork stops the stream, clears the
\* pipeline and any error, and enables the network again.
RestartNetwork ==
    /\ MayInterrupt
    /\ enabled
    /\ closeCount' = IF stream \in Started THEN closeCount + 1 ELSE closeCount
    /\ handshake' = FALSE /\ idle' = FALSE
    /\ Disconnected
    /\ pipeline' = Refilled(<<>>, queue, TRUE)
    /\ StartIfNeeded("Initial", pipeline', TRUE, asked)
    /\ UNCHANGED <<queue, enabled, callbacks, serverVars, historyVars>>

-----------------------------------------------------------------------------
(* The end of the application.                                             *)

Launched ==
    /\ launches < MaxRelaunches
    /\ launches' = launches + 1
    /\ enabled' = TRUE /\ callbacks' = {}
    /\ pipeline' = Refilled(<<>>, queue, TRUE)
    /\ closeCount' = 0 /\ handshake' = FALSE /\ idle' = FALSE
    /\ stream' = IF pipeline' = <<>> THEN "Initial" ELSE "Starting"
    /\ asked' = IF pipeline' = <<>> THEN {} ELSE {0}
    /\ Disconnected

\* The application ends; started again it finds its queue on disk.
Relaunch ==
    /\ Launched
    /\ UNCHANGED <<queue, serverVars, made, outcome, told>>

\* HandleSuccessfulWrite tells the user before it removes the batch: the
\* application may end between the two.
RelaunchBeforeRemoval ==
    /\ Ready /\ replies # <<>>
    /\ pipeline # <<>> /\ Head(pipeline) \in callbacks
    /\ told' = [told EXCEPT ![Head(pipeline)] = "ok"]
    /\ Launched
    /\ UNCHANGED <<queue, serverVars, made, outcome>>

-----------------------------------------------------------------------------
(* The server and the connection.                                          *)

\* The server takes the next request and answers it.
ServerApplies ==
    /\ stream = "Open" /\ ended = "no" /\ requests # <<>>
    /\ requests' = Tail(requests)
    /\ replies' = Append(replies, Head(requests))
    /\ IF Head(requests) = Hello
       THEN UNCHANGED serverVars
       ELSE /\ doc' = Head(requests) /\ applied' = applied \cup {Head(requests)}
            /\ UNCHANGED refused
    /\ UNCHANGED <<queue, clientVars, callbacks, ended, historyVars>>

\* It refuses the next request for good, and with it the call.
ServerRefuses ==
    /\ MayInterrupt
    /\ stream = "Open" /\ ended = "no" /\ requests # <<>>
    /\ requests' = Tail(requests)
    /\ refused' = refused \cup ({Head(requests)} \ {Hello})
    /\ ended' = "permanent"
    /\ UNCHANGED <<queue, clientVars, callbacks, replies, doc, applied, historyVars>>

\* The connection breaks; of the answers under way only the first arrive.
ConnectionLost ==
    /\ MayInterrupt
    /\ stream = "Open" /\ ended = "no"
    /\ ended' = "transient"
    /\ \E k \in 0..Len(replies) : replies' = SubSeq(replies, 1, k)
    /\ UNCHANGED <<queue, clientVars, callbacks, requests, serverVars, historyVars>>

Next ==
    \/ WriteMutations
    \/ \E count \in asked : ResumeStart(count)
    \/ TokenFails \/ BackoffElapsed
    \/ HandshakeComplete \/ MutationResult \/ Finish
    \/ IdleTimeout \/ DisableNetwork \/ EnableNetwork \/ RestartNetwork
    \/ Relaunch \/ RelaunchBeforeRemoval
    \/ ServerApplies \/ ServerRefuses \/ ConnectionLost

Spec == Init /\ [][Next]_vars

\* The worker queue runs what is enqueued on it, a backoff elapses, credentials
\* are answered, and a server that is reached answers; a call that ended is
\* noticed.  Nobody has to write, to change the network, or to let a stream
\* become idle.
Fairness ==
    /\ WF_vars(\E count \in asked : ResumeStart(count))
    /\ WF_vars(BackoffElapsed)
    /\ WF_vars(ServerApplies)
    /\ WF_vars(HandshakeComplete) /\ WF_vars(MutationResult) /\ WF_vars(Finish)

FairSpec == Spec /\ Fairness

-----------------------------------------------------------------------------
(* What the pipeline keeps.                                                *)

TypeOK ==
    /\ queue \in Seq(Writes) /\ pipeline \in Seq(Writes)
    /\ callbacks \subseteq Writes /\ applied \subseteq Writes /\ refused \subseteq Writes
    /\ enabled \in BOOLEAN /\ handshake \in BOOLEAN /\ idle \in BOOLEAN
    /\ stream \in {"Initial", "Starting", "Open", "Error", "Backoff"}
    /\ closeCount \in Nat /\ asked \subseteq 0..closeCount
    /\ requests \in Seq(Writes \cup {Hello}) /\ replies \in Seq(Writes \cup {Hello})
    /\ ended \in {"no", "transient", "permanent"}
    /\ doc \in Writes \cup {0} /\ made \in Writes \cup {0}
    /\ outcome \in [Writes -> Outcomes] /\ told \in [Writes -> Outcomes]
    /\ launches \in Nat

\* The pipeline is the oldest part of the queue, and as much of it as fits: no
\* refill after an answer, an error, a restart or a new write leaves one out,
\* takes one twice or forgets to look (FillWritePipeline).
PipelineIsOldestPart ==
    /\ Len(pipeline) = IF enabled THEN Smaller(MaxPendingWrites, Len(queue)) ELSE 0
    /\ \A i \in 1..Len(pipeline) : pipeline[i] = queue[i]

\* "Write responses from the backend are linked to their originating request
\* purely based on order": every answer under way is about the batch at its
\* place in the pipeline, and on a call that stands every batch of the
\* pipeline is answered or still to be taken, once.
AnswersMatchPipeline ==
    handshake =>
        /\ Len(replies) <= Len(pipeline)
        /\ \A i \in 1..Len(replies) : replies[i] = pipeline[i]
        /\ ended = "no" => replies \o requests = pipeline

\* No write is forgotten: while the network is enabled and something waits, the
\* stream is on its way or open, and the idle timer does not run.
NothingIsForgotten ==
    enabled /\ queue # <<>> => stream \in Started /\ ~idle

\* The stream waits for the answer to exactly one request for credentials, the
\* one of this start; answers to the requests of closed starts are not taken
\* for it (the assertion in ResumeStartWithCredentials).
CredentialsAreOfThisStart == (closeCount \in asked) <=> (stream = "Starting")

\* What a completion was told is true: a write reported done has been applied,
\* and a batch removed as acknowledged is not undone by an older one that is
\* sent again later.
AcknowledgedStands ==
    \A n \in Writes :
        outcome[n] = "ok" \/ told[n] = "ok" => n \in applied /\ doc >= n

\* Batches leave the queue oldest first, each once, and every write that left
\* it has an outcome.
SettledInOrder ==
    \A n \in 1..made :
        (outcome[n] = "none") <=> \E i \in 1..Len(queue) : queue[i] = n

\* Only a refusal loses a write, and none that was made after the refused one:
\* broken connections, refused handshakes and restarts reject nothing.
RejectionHasCause ==
    \A n \in Writes : outcome[n] = "error" => \E m \in refused : m >= n

\* "If this was a permanent error, the request itself was the problem": a
\* rejected write is one the server refused (remote_store.cc, HandleWriteError).
\* It is not so when answers are dropped because a write fails first: the front
\* of the pipeline is then a write the server has applied.
RejectedWereRefused == \A n \in Writes : outcome[n] = "error" => n \in refused

\* Every write leaves the queue if the network stays enabled, whatever broke
\* before: a reconnection always comes, and the server gets to the write.
EveryWriteSettles ==
    <>[]enabled => \A n \in Writes : (made >= n) ~> (outcome[n] # "none")

InOrder == INSTANCE OrderedWrites WITH
    waiting <- queue,
    passed <- IF handshake THEN Len(replies) ELSE 0

\* The whole client, with its reconnections and restarts, keeps the promise of
\* OrderedWrites.
KeepsOrder == InOrder!Spec
=============================================================================
