--------------------------- MODULE DocumentListen ---------------------------
(***************************************************************************)
(* The way of a getDocument of one device: the Firestore client under Pods *)
(* that every handler of the game reads with.                              *)
(*                                                                         *)
(* getDocument adds a listener that waits until its view is in step with   *)
(* the server, or the client believes to be offline, and takes itself off  *)
(* at its first event.  Reads of one document share a view as long as one  *)
(* of them listens.  A view follows the cache, which two streams fill: the *)
(* watch stream with what the server has, and the acknowledgements of the  *)
(* device's own writes, which may overtake it.                             *)
(*                                                                         *)
(* Two queues run side by side: the worker queue, on which every handler   *)
(* runs to its end (one action here, with all its calls), and the main     *)
(* queue with the callbacks.                                               *)
(*                                                                         *)
(* One document is modelled, known by its version; nobody deletes one in   *)
(* the game.  A document that is missing has version 0: that the client    *)
(* makes one up for a new target without a document changes nothing.  A    *)
(* stream that is Starting or in Backoff is "starting"; how streams wait   *)
(* for credentials is in WritePipeline.  Left out: resume tokens, which    *)
(* spare the server what the cache has, refused listens, and the           *)
(* collection of the cache.  The server and the connection are external.   *)
(***************************************************************************)
EXTENDS Integers, Sequences, FiniteSets

CONSTANTS
    MaxReads,           \* bound on the calls of getDocument
    MaxWrites,          \* bound on the device's own writes of the document
    MaxVersion,         \* bound on the versions of the document
    MaxBreaks           \* bound on what interrupts the streams

ASSUME BoundsAssumption ==
    {MaxReads, MaxWrites, MaxVersion, MaxBreaks} \subseteq Nat

Reads == 1..MaxReads
Versions == 0..MaxVersion       \* 0: there is no document

VARIABLES
    \* the worker queue
    tasks,              \* the listeners to add and to remove
    listeners,          \* QueryListenersInfo::listeners
    raised,             \* the reads with raised_initial_event_
    view,               \* the View and its last snapshot
    cache,              \* the document in the RemoteDocumentCache
    acked,              \* how many of the own writes are acknowledged
    \* RemoteStore, its watch stream and its WatchChangeAggregator
    enabled,            \* is_network_enabled_
    listened,           \* the target is in listen_targets_
    stream,             \* state_ of the watch stream
    idle,               \* its idleness_timer_ is scheduled
    target,             \* the TargetState
    update,             \* pending_document_updates_, 0 without one
    \* OnlineStateTracker
    online, failed, timer,
    \* the main queue
    mainQueue,          \* events of listeners
    muted,              \* the reads whose listener is muted
    \* the server and the connection
    version,            \* the document's
    writes,             \* the version each own write made, 0 until it is applied
    requests, changes,  \* on the wire, to the server and back
    serving,            \* the server's side of the target
    \* history
    called, wrote,      \* reads so far, and the own writes made before each
    answers,            \* the callbacks each read had
    newest, metadata,   \* the version the last callback was given, and its SnapshotMetadata
    asOf,               \* the server's version at the last call made while none waited
    breaks

storeVars == <<listened, stream, idle, target, update>>
trackerVars == <<online, failed, timer>>
wireVars == <<requests, changes, serving>>
viewVars == <<view, mainQueue, raised>>
answerVars == <<answers, newest, metadata>>
historyVars == <<called, wrote, answerVars, asOf, breaks>>
vars == <<tasks, listeners, viewVars, cache, acked, enabled, storeVars, trackerVars,
          muted, version, writes, wireVars, historyVars>>

NoDocument == [version |-> 0, kind |-> "plain"]
NoView == [open |-> FALSE, current |-> FALSE, doc |-> NoDocument, since |-> 0]
NoTarget == [outstanding |-> 0, current |-> FALSE, changed |-> FALSE]
NotServing == [on |-> FALSE, sent |-> 0]

Init ==
    /\ tasks = <<>> /\ listeners = {} /\ raised = {} /\ view = NoView
    /\ cache = NoDocument /\ acked = 0
    /\ enabled = TRUE /\ listened = FALSE
    /\ stream = "stopped" /\ idle = FALSE /\ target = NoTarget /\ update = 0
    /\ online = "Unknown" /\ failed = FALSE /\ timer = FALSE
    /\ mainQueue = <<>> /\ muted = {}
    /\ version = 0 /\ writes = <<>>
    /\ requests = <<>> /\ changes = <<>> /\ serving = NotServing
    /\ called = 0 /\ wrote = [r \in Reads |-> 0] /\ answers = [r \in Reads |-> 0]
    /\ newest = 0 /\ metadata = [hasPendingWrites |-> FALSE, isFromCache |-> FALSE]
    /\ asOf = 0 /\ breaks = 0

-----------------------------------------------------------------------------
(* Documents, the view and its listeners.                                  *)

\* What the device sees of document: "local" with own writes on top.
Overlaid(document, pending) ==
    IF pending THEN [document EXCEPT !.kind = "local"] ELSE document

\* ShouldWaitForSyncedDocument: an own write that has just been acknowledged
\* is shown as it was until the watch stream brings what it made.
Kept(old, new) == old.kind = "local" /\ new.kind = "committed"

\* The view after its document changed in the cache or the mutation queue.
Updated(v, new) ==
    IF ~v.open \/ Kept(v.doc, new) THEN v ELSE [v EXCEPT !.doc = new]

\* ShouldRaiseInitialEvent of a listener that waits for sync when online.
ShouldRaise(v, state) == v.current \/ state = "Offline"

\* since: of the history, the server's version when the view was opened.
Event(r, v) ==
    [read |-> r, doc |-> v.doc, fromCache |-> ~v.current, since |-> v.since]

\* The vector of listeners has them in the order of their numbers, as they are
\* added in the order of the calls.
InOrder(S) ==
    CHOOSE s \in [1..Cardinality(S) -> S] :
        \A i, j \in 1..Cardinality(S) : i < j => s[i] < s[j]

\* The view becomes v and the online state is state: OnViewSnapshots and
\* OnOnlineStateChanged put the events of the listeners on the main queue.
Show(v, state) ==
    LET told == {r \in listeners : IF r \in raised THEN v # view ELSE ShouldRaise(v, state)}
    IN /\ view' = v
       /\ raised' = raised \cup told
       /\ mainQueue' = mainQueue \o
            [i \in 1..Cardinality(told) |-> Event(InOrder(told)[i], v)]

\* ApplyOnlineStateChange: offline, a view is no longer current.
Seen(v, state) == [v EXCEPT !.current = @ /\ state # "Offline"]

\* Variants of definitions, named Definition_Change, are only used to see
\* that a property notices the change.
UpdateState_TimerKept(state) == online' = state /\ failed' = FALSE /\ UNCHANGED timer

\* OnlineStateTracker::UpdateState
UpdateState(state) == online' = state /\ failed' = FALSE /\ timer' = FALSE

-----------------------------------------------------------------------------
(* The watch stream.                                                       *)

FreshAggregator_Kept == UNCHANGED <<target, update>>

\* A stream that starts or stops has a new WatchChangeAggregator, or none.
FreshAggregator == target' = NoTarget /\ update' = 0

\* HandleWatchStreamStart, after the failures so far.
HandleStart(hasFailed) ==
    IF hasFailed THEN UNCHANGED <<online, timer>> ELSE online' = "Unknown" /\ timer' = TRUE

Disconnected == requests' = <<>> /\ changes' = <<>> /\ serving' = NotServing

Send_Uncounted(request) ==
    /\ requests' = Append(requests, request)
    /\ UNCHANGED <<target, update, changes, serving>>

\* SendWatchRequest and SendUnwatchRequest: one more answer to wait for.
Send(request) ==
    /\ requests' = Append(requests, request)
    /\ target' = [target EXCEPT !.outstanding = @ + 1]
    /\ UNCHANGED <<update, changes, serving>>

\* RemoteStore::Listen
Listen ==
    /\ listened' = TRUE
    /\ CASE enabled /\ stream = "stopped" ->
              /\ stream' = "starting"
              /\ FreshAggregator
              /\ HandleStart(failed)
              /\ UNCHANGED <<idle, failed, wireVars>>
         [] stream = "open" ->
              /\ Send("watch")
              /\ idle' = FALSE
              /\ UNCHANGED <<stream, trackerVars>>
         [] OTHER -> UNCHANGED <<stream, idle, target, update, trackerVars, wireVars>>

\* RemoteStore::StopListening, of the only target.
StopListening ==
    /\ listened' = FALSE
    /\ UNCHANGED stream
    /\ IF stream = "open"
       THEN /\ Send("unwatch")
            /\ idle' = TRUE
            /\ UNCHANGED trackerVars
       ELSE /\ IF enabled THEN UpdateState("Unknown") ELSE UNCHANGED trackerVars
            /\ UNCHANGED <<idle, target, update, wireVars>>

\* A bound: how often something may interrupt the streams.
MayBreak == breaks < MaxBreaks /\ breaks' = breaks + 1

\* Parts no action of the streams changes.
offlineVars == <<tasks, listeners, cache, acked, muted, version, writes,
                 called, wrote, answerVars, asOf>>

\* OnWatchStreamOpen restores the watch.
StreamOpens ==
    /\ stream = "starting"
    /\ stream' = "open"
    /\ IF listened THEN Send("watch") ELSE UNCHANGED <<target, update, wireVars>>
    /\ UNCHANGED <<offlineVars, viewVars, enabled, listened, idle, trackerVars, breaks>>

\* OnWatchStreamClose with an error: the first failure, other than of a stream
\* that was online, makes the client offline; the stream is started again.
StreamFails ==
    /\ MayBreak
    /\ stream # "stopped"
    /\ Disconnected /\ FreshAggregator
    /\ idle' = FALSE
    /\ IF listened
       THEN /\ stream' = "starting"
            /\ IF online = "Online"
               THEN HandleStart(FALSE) /\ UNCHANGED failed
               ELSE online' = "Offline" /\ failed' = TRUE /\ timer' = FALSE
       ELSE stream' = "stopped" /\ UpdateState("Unknown")
    /\ Show(Seen(view, online'), online')
    /\ UNCHANGED <<offlineVars, enabled, listened>>

\* The idle timer closes the stream.
IdleTimeout ==
    /\ idle
    /\ stream' = "stopped" /\ idle' = FALSE
    /\ Disconnected /\ FreshAggregator
    /\ UpdateState("Unknown")
    /\ UNCHANGED <<offlineVars, viewVars, enabled, listened, breaks>>

\* The timer of HandleWatchStreamStart.
OnlineTimeout ==
    /\ timer
    /\ timer' = FALSE /\ online' = "Offline"
    /\ Show(Seen(view, "Offline"), "Offline")
    /\ UNCHANGED <<offlineVars, enabled, storeVars, failed, wireVars, breaks>>

DisableNetwork ==
    /\ MayBreak
    /\ enabled
    /\ enabled' = FALSE
    /\ stream' = "stopped" /\ idle' = FALSE
    /\ Disconnected /\ FreshAggregator
    /\ UpdateState("Offline")
    /\ Show(Seen(view, "Offline"), "Offline")
    /\ UNCHANGED <<offlineVars, listened>>

\* RemoteStore::EnableNetwork, of a stream that is stopped.
StartAgain ==
    /\ enabled' = TRUE
    /\ failed' = FALSE
    /\ online' = "Unknown" /\ timer' = listened
    /\ stream' = IF listened THEN "starting" ELSE "stopped"
    /\ FreshAggregator

EnableNetwork ==
    /\ ~enabled
    /\ StartAgain
    /\ UNCHANGED <<offlineVars, viewVars, listened, idle, wireVars, breaks>>

\* The connectivity changed.
RestartNetwork ==
    /\ MayBreak
    /\ enabled
    /\ StartAgain
    /\ idle' = FALSE
    /\ Disconnected
    /\ UNCHANGED <<offlineVars, viewVars, listened>>

-----------------------------------------------------------------------------
(* What arrives on it (OnWatchStreamChange).                               *)

Active_Always == listened

\* TargetDataForActiveTarget: no answer to a request is outstanding.
Active == listened /\ target.outstanding = 0

Newer_Always(document, v) == TRUE

\* The condition of PopulateDocumentChanges.
Newer(document, v) ==
    \/ v > document.version
    \/ v = document.version /\ document.kind = "committed"

Pending == acked < Len(writes)

\* RaiseWatchSnapshot: the pending document goes to the cache if it is newer,
\* and the view follows; a target that changed makes it current.
RaiseSnapshot ==
    LET isNews == update > 0 /\ Newer(cache, update)
        moved == Active /\ target.changed
        v == IF moved /\ view.open THEN [view EXCEPT !.current = target.current] ELSE view
    IN /\ cache' = IF isNews THEN [version |-> update, kind |-> "plain"] ELSE cache
       /\ update' = 0
       /\ target' = [target EXCEPT !.changed = @ /\ ~moved]
       /\ Show(IF isNews THEN Updated(v, Overlaid(cache', Pending)) ELSE v, "Online")

\* HandleTargetChange and HandleDocumentChange.
Aggregate(change) ==
    /\ target' =
        CASE change.type = "added" ->
                [target EXCEPT !.outstanding = @ - 1,
                               !.changed = @ /\ target.outstanding # 1]
          [] change.type = "removed" ->
                IF target.outstanding = 1 THEN NoTarget
                ELSE [target EXCEPT !.outstanding = @ - 1]
          [] change.type = "current" /\ Active ->
                [target EXCEPT !.current = TRUE, !.changed = TRUE]
          [] change.type = "document" /\ Active -> [target EXCEPT !.changed = TRUE]
          [] OTHER -> target
    /\ update' = IF change.type = "document" /\ Active THEN change.version ELSE update
    /\ UNCHANGED <<cache, viewVars>>

\* Whatever arrives shows that the client is online.
WatchChange ==
    /\ changes # <<>>
    /\ changes' = Tail(changes)
    /\ UpdateState("Online")
    /\ IF Head(changes).type = "snapshot" THEN RaiseSnapshot ELSE Aggregate(Head(changes))
    /\ UNCHANGED <<tasks, listeners, acked, enabled, listened, stream, idle, muted,
                   version, writes, requests, serving, historyVars>>

-----------------------------------------------------------------------------
(* Reads and writes of the game.                                           *)

\* GetDocument; its listener is added on the worker queue.
GetDocument ==
    /\ called < MaxReads
    /\ called' = called + 1
    /\ wrote' = [wrote EXCEPT ![called'] = Len(writes)]
    /\ asOf' = IF \A r \in 1..called : answers[r] > 0 THEN version ELSE asOf
    /\ tasks' = Append(tasks, [op |-> "add", read |-> called'])
    /\ UNCHANGED <<listeners, viewVars, cache, acked, enabled, storeVars, trackerVars,
                   muted, version, writes, wireVars, answerVars, breaks>>

\* EventManager::AddQueryListener and, for the first, SyncEngine::Listen.
AddListener(r) ==
    LET fresh == [open |-> TRUE, current |-> FALSE, since |-> version,
                  doc |-> Overlaid(cache, Pending)]
        v == IF view.open THEN view ELSE fresh
    IN /\ listeners' = listeners \cup {r}
       /\ view' = v
       /\ IF ShouldRaise(v, online)
          THEN raised' = raised \cup {r} /\ mainQueue' = Append(mainQueue, Event(r, v))
          ELSE UNCHANGED <<raised, mainQueue>>
       /\ IF view.open THEN UNCHANGED <<storeVars, trackerVars, wireVars>> ELSE Listen

RemoveListener_ViewStays(r) ==
    /\ listeners' = listeners \ {r}
    /\ UNCHANGED <<viewVars, storeVars, trackerVars, wireVars>>

\* EventManager::RemoveQueryListener and, for the last, StopListening.
RemoveListener(r) ==
    /\ listeners' = listeners \ {r}
    /\ UNCHANGED <<raised, mainQueue>>
    /\ IF listeners' = {}
       THEN view' = NoView /\ StopListening
       ELSE UNCHANGED <<view, storeVars, trackerVars, wireVars>>

RunTask ==
    /\ tasks # <<>>
    /\ tasks' = Tail(tasks)
    /\ IF Head(tasks).op = "add"
       THEN AddListener(Head(tasks).read)
       ELSE RemoveListener(Head(tasks).read)
    /\ UNCHANGED <<cache, acked, enabled, muted, version, writes, historyVars>>

\* Remove, which mutes the listener before its callback is called.
Muted(r) == muted \cup {r}

\* AsyncEventListener::OnEvent on the main queue and ListenOnce::OnEvent.
Callback ==
    /\ mainQueue # <<>>
    /\ mainQueue' = Tail(mainQueue)
    /\ LET event == Head(mainQueue)
           r == event.read
       IN IF r \in muted
          THEN UNCHANGED <<tasks, muted, answerVars>>
          ELSE /\ muted' = Muted(r)
               /\ tasks' = Append(tasks, [op |-> "remove", read |-> r])
               /\ answers' = [answers EXCEPT ![r] = @ + 1]
               /\ newest' = event.doc.version
               /\ metadata' = [hasPendingWrites |-> event.doc.kind = "local",
                               isFromCache |-> event.fromCache]
    /\ UNCHANGED <<listeners, view, raised, cache, acked, enabled, storeVars,
                   trackerVars, version, writes, wireVars, called, wrote, asOf, breaks>>

\* SyncEngine::WriteMutations: the view shows the write at once.
Write ==
    /\ Len(writes) < MaxWrites
    /\ writes' = Append(writes, 0)
    /\ Show(Updated(view, Overlaid(cache, TRUE)), online)
    /\ UNCHANGED <<tasks, listeners, cache, acked, enabled, storeVars, trackerVars, muted,
                   version, wireVars, historyVars>>

Committed_Always(document, v) == [version |-> v, kind |-> "committed"]

\* ApplyBatchResult: what the write made, unless the watch stream was faster.
Committed(document, v) ==
    IF document.version < v THEN [version |-> v, kind |-> "committed"] ELSE document

\* HandleSuccessfulWrite, in the order of the writes.
Acknowledged ==
    /\ Pending /\ writes[acked + 1] > 0
    /\ acked' = acked + 1
    /\ cache' = Committed(cache, writes[acked'])
    /\ Show(Updated(view, Overlaid(cache', acked' < Len(writes))), online)
    /\ UNCHANGED <<tasks, listeners, enabled, storeVars, trackerVars, muted, version,
                   writes, wireVars, historyVars>>

-----------------------------------------------------------------------------
(* The server applies writes, takes requests in order, and sends what it    *)
(* serves, then and whenever it changes, up to a consistent snapshot.       *)

serverFrame == <<tasks, listeners, viewVars, cache, acked, enabled, storeVars,
                 trackerVars, muted, historyVars>>

OtherWrites ==
    /\ version < MaxVersion
    /\ version' = version + 1
    /\ UNCHANGED <<serverFrame, writes, wireVars>>

AppliesWrite ==
    /\ version < MaxVersion
    /\ \E i \in DOMAIN writes :
        /\ writes[i] = 0 /\ \A j \in 1..(i - 1) : writes[j] > 0
        /\ writes' = [writes EXCEPT ![i] = version + 1]
    /\ version' = version + 1
    /\ UNCHANGED <<serverFrame, wireVars>>

Message(type) == [type |-> type, version |-> 0]

\* The document, for a client that was sent an older version.
News(sent) ==
    IF sent < version THEN <<[type |-> "document", version |-> version]>> ELSE <<>>

TakesRequest ==
    /\ requests # <<>>
    /\ requests' = Tail(requests)
    /\ IF Head(requests) = "watch"
       THEN /\ serving' = [on |-> TRUE, sent |-> version]
            /\ changes' = changes \o <<Message("added")>> \o News(0)
                            \o <<Message("current"), Message("snapshot")>>
       ELSE /\ serving' = NotServing
            /\ changes' = Append(changes, Message("removed"))
    /\ UNCHANGED <<serverFrame, version, writes>>

CatchesUp ==
    /\ serving.on /\ serving.sent < version
    /\ serving' = [serving EXCEPT !.sent = version]
    /\ changes' = changes \o News(serving.sent) \o <<Message("snapshot")>>
    /\ UNCHANGED <<serverFrame, requests, version, writes>>

Next ==
    \/ GetDocument \/ RunTask \/ Callback
    \/ Write \/ Acknowledged
    \/ StreamOpens \/ StreamFails \/ IdleTimeout \/ OnlineTimeout
    \/ DisableNetwork \/ EnableNetwork \/ RestartNetwork
    \/ WatchChange
    \/ OtherWrites \/ AppliesWrite \/ TakesRequest \/ CatchesUp

Spec == Init /\ [][Next]_vars

\* The device's queues run, its timers fire and what arrives is handled.
ClientFairness ==
    /\ WF_vars(RunTask) /\ WF_vars(Callback)
    /\ WF_vars(OnlineTimeout) /\ WF_vars(WatchChange) /\ WF_vars(StreamOpens)

\* A server that is reached answers.
ServerFairness == WF_vars(TakesRequest) /\ WF_vars(CatchesUp)

FairSpec == Spec /\ ClientFairness /\ ServerFairness

-----------------------------------------------------------------------------
(* Properties.                                                             *)

Documents == [version : Versions, kind : {"plain", "committed", "local"}]

TypeOK ==
    /\ tasks \in Seq([op : {"add", "remove"}, read : Reads])
    /\ listeners \subseteq Reads /\ raised \subseteq Reads /\ muted \subseteq Reads
    /\ view \in [open : BOOLEAN, current : BOOLEAN, doc : Documents, since : Versions]
    /\ cache \in [version : Versions, kind : {"plain", "committed"}]
    /\ writes \in Seq(Versions) /\ acked \in 0..Len(writes)
    /\ enabled \in BOOLEAN /\ listened \in BOOLEAN /\ idle \in BOOLEAN
    /\ stream \in {"stopped", "starting", "open"}
    /\ target \in [outstanding : Nat, current : BOOLEAN, changed : BOOLEAN]
    /\ update \in Versions /\ version \in Versions
    /\ newest \in Versions /\ asOf \in Versions
    /\ metadata \in [hasPendingWrites : BOOLEAN, isFromCache : BOOLEAN]
    /\ online \in {"Unknown", "Online", "Offline"}
    /\ failed \in BOOLEAN /\ timer \in BOOLEAN
    /\ mainQueue \in Seq([read : Reads, doc : Documents, fromCache : BOOLEAN,
                          since : Versions])
    /\ requests \in Seq({"watch", "unwatch"})
    /\ changes \in Seq([type : {"added", "removed", "document", "current", "snapshot"},
                        version : Versions])
    /\ serving \in [on : BOOLEAN, sent : Versions]
    /\ called \in 0..MaxReads /\ breaks \in 0..MaxBreaks
    /\ wrote \in [Reads -> Nat] /\ answers \in [Reads -> Nat]

\* A getDocument calls its completion once, however many events its listener
\* had before it was removed.
AnsweredOnce == \A r \in Reads : answers[r] <= 1

\* An answer that does not say it comes from the cache is at least as new as
\* what the server had when the view was opened, and no guess of what an own
\* write made: changes still under way from an earlier listen are not taken for
\* it, and "there is no document" in particular is the server's word.
ReadsAreFresh ==
    \A i \in DOMAIN mainQueue :
        LET event == mainQueue[i]
        IN ~event.fromCache /\ event.doc.kind # "local" =>
                event.doc.version >= event.since /\ event.doc.kind = "plain"

\* A read sees every write its device made before it, acknowledged or not,
\* online or offline, though the watch stream may be behind.
ReadYourWrites ==
    \A i \in DOMAIN mainQueue :
        LET event == mainQueue[i]
        IN event.doc.kind # "local" =>
            \A w \in 1..wrote[event.read] :
                writes[w] > 0 /\ event.doc.version >= writes[w]

\* Callbacks never go back to an older version, nor to an older one under own
\* writes, through reconnections, cached answers and acknowledgements that
\* overtake the watch stream or are overtaken by it.
VersionsNeverGoBack ==
    \A i \in DOMAIN mainQueue :
        /\ mainQueue[i].doc.version >= newest
        /\ \A j \in 1..(i - 1) : mainQueue[j].doc.version <= mainQueue[i].doc.version

\* The assertions of OnlineStateTracker: the timer runs only in the state
\* Unknown and not after a failure, and is never found running when a stopped
\* stream starts; a client that is online has no failures.
TrackerAssertions ==
    /\ timer => online = "Unknown" /\ ~failed /\ stream # "stopped"
    /\ online = "Online" => ~failed /\ stream = "open"

\* All that a read is promised, from its call to its callback, with the queues,
\* the shared view and the streams between them: HonestReads.
API == INSTANCE HonestReads
ReadsAreHonest == API!Spec

\* Every getDocument is answered, from the server or the cache: no reconnection,
\* change of the network or other read leaves one waiting.
EveryReadAnswers == \A r \in Reads : (called >= r) ~> (answers[r] > 0)
=============================================================================
