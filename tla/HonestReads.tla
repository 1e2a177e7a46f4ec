----------------------------- MODULE HonestReads -----------------------------
(***************************************************************************)
(* What getDocument promises the game about one document, without queues,  *)
(* listeners, streams or a cache.  A read is answered at most once, with a *)
(* version of the server's and with two flags, those of SnapshotMetadata:  *)
(*                                                                         *)
(*   - a version is never older than one that was given before, and is     *)
(*     one the server has had;                                             *)
(*   - without pending writes shown on top, the version has every write    *)
(*     that the device made before it asked, and the server has applied    *)
(*     them;                                                               *)
(*   - if it is not said to be from the cache either, it is at least as    *)
(*     new as what the server had when the device asked.                   *)
(*                                                                         *)
(* Reads that overlap are one conversation: the last promise counts from   *)
(* the first of them.  A missing document has version 0; that it is        *)
(* missing, from the cache, is what the game is told as an error.          *)
(***************************************************************************)
EXTENDS Integers, Sequences

CONSTANT MaxReads       \* bound on the calls

VARIABLES
    version,        \* the server's
    writes,         \* the version each write of the device made, 0 until it is applied
    called, wrote,  \* the reads so far, and the writes made before each
    answers,        \* how often each was answered
    newest,         \* the version in the last answer
    metadata,       \* its flags
    asOf            \* what the server had when the first of the reads under way was called

readVars == <<called, wrote, answers, newest, metadata, asOf>>
vars == <<version, writes, readVars>>

Reads == 1..MaxReads
Metadata == [hasPendingWrites : BOOLEAN, isFromCache : BOOLEAN]

Init ==
    /\ version = 0 /\ writes = <<>>
    /\ called = 0 /\ wrote = [r \in Reads |-> 0] /\ answers = [r \in Reads |-> 0]
    /\ newest = 0 /\ metadata \in Metadata /\ asOf = 0

Awaited == {r \in 1..called : answers[r] = 0}

Call ==
    /\ called < MaxReads
    /\ called' = called + 1
    /\ wrote' = [wrote EXCEPT ![called'] = Len(writes)]
    /\ asOf' = IF Awaited = {} THEN version ELSE asOf
    /\ UNCHANGED <<version, writes, answers, newest, metadata>>

Has(v, r) == \A w \in 1..wrote[r] : writes[w] \in 1..v

Answer(r) ==
    /\ answers' = [answers EXCEPT ![r] = @ + 1]
    /\ newest' \in newest..version
    /\ metadata' \in Metadata
    /\ IF metadata'.hasPendingWrites THEN writes # <<>> ELSE Has(newest', r)
    /\ metadata' = [hasPendingWrites |-> FALSE, isFromCache |-> FALSE] => newest' >= asOf
    /\ UNCHANGED <<version, writes, called, wrote, asOf>>

Write ==
    /\ writes' = Append(writes, 0)
    /\ UNCHANGED <<version, readVars>>

\* The server applies a write of the device, the oldest first, or of another.
Changes ==
    /\ version' = version + 1
    /\ \/ \E w \in DOMAIN writes :
            /\ writes[w] = 0 /\ \A u \in 1..(w - 1) : writes[u] > 0
            /\ writes' = [writes EXCEPT ![w] = version']
       \/ UNCHANGED writes
    /\ UNCHANGED readVars

Next == Call \/ (\E r \in Awaited : Answer(r)) \/ Write \/ Changes

Spec == Init /\ [][Next]_vars

=============================================================================
