--------------------------- MODULE DocumentCache ---------------------------
(***************************************************************************)
(* What a device shows of one document while its writes are on their way:  *)
(* LocalStore's remote document cache, with the signed-in user's pending   *)
(* writes laid over it.  Acknowledgements come on the write stream         *)
(* (WritePipeline), the document's states on the watch stream, and nothing *)
(* orders the two.  The document is an assignment, its field `results' is  *)
(* a set: a write of Clears is ClearResults' setData, merged; every other  *)
(* write is AddResult's updateData with an arrayUnion, which fails where   *)
(* there is no document.                                                   *)
(***************************************************************************)
EXTENDS WritePipeline

CONSTANTS
    Clears,         \* the writes that empty the field
    MaxForeign      \* bound: changes made by other devices

ASSUME CacheAssumption == Clears \subseteq Writes /\ MaxForeign \in Nat

VARIABLES
    history,    \* the field after every change, as the service has it
    cache,      \* the cached document
    ackVersions,\* per unread answer: the version that it carries
    watched     \* the version of the last watch snapshot

docVars == <<history, cache, ackVersions, watched>>

\* The elements that other devices add, apart from those of the writes.
Foreign  == {0 - n : n \in 1..MaxForeign}
Elements == Writes \cup Foreign

\* has_pending_writes of a cached document: it holds acknowledged writes that
\* no snapshot has confirmed.  "unknown" is an UnknownDocument, which always
\* has them; "none" is a document that was never read.
Cached ==
    [kind : {"none", "unknown", "known"}, version : Nat,
     value : SUBSET Elements, committed : BOOLEAN]

CacheTypeOK ==
    /\ TypeOK
    /\ history \in Seq(SUBSET Elements)
    /\ cache \in Cached
    /\ cache.version \in 0..Len(history)
    /\ ackVersions \in Seq(1..Len(history))
    /\ Len(ackVersions) = Len(stream.answers)
    /\ watched \in 0..cache.version

CacheInit ==
    /\ Init
    /\ history = <<{}>>
    /\ cache = [kind |-> "none", version |-> 0, value |-> {}, committed |-> FALSE]
    /\ ackVersions = << >>
    /\ watched = 0

Latest == history[Len(history)]

\* The field after one write.
After(value, w) == IF w \in Clears THEN {} ELSE value \cup {w}

\* The batches that GetDocument applies, in the order of their numbers.
Waiting == Queued(user)

\* What LocalDocumentsView::GetDocument makes of the field: the writes after
\* the last clear, and the cached field below them if nothing clears it.
Shown ==
    LET clears == Waiting \cap Clears
    IN  IF clears # {}
        THEN {w \in Waiting \ Clears : \E c \in clears :
                  c < w /\ \A d \in clears : d <= c}
        ELSE IF cache.kind = "known"
             THEN cache.value \cup Waiting
             ELSE {}
----------------------------------------------------------------------------
\* The service applies w; a write that changes nothing makes no new version.
Record(w) ==
    history' = IF After(Latest, w) = Latest
               THEN history
               ELSE Append(history, After(Latest, w))

ApplyWrite ==
    /\ Apply
    /\ Record(Head(stream.sent).write)
    /\ ackVersions' = Append(ackVersions, Len(history'))
    /\ UNCHANGED <<cache, watched>>

ArriveLateWrite ==
    /\ ArriveLate
    /\ IF Head(late).write \in Bad THEN UNCHANGED history
                                   ELSE Record(Head(late).write)
    /\ UNCHANGED <<cache, ackVersions, watched>>

(* Another device changes the document.                                    *)
ForeignWrite ==
    /\ \E x \in Foreign :
           /\ \A v \in DOMAIN history : x \notin history[v]
           /\ history' = Append(history, Latest \cup {x})
    /\ UNCHANGED <<vars, cache, ackVersions, watched>>

\* ApplyToRemoteDocument of a batch, at the version of its answer: an update
\* cannot be applied to a document that is not there.
Patched(w, version) ==
    IF w \in Clears \/ cache.kind = "known"
    THEN [kind |-> "known", version |-> version,
          value |-> After(cache.value, w), committed |-> TRUE]
    ELSE [kind |-> "unknown", version |-> version,
          value |-> {}, committed |-> TRUE]

\* Mutant: an acknowledged document counts as confirmed.
AcknowledgedAsClean(w, version) ==
    IF cache.version < version
    THEN [Patched(w, version) EXCEPT !.committed = FALSE]
    ELSE cache

\* ApplyBatchResult: the acknowledged write is applied to the cached document,
\* unless a snapshot has already brought a version that includes it.
Acknowledged(w, version) ==
    IF cache.version < version THEN Patched(w, version) ELSE cache

ReadWriteResult ==
    /\ ReadResult
    /\ cache' = Acknowledged(Head(pipeline).write, Head(ackVersions))
    /\ ackVersions' = Tail(ackVersions)
    /\ UNCHANGED <<history, watched>>

\* Mutant: no snapshot is outdated.
AcceptAll(version) == TRUE

\* Mutant: a snapshot of the cached version is always outdated.
NewerOnly(version) == version > cache.version

\* ApplyRemoteEvent: outdated states of the document are ignored.
Accepted(version) ==
    version > cache.version \/ (version = cache.version /\ cache.committed)

(* A watch snapshot; later ones are never older.                           *)
ApplyRemoteEvent(version) ==
    /\ version > watched
    /\ watched' = version
    /\ cache' = IF Accepted(version)
                THEN [kind |-> "known", version |-> version,
                      value |-> history[version], committed |-> FALSE]
                ELSE cache
    /\ UNCHANGED <<vars, history, ackVersions>>

(* The pipeline's other steps leave the document and the cache alone: the  *)
(* answers of a call that is over are gone.                                *)
Alongside ==
    /\ ackVersions' = SubSeq(ackVersions, 1, Len(stream'.answers))
    /\ UNCHANGED <<history, cache, watched>>

CacheNext ==
    \/ ApplyWrite
    \/ ArriveLateWrite
    \/ ForeignWrite
    \/ ReadWriteResult
    \/ \E version \in DOMAIN history : ApplyRemoteEvent(version)
    \/ WriteMutations /\ Alongside
    \/ Respond /\ Alongside
    \/ IdleTimeout /\ Alongside
    \/ (Greet \/ Refuse) /\ Alongside
    \/ Failure /\ Alongside

allVars == <<vars, docVars>>

(* The pipeline's fairness, and a watch stream that catches up: it always  *)
(* ends with the newest state.                                             *)
CacheFairness ==
    /\ WF_allVars(Respond /\ Alongside)
    /\ WF_allVars(ReadWriteResult)
    /\ WF_allVars((Greet \/ Refuse) /\ Alongside)
    /\ WF_allVars(ApplyWrite)
    /\ WF_allVars(ApplyRemoteEvent(Len(history)))

CacheSafety == CacheInit /\ [][CacheNext]_allVars
CacheSpec == CacheSafety /\ CacheFairness
----------------------------------------------------------------------------
(* A cached document without unconfirmed writes is the service's at its    *)
(* version: acknowledgements and snapshots, in whatever order, do not mix. *)
CleanCacheIsTheServices ==
    cache.kind = "known" /\ ~cache.committed =>
        cache.value = history[cache.version]

\* The service had w in the field and has had the field without it later.
ErasedByTheService(w) ==
    \E v, later \in DOMAIN history :
        v < later /\ w \in history[v] /\ w \notin history[later]

\* A clear issued after w is pending.
ClearedHere(w) == \E c \in Clears \cap Waiting : w < c

\* The answer about w carries the version of another acknowledged write, as
\* it does when both were sent before and had arrived already: neither changes
\* the document any more.
AnsweredWithOldVersion(w) ==
    /\ cache.committed
    /\ ackVersions # << >>
    /\ Head(ackVersions) = cache.version
    /\ Head(pipeline).write = w

(* A result does not disappear from the screen while it goes from the      *)
(* queue to the cache and is confirmed.  It does so only when another user *)
(* signs in, when the device or the service has cleared the field, when    *)
(* the SDK takes it (or the write that made the document) for the write    *)
(* that the service has refused, or when its second arrival is answered    *)
(* with a version that the cache has already, but without the write.       *)
OwnWritesStay ==
    [][\A w \in (Shown \ Shown') \cap Writes :
          \/ user' # user
          \/ ClearedHere(w)'
          \/ ErasedByTheService(w)
          \/ AnsweredWithOldVersion(w)
          \/ /\ EndNoticed /\ WriteError
             /\ (w = Blamed.write \/ cache.kind # "known")]_allVars

(* In the end the device shows what the service has: a snapshot that shows *)
(* nothing newer than the acknowledgement still corrects the cache.        *)
ViewConverges == []<>(cache.kind = "known" /\ Shown = Latest)
============================================================================
