--------------------------- MODULE WriteParallel ---------------------------
(***************************************************************************)
(* packstore.Store.WriteParallel with either of its producers: the tree    *)
(* build of ingest.Dir (Ingest) or the pack that an inbox worker reads     *)
(* (PackStream).  A distributor goroutine pulls objects from the producer  *)
(* into a channel; workers take them, skip what is present, append the     *)
(* rest and fsync in batches; any error cancels everyone; the call returns *)
(* after all goroutines have ended and after one more fsync.               *)
(*                                                                         *)
(* The store is what PackStore makes of it: records are visible when       *)
(* appended and durable at the next fsync or seal, and one that fails      *)
(* poisons the write path.  Meanwhile another run of WriteParallel appends *)
(* records of its own, and the store may be closed.                        *)
(***************************************************************************)
EXTENDS Ingest

CONSTANTS
  Writer,     \* worker goroutines
  ChanCap,    \* capacity of the channel; the code's is 2 * Writers
  BatchSize,  \* records after which a worker fsyncs
  OtherKeys,  \* keys another run writes meanwhile
  Packs,      \* the packs that may be uploaded, as sequences of objects
  Faults      \* whether I/O may fail

VARIABLES stream, pos

P == INSTANCE PackStream

ASSUME WriteParallelAssumption ==
  /\ ChanCap \in Nat \ {0} /\ BatchSize \in Nat \ {0}
  /\ OtherKeys \subseteq Key /\ Faults \in BOOLEAN
  /\ Packs \subseteq Seq(P!Object)
  /\ Writer # {}

VARIABLES
  source,   \* "tree" or "pack"
  dpc, dobj, \* the distributor: control state, object it holds
  ch, chClosed,
  wpc, wobj, pending,  \* the workers: control state, object, unsynced records
  seen,     \* the keys some worker has taken
  cancelled, \* ctx is done
  egErr,    \* errgroup's first error
  stored, durable,  \* the store: visible and durable keys
  failed,   \* the write path is poisoned
  shut,     \* the store is closed
  nStored, nDeduped,  \* WriteStats
  result,   \* of the call
  mine,     \* history: keys this run appended
  faults    \* history: the errors that really happened

distVars == <<dpc, dobj>>
chanVars == <<ch, chClosed>>
workVars == <<wpc, wobj, pending, seen>>
groupVars == <<cancelled, egErr, result>>
storeVars == <<stored, durable, failed, shut>>
statVars == <<nStored, nDeduped>>
histVars == <<mine, faults>>
packVars == <<stream, pos>>
runVars == <<distVars, chanVars, workVars, groupVars, storeVars, statVars, histVars>>
vars == <<source, ingestVars, packVars, runVars>>

NoObj == [key |-> NoKey, genuine |-> FALSE]

\* A goroutine of the group returns: the first error is kept.
Returns(e) == egErr' = IF egErr = "none" THEN e ELSE egErr

----------------------------------------------------------------------------
(* The distributor.                                                         *)

\* The build yields the next object.
NextBuilt ==
  /\ dpc = "next" /\ source = "tree"
  /\ Receive
  /\ dobj' = [key |-> Head(built), genuine |-> TRUE] /\ dpc' = "send"
  /\ UNCHANGED <<source, packVars, chanVars, workVars, groupVars, storeVars, statVars, histVars>>

\* The Reader yields the next record, having checked the magic.
NextMagic ==
  /\ dpc = "next" /\ source = "pack"
  /\ P!ReadMagic
  /\ UNCHANGED <<source, ingestVars, runVars>>

NextRecord ==
  /\ dpc = "next" /\ source = "pack"
  /\ \E o \in P!Object : P!ReadRecord(o) /\ dobj' = o
  /\ dpc' = "send"
  /\ UNCHANGED <<source, ingestVars, chanVars, workVars, groupVars, storeVars, statVars, histVars>>

\* The iterator ends without an error; the deferred close ends the workers.
IteratorEnds ==
  /\ dpc = "next"
  /\ \/ source = "tree" /\ Drained /\ ~buildErr /\ UNCHANGED packVars
     \/ source = "pack" /\ P!ReadEnd
  /\ dpc' = "ended" /\ chClosed' = TRUE
  /\ UNCHANGED <<source, ingestVars, dobj, ch, workVars, groupVars, storeVars, statVars, histVars>>

\* The iterator yields its error: cancel, and the group gets it.
IteratorFails ==
  /\ dpc = "next"
  /\ \/ source = "tree" /\ Drained /\ buildErr /\ UNCHANGED packVars
     \/ source = "pack" /\ P!StreamFails
  /\ dpc' = "ended" /\ chClosed' = TRUE
  /\ cancelled' = TRUE /\ Returns("input") /\ faults' = faults \cup {"input"}
  /\ UNCHANGED <<source, ingestVars, dobj, ch, workVars, result, storeVars, statVars, mine>>

\* The select: the channel has room.
Send ==
  /\ dpc = "send"
  /\ Len(ch) < ChanCap
  /\ ch' = Append(ch, dobj)
  /\ dobj' = NoObj /\ dpc' = "next"
  /\ UNCHANGED <<source, ingestVars, packVars, chClosed, workVars, groupVars, storeVars, statVars,
                 histVars>>

\* The select: the run is cancelled.  The loop body returns nil, and the iterator
\* is told to stop: objects cancels the build and drains its channel.
SendCancelled ==
  /\ dpc = "send" /\ cancelled
  /\ dpc' = "drain" /\ dobj' = NoObj
  /\ IF source = "tree" THEN CancelBuild ELSE UNCHANGED ingestVars
  /\ UNCHANGED <<source, packVars, chanVars, workVars, groupVars, storeVars, statVars, histVars>>

Drain ==
  /\ dpc = "drain" /\ source = "tree"
  /\ Receive
  /\ UNCHANGED <<source, packVars, runVars>>

\* Mutant: the iterator returns without draining its channel.
MayStopAtOnce == TRUE

\* The iterator has returned.
MayStop == source = "pack" \/ Drained

\* Mutant: the distributor returns ctx.Err() when it finds the run cancelled.
StoppedCancelled ==
  /\ dpc = "drain"
  /\ MayStop
  /\ dpc' = "ended" /\ chClosed' = TRUE /\ Returns("cancelled")
  /\ UNCHANGED <<source, ingestVars, packVars, dobj, ch, workVars, cancelled, result, storeVars,
                 statVars, histVars>>

Stopped ==
  /\ dpc = "drain"
  /\ MayStop
  /\ dpc' = "ended" /\ chClosed' = TRUE
  /\ UNCHANGED <<source, ingestVars, packVars, dobj, ch, workVars, groupVars, storeVars, statVars,
                 histVars>>

----------------------------------------------------------------------------
(* A worker.                                                                *)

Move(w, step) == wpc' = [wpc EXCEPT ![w] = step]

Take(w) ==
  /\ wpc[w] = "recv" /\ ch # <<>>
  /\ ch' = Tail(ch) /\ wobj' = [wobj EXCEPT ![w] = Head(ch)]
  /\ Move(w, "seen")
  /\ UNCHANGED <<source, ingestVars, packVars, distVars, chClosed, pending, seen, groupVars,
                 storeVars, statVars, histVars>>

\* The channel is closed and empty, or the run is cancelled.
Leave(w) ==
  /\ wpc[w] = "recv"
  /\ cancelled \/ (chClosed /\ ch = <<>>)
  /\ Move(w, "ended")
  /\ UNCHANGED <<source, ingestVars, packVars, distVars, chanVars, wobj, pending, seen, groupVars,
                 storeVars, statVars, histVars>>

\* Back to the select with nothing written.
Skip(w) ==
  /\ nDeduped' = nDeduped + 1
  /\ wobj' = [wobj EXCEPT ![w] = NoObj]
  /\ Move(w, "recv")
  /\ UNCHANGED <<source, ingestVars, packVars, distVars, chanVars, pending, groupVars, storeVars,
                 nStored, histVars>>

\* seen.addIfAbsent finds the key: a duplicate within the stream.
Duplicate(w) ==
  /\ wpc[w] = "seen" /\ wobj[w].key \in seen
  /\ Skip(w) /\ UNCHANGED seen

\* Mutant: the lookup in seen and the insertion are two steps, and another worker
\* comes between.
ClaimUnlocked(w) ==
  /\ wpc[w] = "seen"
  /\ seen' = seen \cup {wobj[w].key}
  /\ Move(w, "has")
  /\ UNCHANGED <<source, ingestVars, packVars, distVars, chanVars, wobj, pending, groupVars,
                 storeVars, statVars, histVars>>

Claim(w) ==
  /\ wpc[w] = "seen" /\ wobj[w].key \notin seen
  /\ seen' = seen \cup {wobj[w].key}
  /\ Move(w, "has")
  /\ UNCHANGED <<source, ingestVars, packVars, distVars, chanVars, wobj, pending, groupVars,
                 storeVars, statVars, histVars>>

HasHit(w) ==
  /\ wpc[w] = "has" /\ ~shut /\ wobj[w].key \in stored
  /\ Skip(w) /\ UNCHANGED seen

HasMiss(w) ==
  /\ wpc[w] = "has" /\ ~shut /\ wobj[w].key \notin stored
  /\ Move(w, "prepare")
  /\ UNCHANGED <<source, ingestVars, packVars, distVars, chanVars, wobj, pending, seen, groupVars,
                 storeVars, statVars, histVars>>

\* runWriter returns an error: the worker cancels the run first.
WorkerFails(w, e) ==
  /\ Move(w, "fail")
  /\ cancelled' = TRUE /\ faults' = faults \cup {e}
  /\ UNCHANGED <<source, ingestVars, packVars, distVars, chanVars, wobj, pending, seen, egErr,
                 result, statVars, mine>>

\* The lookup finds the store closed.
HasFails(w) ==
  /\ wpc[w] = "has" /\ shut
  /\ WorkerFails(w, "writer") /\ UNCHANGED storeVars

\* prepare: the key is checked against the payload when the run verifies, which
\* pack uploads do.
Prepare(w) ==
  /\ wpc[w] = "prepare" /\ wobj[w].genuine
  /\ Move(w, "append")
  /\ UNCHANGED <<source, ingestVars, packVars, distVars, chanVars, wobj, pending, seen, groupVars,
                 storeVars, statVars, histVars>>

PrepareFails(w) ==
  /\ wpc[w] = "prepare" /\ ~wobj[w].genuine
  /\ WorkerFails(w, "writer") /\ UNCHANGED storeVars

\* Store.append.  A key another run has appended meanwhile is not appended again.
\* An append that fills the segment seals it, and with it makes all durable.
append(w) ==
  /\ wpc[w] = "append" /\ ~failed /\ ~shut
  /\ stored' = stored \cup {wobj[w].key}
  /\ durable' \in {durable} \cup IF wobj[w].key \in stored THEN {} ELSE {stored'}
  /\ mine' = IF wobj[w].key \in stored THEN mine ELSE mine \cup {wobj[w].key}
  /\ nStored' = nStored + 1
  /\ wobj' = [wobj EXCEPT ![w] = NoObj]
  /\ pending' = [pending EXCEPT ![w] = IF @ + 1 >= BatchSize THEN 0 ELSE @ + 1]
  /\ Move(w, IF pending[w] + 1 >= BatchSize THEN "sync" ELSE "recv")
  /\ UNCHANGED <<source, ingestVars, packVars, distVars, chanVars, seen, groupVars, failed, shut,
                 nDeduped, faults>>

\* The store is closed, its write path is poisoned already, or the write fails.
AppendFails(w) ==
  /\ wpc[w] = "append"
  /\ Faults \/ failed \/ shut
  /\ WorkerFails(w, "writer")
  /\ UNCHANGED storeVars

\* The record is written but sealing the full segment fails, which poisons the
\* write path; the record stays visible.
SealFails(w) ==
  /\ wpc[w] = "append" /\ ~failed /\ ~shut /\ Faults
  /\ WorkerFails(w, "writer")
  /\ stored' = stored \cup {wobj[w].key} /\ failed' = TRUE
  /\ UNCHANGED <<durable, shut>>

\* syncActive.
FileSync == ~failed /\ ~shut /\ durable' = stored /\ UNCHANGED <<stored, failed, shut>>

FileSyncFails ==
  /\ Faults \/ failed \/ shut
  /\ failed' = (failed \/ ~shut)
  /\ UNCHANGED <<stored, durable, shut>>

BatchSync(w) ==
  /\ wpc[w] = "sync"
  /\ FileSync
  /\ Move(w, "recv")
  /\ UNCHANGED <<source, ingestVars, packVars, distVars, chanVars, wobj, pending, seen, groupVars,
                 statVars, histVars>>

BatchSyncFails(w) ==
  /\ wpc[w] = "sync"
  /\ FileSyncFails
  /\ WorkerFails(w, "writer")

\* The worker's goroutine returns its error to the group.
Report(w) ==
  /\ wpc[w] = "fail"
  /\ Move(w, "ended") /\ Returns("writer")
  /\ UNCHANGED <<source, ingestVars, packVars, distVars, chanVars, wobj, pending, seen, cancelled,
                 result, storeVars, statVars, histVars>>

----------------------------------------------------------------------------
(* The caller, and another run on the same store.                           *)

\* eg.Wait returns.
GroupEnded == dpc = "ended" /\ \A w \in Writer : wpc[w] = "ended"

\* Mutants: the final fsync is left out when the run failed, or when it stored
\* nothing.
FinalSyncOnSuccess == IF egErr = "none" THEN FileSync ELSE UNCHANGED storeVars

FinalSyncOfAppends == IF nStored > 0 THEN FileSync ELSE UNCHANGED storeVars

FinalSync == FileSync

Return ==
  /\ result = "none" /\ GroupEnded
  /\ FinalSync
  /\ result' = IF egErr = "none" THEN "ok" ELSE "err"
  /\ UNCHANGED <<source, ingestVars, packVars, distVars, chanVars, workVars, cancelled, egErr,
                 statVars, histVars>>

ReturnSyncFails ==
  /\ result = "none" /\ GroupEnded
  /\ FileSyncFails
  /\ Returns("sync") /\ faults' = faults \cup {"sync"}
  /\ result' = "err"
  /\ UNCHANGED <<source, ingestVars, packVars, distVars, chanVars, workVars, cancelled, statVars,
                 mine>>

OtherAppend(k) ==
  /\ result = "none" /\ ~failed /\ ~shut /\ k \notin stored
  /\ stored' = stored \cup {k}
  /\ UNCHANGED <<source, ingestVars, packVars, distVars, chanVars, workVars, groupVars, durable,
                 failed, shut, statVars, histVars>>

\* Store.Close fsyncs what is appended; when that fails the disk has failed, though
\* nothing looks at failed in a closed store.
CloseStore ==
  /\ result = "none" /\ ~shut
  /\ shut' = TRUE
  /\ \/ ~failed /\ durable' = stored /\ UNCHANGED failed
     \/ (Faults \/ failed) /\ failed' = TRUE /\ UNCHANGED durable
  /\ UNCHANGED <<source, ingestVars, packVars, distVars, chanVars, workVars, groupVars, stored,
                 statVars, histVars>>

----------------------------------------------------------------------------
Init ==
  /\ IngestInit
  /\ source \in {"tree", "pack"}
  /\ stream \in IF source = "tree" THEN {<<>>} ELSE UNION {P!Received(P!Pack(p)) : p \in Packs}
  /\ pos = 1
  /\ dpc = "next" /\ dobj = NoObj
  /\ ch = <<>> /\ chClosed = FALSE
  /\ wpc = [w \in Writer |-> "recv"] /\ wobj = [w \in Writer |-> NoObj]
  /\ pending = [w \in Writer |-> 0] /\ seen = {}
  /\ cancelled = FALSE /\ egErr = "none" /\ result = "none"
  /\ stored = {} /\ durable = {} /\ failed = FALSE /\ shut = FALSE
  /\ nStored = 0 /\ nDeduped = 0
  /\ mine = {} /\ faults = {}

Build(n) == source = "tree" /\ BuildStep(n) /\ UNCHANGED <<source, packVars, runVars>>

BuildFails(n) ==
  /\ Faults /\ source = "tree" /\ ReadFails(n)
  /\ UNCHANGED <<source, packVars, runVars>>

BuildEnds == source = "tree" /\ BuildReturns /\ UNCHANGED <<source, packVars, runVars>>

Distribute ==
  \/ NextBuilt \/ NextMagic \/ NextRecord \/ IteratorEnds \/ IteratorFails
  \/ Send \/ SendCancelled \/ Drain \/ Stopped

Work(w) ==
  \/ Take(w) \/ Leave(w) \/ Duplicate(w) \/ Claim(w) \/ HasHit(w) \/ HasMiss(w) \/ HasFails(w)
  \/ Prepare(w) \/ PrepareFails(w) \/ append(w) \/ AppendFails(w) \/ SealFails(w)
  \/ BatchSync(w) \/ BatchSyncFails(w) \/ Report(w)

\* The call has returned; nothing is left to do.
Done == result # "none" /\ UNCHANGED vars

Next ==
  \/ \E n \in Node : Build(n) \/ BuildFails(n)
  \/ BuildEnds
  \/ Distribute
  \/ \E w \in Writer : Work(w)
  \/ Return
  \/ ReturnSyncFails
  \/ \E k \in OtherKeys : OtherAppend(k)
  \/ CloseStore
  \/ Done

Spec == Init /\ [][Next]_vars

\* Every goroutine that can run is scheduled.
FairSpec ==
  /\ Spec
  /\ \A n \in Node : WF_vars(Build(n))
  /\ WF_vars(BuildEnds) /\ WF_vars(Distribute)
  /\ \A w \in Writer : WF_vars(Work(w))
  /\ WF_vars(Return \/ ReturnSyncFails)

----------------------------------------------------------------------------
(* Properties.                                                              *)

\* The variables keep their types, and the channels, the pool and the batches
\* their bounds, whoever runs first.
TypeOK ==
  /\ IngestTypeOK
  /\ source \in {"tree", "pack"} /\ pos \in 1..(Len(stream) + 1)
  /\ dpc \in {"next", "send", "drain", "ended"} /\ dobj \in P!Object \cup {NoObj}
  /\ ch \in Seq(P!Object) /\ Len(ch) <= ChanCap /\ chClosed \in BOOLEAN
  /\ wpc \in [Writer -> {"recv", "seen", "has", "prepare", "append", "sync", "fail", "ended"}]
  /\ wobj \in [Writer -> P!Object \cup {NoObj}]
  /\ pending \in [Writer -> 0..(BatchSize - 1)] /\ seen \subseteq Key
  /\ cancelled \in BOOLEAN /\ egErr \in {"none", "input", "writer", "sync"}
  /\ stored \subseteq Key /\ durable \subseteq stored /\ failed \in BOOLEAN /\ shut \in BOOLEAN
  /\ nStored \in Nat /\ nDeduped \in Nat
  /\ result \in {"none", "ok", "err"}
  /\ mine \subseteq stored /\ faults \subseteq {"input", "writer", "sync"}

\* The objects of the input: all objects of the tree, or the records of the pack.
Wanted ==
  IF source = "tree" THEN UNION {ToSet(Objs[n]) : n \in Node}
  ELSE {stream[i].obj.key : i \in {j \in DOMAIN stream : stream[j].unit = "record"}}

\* The input can still be read to its end.
Intact ==
  IF source = "tree" THEN \A n \in Node : res[n] # "err"
  ELSE stream # <<>> /\ stream[1] = P!Magic /\ Last(stream) = P!EndMark
       /\ \A i \in DOMAIN stream : stream[i] # P!Junk

\* WriteParallel with its producer implements TreeWrite: it succeeds only when the
\* whole input was read and every object of it is durable, dedup hits on records
\* another run has not fsynced included.
TW == INSTANCE TreeWrite WITH wanted <- Wanted, intact <- Intact

TreeWriteSpec == TW!Spec

\* A run that failed leaves a valid prefix: whatever it appended is durable when
\* it returns, unless the disk itself failed.
PrefixDurable == result # "none" /\ ~failed => mine \subseteq durable

\* When the call returns nothing it started is left running or blocked: no build
\* call, no worker, and nobody at a channel.
NothingLeftRunning ==
  result # "none" =>
    /\ GroupEnded
    /\ source = "tree" => closed /\ \A n \in Node : bpc[n] \in {"idle", "done"}

\* The error reported is one that happened, never the cancellation that followed
\* it, and a run that met no error succeeds and has set the root.
CauseReported ==
  /\ result = "err" => egErr \in faults
  /\ result # "none" /\ faults = {} =>
       result = "ok" /\ (source = "tree" => root = Last(Objs[RootNode]))

----------------------------------------------------------------------------
(* The inductive invariant of the run.                                      *)

\* The Reader is somewhere in a stream of which it has accepted all before pos,
\* and an end marker, if one arrived, is the stream's last unit.
ReaderInv ==
  /\ stream \in Seq(P!Unit)
  /\ \A i \in DOMAIN stream : stream[i] = P!EndMark => i = Len(stream)
  /\ pos > 1 => stream[1] = P!Magic
  /\ \A i \in 2..(pos - 1) : stream[i].unit = "record"

\* The distributor and the workers hold the object they work on.
Holding ==
  /\ dpc = "send" => dobj \in P!Object
  /\ \A w \in Writer : wpc[w] \in {"seen", "has", "prepare", "append"} => wobj[w] \in P!Object

\* An error is on its way to the group, or there; cancellation and a stopped build
\* come after one; the call returns an error if the group has one.
ErrorsReach ==
  /\ cancelled \/ stop \/ dpc = "drain" => faults # {}
  /\ stop => cancelled
  /\ egErr # "none" => egErr \in faults
  /\ \A w \in Writer : wpc[w] = "fail" => "writer" \in faults
  /\ faults # {} => egErr # "none" \/ \E w \in Writer : wpc[w] = "fail"
  /\ result # "none" => GroupEnded /\ (result = "err" <=> egErr # "none")

\* How the producer and the channel were left.
EndsClean ==
  /\ dpc = "ended" <=> chClosed
  /\ source = "pack" => built = <<>>
  /\ dpc = "ended" /\ source = "tree" => Drained /\ (faults = {} => ~buildErr)
  /\ dpc = "ended" /\ source = "pack" /\ faults = {} =>
       pos \in 2..Len(stream) /\ stream[pos] = P!EndMark
  /\ \A w \in Writer : wpc[w] = "ended" /\ faults = {} => chClosed /\ ch = <<>>

\* What the last fsync has reached: all, of a store that closed cleanly and at the
\* end of a run.
SyncedAtEnd == ~failed /\ (shut \/ result # "none") => stored \subseteq durable

\* The keys on their way from the producer to the store.
InFlight ==
  ToSet(built) \cup (IF dpc = "send" THEN {dobj.key} ELSE {}) \cup {o.key : o \in ToSet(ch)}
  \cup {wobj[w].key : w \in {v \in Writer : wpc[v] = "seen"}} \cup seen

\* As long as nothing has failed, every object that the producer has emitted is
\* on its way, and a key that a worker has claimed is stored or in its hands.
EmittedHeld ==
  faults = {} =>
    /\ source = "tree" => \A n \in Node : \A i \in 1..sent[n] : Objs[n][i] \in InFlight
    /\ source = "pack" => \A i \in 2..(pos - 1) : stream[i].obj.key \in InFlight

ClaimedStored ==
  faults = {} =>
    \A k \in seen :
      k \in stored \/ \E w \in Writer : wpc[w] \in {"has", "prepare", "append"} /\ wobj[w].key = k

NothingDropped == EmittedHeld /\ ClaimedStored

IndInv ==
  /\ TypeOK /\ BuildInv
  /\ ReaderInv /\ Holding /\ ErrorsReach /\ EndsClean /\ SyncedAtEnd /\ NothingDropped

\* The number of objects of the input, repetitions included.
InputSize ==
  IF source = "tree" THEN Cardinality(UNION {{n} \X DOMAIN Objs[n] : n \in Node})
  ELSE Len(stream) - 2

\* After a success every object of the input is counted exactly once, as stored
\* or as deduplicated, and no key is counted as stored twice, however duplicates
\* raced between the workers.
StatsExact ==
  result = "ok" => /\ nStored + nDeduped = InputSize
                   /\ nStored <= Cardinality(Wanted)

\* The call returns: no pool, channel or cancellation deadlocks it.
RunEnds == <>(result # "none")
=============================================================================
