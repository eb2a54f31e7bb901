------------------------------ MODULE PackStore ------------------------------
(***************************************************************************)
(* Durability of package packstore: segment files written under appendMu   *)
(* by WriteBatch, Put, Compact and Wipe, with I/O errors at every call, a  *)
(* process that can be killed and a machine that can lose power between    *)
(* any two calls, and Open's recovery.                                     *)
(*                                                                         *)
(* A record is its key.  What a file system may do is explicit: a write    *)
(* reaches the page cache; fsync makes it durable; a failed fsync may drop *)
(* dirty pages, which no later fsync writes; directory operations reach    *)
(* the disk in order, at the latest at the next fsync of the directory; a  *)
(* power loss keeps any part of what is not durable.                       *)
(***************************************************************************)
EXTENDS Naturals, FiniteSets, Sequences, SequencesExt

CONSTANTS
  Key,            \* object keys
  Writer,         \* concurrent WriteBatch and Put callers
  File,           \* segment ids, 1..MaxID: creating one more fails (a bound)
  SegmentSize,    \* records after which the active segment is sealed
  NoKey,
  ReopenDirty     \* whether the store may be reopened over a page cache with a
                  \* file, footer or record that no fsync made or will make durable

ASSUME PackAssumption ==
  /\ File \subseteq Nat \ {0}
  /\ SegmentSize \in Nat \ {0}
  /\ NoKey \notin Key
  /\ ReopenDirty \in BOOLEAN
  /\ Writer \cap {"none", "compact", "wipe"} = {}

VARIABLES
  dir,        \* [File -> name suffix]: the directory as the process sees it
  dirStates,  \* the directories a power loss may leave
  body,       \* [File -> Seq(Key)]: the records in the file
  synced,     \* [File -> SUBSET Key]: the records that are durable
  dropped,    \* [File -> SUBSET Key]: the records whose dirty pages were dropped
  foot,       \* [File -> "none", "cached", "dropped" or "durable"]: the footer
  junk,       \* [File -> BOOLEAN]: bytes of a failed write after the end
  up,         \* "up", "down" or "corrupt" (Open fails)
  active,     \* the active segment's id, 0 when there is none
  sealed,     \* the published sealed segments
  nextID,     \* one more than the files created; an id stands for one file, so Open keeps it
  failed,     \* the write path is poisoned
  mpc, mby, mkey, msync,       \* the appendMu section: step, holder, arguments
  wpc, wkey, wdone, wapp,      \* the writers: step, key, keys yielded, appended
  cpc, live, victims, pending, \* Compact
  wactive, wfiles, werr,       \* Wipe: the files to remove, whether one call failed
  acked,      \* history: keys a write acknowledged as durable, still wanted
  stray       \* history: detached files that a call which failed has left behind

diskVars == <<dir, dirStates, body, synced, dropped, foot, junk>>
procVars == <<up, active, sealed, nextID, failed>>
muVars == <<mpc, mby, mkey, msync>>
writerVars == <<wpc, wkey, wdone, wapp>>
compactVars == <<cpc, live, victims, pending>>
wipeVars == <<wactive, wfiles, werr>>
histVars == <<acked, stray>>
vars == <<diskVars, procVars, muVars, writerVars, compactVars, wipeVars, histVars>>

----------------------------------------------------------------------------
Keys(f) == ToSet(body[f])

\* What Has finds.
Stored == UNION {Keys(f) : f \in sealed \cup ({active} \ {0})}

Survivors == UNION {Keys(f) : f \in (sealed \ victims) \cup ({active} \ {0})}

\* The file calls.
SetDir(f, n) ==
  /\ dir' = [dir EXCEPT ![f] = n]
  /\ dirStates' = dirStates \cup {dir'}

DirSync == dirStates' = {dir}

\* fsync of f writes all that is dirty.
FileSync(f) ==
  /\ synced' = [synced EXCEPT ![f] = Keys(f) \ dropped[f]]
  /\ foot' = [foot EXCEPT ![f] = IF @ = "cached" THEN "durable" ELSE @]

\* A failed fsync drops some of the dirty pages: later calls find them clean.
FileSyncFails(f) ==
  /\ \E D \in SUBSET (Keys(f) \ synced[f]) : dropped' = [dropped EXCEPT ![f] = @ \cup D]
  /\ \E ft \in IF foot[f] = "cached" THEN {"cached", "dropped"} ELSE {foot[f]} :
       foot' = [foot EXCEPT ![f] = ft]

----------------------------------------------------------------------------
(* The appendMu section.  appendLocked, syncActive and sealActiveLocked run *)
(* as a chain of steps; Return hands the result to the holder.              *)

Release == mpc' = "free" /\ mby' = "none" /\ mkey' = NoKey /\ msync' = FALSE

SetWriter(w, pc, k, done, app) ==
  /\ wpc' = [wpc EXCEPT ![w] = pc]
  /\ wkey' = [wkey EXCEPT ![w] = k]
  /\ wdone' = [wdone EXCEPT ![w] = done]
  /\ wapp' = [wapp EXCEPT ![w] = app]

\* The result of append, of syncActive or of Put's append at its caller.  A Put
\* that found its key in the active index is a dedup hit, which promises nothing.
WriterGets(w, ok) ==
  \/ /\ wpc[w] = "append"
     /\ IF ok THEN SetWriter(w, "next", NoKey, wdone[w] \cup {mkey}, TRUE)
        ELSE IF wapp[w] THEN SetWriter(w, "failsync", NoKey, {}, FALSE)
        ELSE SetWriter(w, "idle", NoKey, {}, FALSE)
     /\ UNCHANGED acked
  \/ /\ wpc[w] = "sync"
     /\ SetWriter(w, "idle", NoKey, {}, FALSE)
     /\ acked' = IF ok THEN acked \cup wdone[w] ELSE acked
  \/ /\ wpc[w] = "failsync"
     /\ SetWriter(w, "idle", NoKey, {}, FALSE)
     /\ UNCHANGED acked
  \/ /\ wpc[w] = "put"
     /\ SetWriter(w, "idle", NoKey, {}, FALSE)
     /\ acked' = IF ok /\ mpc # "append" THEN acked \cup {mkey} ELSE acked

\* Compact goes on after its seal or after a copy, and returns on an error.
CompactGets(ok) ==
  /\ UNCHANGED <<writerVars, acked>>
  /\ IF ~ok THEN /\ cpc' = "idle" /\ live' = {} /\ victims' = {} /\ pending' = {}
                 /\ Release
     ELSE /\ cpc' = CASE cpc = "seal" -> "select" [] cpc = "copy" -> "copy" [] OTHER -> "detach"
          /\ pending' = pending \ {mkey}
          /\ mpc' = "compact" /\ mkey' = NoKey
          /\ UNCHANGED <<live, victims, mby, msync>>

Return(ok) ==
  IF mby \in Writer THEN WriterGets(mby, ok) /\ Release /\ UNCHANGED compactVars
  ELSE CompactGets(ok)

\* Mutant: an I/O error fails its own call only.
PoisonForgotten == UNCHANGED failed /\ Return(FALSE)

\* An I/O error that poisons the write path (setFailed).
Poison == failed' = TRUE /\ Return(FALSE)

\* appendLocked and syncActive begin: they refuse when the path has failed.
Enter(by, pc, k, sync) ==
  /\ mpc = "free"
  /\ mpc' = pc /\ mby' = by /\ mkey' = k /\ msync' = sync

Refuse ==
  /\ mpc \in {"append", "sync"}
  /\ failed
  /\ Return(FALSE)
  /\ UNCHANGED <<diskVars, procVars, wipeVars, stray>>

\* createActive: take the next id and create the file.
CreateFile ==
  /\ mpc = "append" /\ ~failed /\ active = 0
  /\ nextID \in File
  /\ nextID' = nextID + 1
  /\ SetDir(nextID, "active")
  /\ body' = [body EXCEPT ![nextID] = <<>>]
  /\ synced' = [synced EXCEPT ![nextID] = {}]
  /\ dropped' = [dropped EXCEPT ![nextID] = {}]
  /\ foot' = [foot EXCEPT ![nextID] = "none"]
  /\ junk' = [junk EXCEPT ![nextID] = FALSE]
  /\ mpc' = "header"
  /\ UNCHANGED <<up, active, sealed, failed, mby, mkey, msync, writerVars, compactVars,
                 wipeVars, histVars>>

\* The id is used up all the same; without an id left (the bound) creation fails.
CreateFails ==
  /\ mpc = "append" /\ ~failed /\ active = 0
  /\ nextID' = IF nextID \in File THEN nextID + 1 ELSE nextID
  /\ Return(FALSE)
  /\ UNCHANGED <<diskVars, up, active, sealed, failed, wipeVars, stray>>

\* createActive: header, fsync, directory fsync, publish.
PublishActive ==
  /\ mpc = "header"
  /\ DirSync
  /\ active' = nextID - 1
  /\ mpc' = "append"
  /\ UNCHANGED <<dir, body, synced, dropped, foot, junk, up, sealed, nextID, failed, mby, mkey,
                 msync, writerVars, compactVars, wipeVars, histVars>>

\* Mutant: createActive returns on an error without removing its file.
HeaderFailsKeepsFile ==
  /\ mpc = "header"
  /\ Return(FALSE)
  /\ UNCHANGED <<diskVars, procVars, wipeVars, stray>>

\* One of them fails: createActive removes the file.  It ignores the outcome; the
\* model assumes that the removal of an active file succeeds (here and in Wipe).
HeaderFails ==
  /\ mpc = "header"
  /\ SetDir(nextID - 1, "none")
  /\ Return(FALSE)
  /\ UNCHANGED <<body, synced, dropped, foot, junk, procVars, wipeVars, stray>>

\* The key is in the active index: an earlier append of it won.
AlreadyActive ==
  /\ mpc = "append" /\ ~failed /\ active # 0
  /\ mkey \in Keys(active)
  /\ Return(TRUE)
  /\ UNCHANGED <<diskVars, procVars, wipeVars, stray>>

\* WriteAt and the index entry.
WriteRecord ==
  /\ mpc = "append" /\ ~failed /\ active # 0
  /\ mkey \notin Keys(active)
  /\ body' = [body EXCEPT ![active] = Append(@, mkey)]
  /\ mpc' = IF msync THEN "putsync" ELSE "rotate"
  /\ UNCHANGED <<dir, dirStates, synced, dropped, foot, junk, procVars, mby, mkey, msync,
                 writerVars, compactVars, wipeVars, histVars>>

\* WriteAt fails part way.
WriteRecordFails ==
  /\ mpc = "append" /\ ~failed /\ active # 0
  /\ mkey \notin Keys(active)
  /\ junk' = [junk EXCEPT ![active] = TRUE]
  /\ Return(FALSE)
  /\ UNCHANGED <<dir, dirStates, body, synced, dropped, foot, procVars, wipeVars, stray>>

\* Put's fsync.
PutSync ==
  /\ mpc = "putsync"
  /\ FileSync(active)
  /\ mpc' = "rotate"
  /\ UNCHANGED <<dir, dirStates, body, dropped, junk, procVars, mby, mkey, msync, writerVars,
                 compactVars, wipeVars, histVars>>

\* The rotation threshold, reached or not.
NoRotation ==
  /\ mpc = "rotate"
  /\ Len(body[active]) < SegmentSize
  /\ Return(TRUE)
  /\ UNCHANGED <<diskVars, procVars, wipeVars, stray>>

Rotate ==
  /\ mpc = "rotate"
  /\ Len(body[active]) >= SegmentSize
  /\ mpc' = "footer"
  /\ UNCHANGED <<diskVars, procVars, mby, mkey, msync, writerVars, compactVars, wipeVars,
                 histVars>>

\* syncActive.
SyncActive ==
  /\ mpc = "sync" /\ ~failed
  /\ IF active = 0 THEN UNCHANGED <<synced, foot>> ELSE FileSync(active)
  /\ Return(TRUE)
  /\ UNCHANGED <<dir, dirStates, body, dropped, junk, procVars, wipeVars, stray>>

\* An fsync fails: Put's, syncActive's or the seal's.
SyncFails ==
  /\ \/ mpc \in {"putsync", "footsync"}
     \/ mpc = "sync" /\ ~failed /\ active # 0
  /\ FileSyncFails(active)
  /\ Poison
  /\ UNCHANGED <<dir, dirStates, body, synced, junk, up, active, sealed, nextID,
                 wipeVars, stray>>

\* sealActiveLocked: drop what a failed write left, append the footer.
WriteFooter ==
  /\ mpc = "footer"
  /\ junk' = [junk EXCEPT ![active] = FALSE]
  /\ foot' = [foot EXCEPT ![active] = "cached"]
  /\ mpc' = "footsync"
  /\ UNCHANGED <<dir, dirStates, body, synced, dropped, procVars, mby, mkey, msync, writerVars,
                 compactVars, wipeVars, histVars>>

WriteFooterFails ==
  /\ mpc = "footer"
  /\ \E j \in BOOLEAN : junk' = [junk EXCEPT ![active] = j]
  /\ Poison
  /\ UNCHANGED <<dir, dirStates, body, synced, dropped, foot, up, active, sealed, nextID,
                 wipeVars, stray>>

\* Mutant: the seal renames before its data is on disk.
FooterNotSynced ==
  /\ mpc = "footsync"
  /\ mpc' = "rename"
  /\ UNCHANGED <<diskVars, procVars, mby, mkey, msync, writerVars, compactVars, wipeVars,
                 histVars>>

FooterSync ==
  /\ mpc = "footsync"
  /\ FileSync(active)
  /\ mpc' = "rename"
  /\ UNCHANGED <<dir, dirStates, body, dropped, junk, procVars, mby, mkey, msync, writerVars,
                 compactVars, wipeVars, histVars>>

Rename ==
  /\ mpc = "rename"
  /\ SetDir(active, "sealed")
  /\ mpc' = "swap"
  /\ UNCHANGED <<body, synced, dropped, foot, junk, procVars, mby, mkey, msync, writerVars,
                 compactVars, wipeVars, histVars>>

\* Directory fsync, openSealed, the swap under mu, and the close of the file, whose
\* error fails the call.
Swap ==
  /\ mpc = "swap"
  /\ foot[active] # "none" /\ ~junk[active]
  /\ DirSync
  /\ sealed' = sealed \cup {active}
  /\ active' = 0
  /\ (Return(TRUE) /\ UNCHANGED failed) \/ Poison
  /\ UNCHANGED <<dir, body, synced, dropped, foot, junk, up, nextID, wipeVars, stray>>

\* Rename, the directory fsync or openSealed fails.
SealFails ==
  /\ mpc \in {"rename", "swap"}
  /\ Poison
  /\ UNCHANGED <<diskVars, up, active, sealed, nextID, wipeVars, stray>>
----------------------------------------------------------------------------
(* WriteBatch and Put.  Compact's contract keeps writes out while it runs.  *)

MayWrite(w) == up = "up" /\ wpc[w] = "idle" /\ cpc = "idle"

BatchStart(w) ==
  /\ MayWrite(w)
  /\ SetWriter(w, "next", NoKey, {}, FALSE)
  /\ UNCHANGED <<diskVars, procVars, muVars, compactVars, wipeVars, histVars>>

\* The iterator yields k, not yet seen: Has finds it, or append is called.
BatchNext(w, k) ==
  /\ wpc[w] = "next" /\ k \notin wdone[w]
  /\ IF k \in Stored
     THEN SetWriter(w, "next", NoKey, wdone[w] \cup {k}, wapp[w])
     ELSE SetWriter(w, "append", k, wdone[w], wapp[w])
  /\ UNCHANGED <<diskVars, procVars, muVars, compactVars, wipeVars, histVars>>

\* The iterator, Has or prepare fails.
BatchFails(w) ==
  /\ wpc[w] = "next"
  /\ SetWriter(w, IF wapp[w] THEN "failsync" ELSE "idle", NoKey, {}, FALSE)
  /\ UNCHANGED <<diskVars, procVars, muVars, compactVars, wipeVars, histVars>>

\* Put: refused on a failed path; a dedup hit changes nothing.
Put(w, k) ==
  /\ MayWrite(w)
  /\ ~failed
  /\ k \notin Stored
  /\ SetWriter(w, "put", k, {}, FALSE)
  /\ UNCHANGED <<diskVars, procVars, muVars, compactVars, wipeVars, histVars>>

\* A writer takes appendMu for append, or for the syncActive of a batch that has
\* failed or whose iterator is done.
LockAppend(w) ==
  /\ wpc[w] \in {"append", "put"}
  /\ Enter(w, "append", wkey[w], wpc[w] = "put")
  /\ UNCHANGED <<diskVars, procVars, writerVars, compactVars, wipeVars, histVars>>

LockSync(w) ==
  /\ \/ wpc[w] = "failsync" /\ UNCHANGED wpc
     \/ wpc[w] = "next" /\ wpc' = [wpc EXCEPT ![w] = "sync"]
  /\ Enter(w, "sync", NoKey, FALSE)
  /\ UNCHANGED <<diskVars, procVars, wkey, wdone, wapp, compactVars, wipeVars, histVars>>

----------------------------------------------------------------------------
(* Compact.                                                                 *)

\* The caller gives up on every key outside L.
Compact(L) ==
  /\ up = "up" /\ cpc = "idle" /\ ~failed
  /\ \A w \in Writer : wpc[w] = "idle"
  /\ mpc = "free"
  /\ mby' = "compact"
  /\ live' = L
  /\ acked' = acked \cap L
  /\ IF active = 0 \/ body[active] = <<>>
     THEN mpc' = "compact" /\ cpc' = "select"
     ELSE mpc' = "footer" /\ cpc' = "seal"
  /\ UNCHANGED <<diskVars, procVars, mkey, msync, writerVars, victims, pending, wipeVars, stray>>

CompactReturns ==
  /\ Release
  /\ cpc' = "idle" /\ live' = {} /\ victims' = {} /\ pending' = {}

\* Segments with dead records, any of them: sizes, ages and the ratio are left out.
selectVictims ==
  /\ cpc = "select" /\ mpc = "compact"
  /\ \E V \in SUBSET {f \in sealed : Keys(f) \ live # {}} :
       IF V = {} THEN CompactReturns
       ELSE /\ cpc' = "copy"
            /\ victims' = V
            /\ pending' = (UNION {Keys(f) : f \in V}) \cap live
            /\ UNCHANGED <<live, muVars>>
  /\ UNCHANGED <<diskVars, procVars, writerVars, wipeVars, histVars>>

\* Mutant: a copied record is appended under no key.
copyLiveKeyless(k) ==
  /\ cpc = "copy" /\ mpc = "compact" /\ k \in pending
  /\ mpc' = "append"
  /\ UNCHANGED <<diskVars, procVars, mby, mkey, msync, writerVars, compactVars, wipeVars,
                 histVars>>

\* One live record of a victim: skipped when a survivor has it, else appended.
copyLive(k) ==
  /\ cpc = "copy" /\ mpc = "compact" /\ k \in pending
  /\ IF k \in Survivors
     THEN pending' = pending \ {k} /\ UNCHANGED muVars
     ELSE mpc' = "append" /\ mkey' = k /\ UNCHANGED <<mby, msync, pending>>
  /\ UNCHANGED <<diskVars, procVars, writerVars, cpc, live, victims, wipeVars, histVars>>

\* A record fails its verification.
CopyFails ==
  /\ cpc = "copy" /\ mpc = "compact" /\ pending # {}
  /\ CompactReturns
  /\ UNCHANGED <<diskVars, procVars, writerVars, wipeVars, histVars>>

CopySync ==
  /\ cpc = "copy" /\ mpc = "compact" /\ pending = {}
  /\ cpc' = "sync" /\ mpc' = "sync"
  /\ UNCHANGED <<diskVars, procVars, mby, mkey, msync, writerVars, live, victims, pending,
                 wipeVars, histVars>>

\* removeVictims: detach under mu, unlink one by one, fsync the directory.
Detach ==
  /\ cpc = "detach"
  /\ sealed' = sealed \ victims
  /\ cpc' = "unlink"
  /\ UNCHANGED <<diskVars, up, active, nextID, failed, muVars, writerVars, live, victims,
                 pending, wipeVars, histVars>>

Unlink(f) ==
  /\ cpc = "unlink" /\ f \in victims
  /\ \/ SetDir(f, "none") /\ UNCHANGED stray
     \/ stray' = stray \cup {f} /\ UNCHANGED <<dir, dirStates>>
  /\ victims' = victims \ {f}
  /\ UNCHANGED <<body, synced, dropped, foot, junk, procVars, muVars, writerVars, cpc, live,
                 pending, wipeVars, acked>>

CompactEnds ==
  /\ cpc = "unlink" /\ victims = {}
  /\ DirSync \/ UNCHANGED dirStates
  /\ CompactReturns
  /\ UNCHANGED <<dir, body, synced, dropped, foot, junk, procVars, writerVars, wipeVars, histVars>>

----------------------------------------------------------------------------
(* Wipe.  What writers have yielded so far goes with the store.             *)

Wipe ==
  /\ up = "up" /\ mpc = "free"
  /\ mpc' = "wipe" /\ mby' = "wipe"
  /\ wactive' = active /\ wfiles' = sealed
  /\ active' = 0 /\ sealed' = {} /\ failed' = FALSE
  /\ acked' = {}
  /\ wdone' = [w \in Writer |-> {}]
  /\ UNCHANGED <<diskVars, up, nextID, mkey, msync, wpc, wkey, wapp, compactVars, werr,
                 stray>>

\* Mutant: a path that does not exist counts as removed.
WipeRemoveIgnoresMissing(f, name) ==
  \/ /\ dir[f] = name
     /\ SetDir(f, "none")
     /\ UNCHANGED werr
  \/ /\ dir[f] # name
     /\ UNCHANGED <<werr, dir, dirStates>>

\* os.Remove of a path; the active segment's path is gone once it is renamed.
WipeRemove(f, name) ==
  \/ /\ dir[f] = name
     /\ SetDir(f, "none")
     /\ UNCHANGED werr
  \/ /\ dir[f] # name \/ name = "sealed"
     /\ werr' = TRUE
     /\ UNCHANGED <<dir, dirStates>>

WipeActive ==
  /\ mpc = "wipe" /\ wactive # 0
  /\ WipeRemove(wactive, "active")
  /\ wactive' = 0
  /\ UNCHANGED <<body, synced, dropped, foot, junk, procVars, muVars, writerVars, compactVars,
                 wfiles, histVars>>

WipeSealed(f) ==
  /\ mpc = "wipe" /\ wactive = 0 /\ f \in wfiles
  /\ WipeRemove(f, "sealed")
  /\ wfiles' = wfiles \ {f}
  /\ UNCHANGED <<body, synced, dropped, foot, junk, procVars, muVars, writerVars, compactVars,
                 wactive, histVars>>

\* The directory fsync, and the result.
WipeEnds(ok) ==
  /\ mpc = "wipe" /\ wactive = 0 /\ wfiles = {}
  /\ \/ DirSync /\ ok = ~werr
     \/ UNCHANGED dirStates /\ ~ok
  /\ Release
  /\ werr' = FALSE
  /\ stray' = IF ok THEN stray ELSE stray \cup {f \in File : dir[f] # "none"}
  /\ UNCHANGED <<dir, body, synced, dropped, foot, junk, procVars, writerVars, compactVars,
                 wactive, wfiles, acked>>

----------------------------------------------------------------------------
(* Close, crashes and Open.                                                 *)

\* Every in-memory variable is gone; files nobody removed are attached again.
Down ==
  /\ up' = "down" /\ active' = 0 /\ sealed' = {} /\ failed' = FALSE
  /\ Release
  /\ wpc' = [w \in Writer |-> "idle"] /\ wkey' = [w \in Writer |-> NoKey]
  /\ wdone' = [w \in Writer |-> {}]
  /\ wapp' = [w \in Writer |-> FALSE]
  /\ cpc' = "idle" /\ live' = {} /\ victims' = {} /\ pending' = {}
  /\ wactive' = 0 /\ wfiles' = {} /\ werr' = FALSE
  /\ stray' = {}

\* Writers still in a call get ErrClosed.
Close ==
  /\ up = "up" /\ mpc = "free"
  /\ IF active = 0 THEN UNCHANGED <<synced, dropped, foot>>
     ELSE \/ FileSync(active) /\ UNCHANGED dropped
          \/ FileSyncFails(active) /\ UNCHANGED synced
  /\ Down
  /\ UNCHANGED <<dir, dirStates, body, junk, nextID, acked>>

\* The process dies; the page cache and the directory stay.
Kill ==
  /\ up = "up"
  /\ Down
  /\ UNCHANGED <<diskVars, nextID, acked>>

\* The records of s that are in keep, in their order.
Kept(s, keep) ==
  LET kept[i \in 0..Len(s)] ==
        IF i = 0 THEN <<>>
        ELSE IF s[i] \in keep THEN Append(kept[i - 1], s[i]) ELSE kept[i - 1]
  IN kept[Len(s)]

\* What a power loss leaves of f in directory d, given the records on disk: a
\* sealed file is read through its index, an active one up to the first hole.
Left(f, d, keep) ==
  IF d[f] = "active"
  THEN LET holes == {i \in 1..Len(body[f]) : body[f][i] \notin keep} IN
       SubSeq(body[f], 1, IF holes = {} THEN Len(body[f])
                          ELSE (CHOOSE i \in holes : \A j \in holes : i <= j) - 1)
  ELSE Kept(body[f], keep)

\* A power loss takes the process first (Kill), then what was only cached.
PowerLoss ==
  /\ up = "down"
  /\ \E d \in dirStates, keep \in [File -> SUBSET Key], footer \in SUBSET File :
       LET on == {f \in File : d[f] # "none"} IN
       /\ \A f \in File : IF f \in on THEN synced[f] \subseteq keep[f] /\ keep[f] \subseteq Keys(f)
                          ELSE keep[f] = {}
       /\ \A f \in File : IF f \in on
                          THEN (foot[f] = "durable" => f \in footer) /\ (foot[f] = "none" => f \notin footer)
                          ELSE f \notin footer
       /\ dir' = d /\ dirStates' = {d}
       /\ body' = [f \in File |-> IF f \in on THEN Left(f, d, keep[f]) ELSE <<>>]
       /\ synced' = [f \in File |-> ToSet(body'[f])]
       /\ foot' = [f \in File |->
                     IF f \in footer /\ (d[f] = "sealed" \/ body'[f] = body[f]) THEN "durable" ELSE "none"]
       /\ junk' = [f \in File |-> f \in on /\ junk[f]]
  /\ dropped' = [f \in File |-> {}]
  /\ Down
  /\ UNCHANGED <<nextID, acked>>

Existing(n) == {f \in File : dir[f] = n}

\* No file hides what Open takes for durable: its directory entry and footer
\* are, and a coming fsync will reach all of its records.
CacheClean ==
  \A f \in Existing("active") \cup Existing("sealed") :
    /\ dropped[f] = {} /\ foot[f] \in {"none", "durable"}
    /\ \A d \in dirStates : d[f] # "none"

\* parseFooter accepts the file.
FooterValid(f) == foot[f] # "none" /\ ~junk[f]

\* A crashed seal: the active file with a complete footer.
Unrenamed == {f \in Existing("active") : FooterValid(f)}

\* The code opens over any page cache.  Without ReopenDirty the model leaves out the
\* reopens over a dirty one, and what they break (AckedStored, OpenNeverCorrupt,
\* SealedDurable) is claimed only of a store that is not reopened like that.
MayOpen == up = "down" /\ (ReopenDirty \/ CacheClean)

\* load refuses the directory.
LoadFails ==
  \/ Cardinality(Existing("active")) > 1
  \/ \E f \in Existing("sealed") : ~FooterValid(f)

\* recoverActive: rename a crashed seal, resume any other active file.
recoverActive ==
  LET resumed == Existing("active") \ Unrenamed IN
  /\ dir' = [f \in File |-> IF f \in Unrenamed THEN "sealed" ELSE dir[f]]
  /\ dirStates' = IF Unrenamed = {} THEN dirStates ELSE {dir'}
  /\ sealed' = Existing("sealed") \cup Unrenamed
  /\ active' = IF resumed = {} THEN 0 ELSE CHOOSE f \in resumed : TRUE
  /\ foot' = [f \in File |-> IF f \in resumed THEN "none" ELSE foot[f]]
  /\ junk' = [f \in File |-> f \notin resumed /\ junk[f]]

\* Open: ErrCorrupt now and ever after, or a working store.
Open ==
  /\ MayOpen
  /\ IF LoadFails
     THEN up' = "corrupt" /\ UNCHANGED <<dir, dirStates, sealed, active, foot, junk>>
     ELSE up' = "up" /\ recoverActive
  /\ UNCHANGED <<body, synced, dropped, nextID, failed, muVars, writerVars, compactVars,
                 wipeVars, histVars>>

\* The directory fsync after the rename fails, or Open dies there.
OpenRenames ==
  /\ MayOpen
  /\ ~LoadFails
  /\ \E f \in Unrenamed : SetDir(f, "sealed")
  /\ UNCHANGED <<body, synced, dropped, foot, junk, procVars, muVars, writerVars, compactVars,
                 wipeVars, histVars>>

----------------------------------------------------------------------------
Init ==
  /\ dir = [f \in File |-> "none"] /\ dirStates = {dir}
  /\ body = [f \in File |-> <<>>]
  /\ synced = [f \in File |-> {}] /\ dropped = [f \in File |-> {}]
  /\ foot = [f \in File |-> "none"] /\ junk = [f \in File |-> FALSE]
  /\ up = "up" /\ active = 0 /\ sealed = {} /\ nextID = 1 /\ failed = FALSE
  /\ mpc = "free" /\ mby = "none" /\ mkey = NoKey /\ msync = FALSE
  /\ wpc = [w \in Writer |-> "idle"] /\ wkey = [w \in Writer |-> NoKey]
  /\ wdone = [w \in Writer |-> {}]
  /\ wapp = [w \in Writer |-> FALSE]
  /\ cpc = "idle" /\ live = {} /\ victims = {} /\ pending = {}
  /\ wactive = 0 /\ wfiles = {} /\ werr = FALSE
  /\ acked = {} /\ stray = {}

Section ==
  \/ Refuse \/ CreateFile \/ CreateFails \/ PublishActive \/ HeaderFails
  \/ AlreadyActive \/ WriteRecord \/ WriteRecordFails \/ PutSync \/ NoRotation \/ Rotate
  \/ SyncActive \/ SyncFails
  \/ WriteFooter \/ WriteFooterFails \/ FooterSync \/ Rename \/ Swap \/ SealFails

WriteStep(w) ==
  \/ \E k \in Key : BatchNext(w, k) \/ Put(w, k)
  \/ BatchStart(w) \/ BatchFails(w) \/ LockAppend(w) \/ LockSync(w)

CompactStep ==
  \/ \E L \in SUBSET Key : Compact(L)
  \/ selectVictims \/ CopyFails \/ CopySync \/ Detach \/ CompactEnds
  \/ \E k \in Key : copyLive(k)
  \/ \E f \in File : Unlink(f)

WipeStep ==
  \/ Wipe \/ WipeActive
  \/ \E f \in File : WipeSealed(f)
  \/ \E ok \in BOOLEAN : WipeEnds(ok)

Environment == Close \/ Kill \/ PowerLoss \/ Open \/ OpenRenames

Next == Section \/ (\E w \in Writer : WriteStep(w)) \/ CompactStep \/ WipeStep \/ Environment

Spec == Init /\ [][Next]_vars

----------------------------------------------------------------------------
(* Properties.                                                              *)

\* Every variable has its type, and the directory the process sees is one that
\* a power loss may leave.
TypeOK ==
  /\ dir \in [File -> {"none", "active", "sealed"}]
  /\ dir \in dirStates
  /\ dirStates \subseteq [File -> {"none", "active", "sealed"}]
  /\ body \in [File -> Seq(Key)]
  /\ synced \in [File -> SUBSET Key] /\ dropped \in [File -> SUBSET Key]
  /\ foot \in [File -> {"none", "cached", "dropped", "durable"}]
  /\ junk \in [File -> BOOLEAN]
  /\ up \in {"up", "down", "corrupt"} /\ failed \in BOOLEAN
  /\ active \in File \cup {0} /\ sealed \subseteq File /\ nextID \in Nat \ {0}
  /\ mpc \in {"free", "append", "header", "putsync", "rotate", "sync", "footer", "footsync",
              "rename", "swap", "compact", "wipe"}
  /\ mby \in Writer \cup {"none", "compact", "wipe"}
  /\ mkey \in Key \cup {NoKey} /\ msync \in BOOLEAN
  /\ wpc \in [Writer -> {"idle", "next", "append", "put", "sync", "failsync"}]
  /\ wkey \in [Writer -> Key \cup {NoKey}]
  /\ wdone \in [Writer -> SUBSET Key]
  /\ wapp \in [Writer -> BOOLEAN]
  /\ cpc \in {"idle", "seal", "select", "copy", "sync", "detach", "unlink"}
  /\ live \subseteq Key /\ victims \subseteq File /\ pending \subseteq Key
  /\ wactive \in File \cup {0} /\ wfiles \subseteq File /\ werr \in BOOLEAN
  /\ acked \subseteq Key /\ stray \subseteq File

\* Once WriteBatch or Put has returned success, its objects are found by every
\* later session of the store: after kills, power losses, failed calls, seals
\* and compactions that keep them (WriteBatch's "on return, all yielded objects
\* are durable").  Provided again ~ReopenDirty.
AckedStored == up = "up" => acked \subseteq Stored

\* Failed calls, kills and power losses leave no directory that Open refuses: at
\* most one .seg.active, and a footer in every .seg.  Provided that the store is
\* not reopened over a dirty page cache (~ReopenDirty): after a kill that leaves a
\* footer in the page cache only, recoverActive renames the file and fsyncs the
\* directory but not the file, and a power loss then leaves a .seg without a
\* footer, which every later Open refuses.  With ReopenDirty the property fails.
OpenNeverCorrupt == up # "corrupt"

\* A published sealed segment is whole on disk under its final name, whatever
\* directory state a power loss leaves: selectVictims and removeVictims may
\* count on every other copy in it.  It has the same condition (~ReopenDirty): what
\* recoverActive publishes over a dirty page cache is not durable yet.
SealedDurable ==
  \A f \in sealed : /\ synced[f] = Keys(f) /\ foot[f] = "durable"
                    /\ \A d \in dirStates : d[f] # "none"

\* A Wipe that returns success has erased, durably, every file that was part of
\* the store, also after a seal that failed half way.
WipeErases ==
  [][WipeEnds(TRUE) => \A d \in dirStates', f \in File \ stray : d[f] = "none"]_vars

----------------------------------------------------------------------------
(* The inductive invariant, for a store that is not reopened over a dirty   *)
(* page cache (~ReopenDirty).                                               *)

\* The steps between the append and the return of its caller.
Chain == {"putsync", "rotate", "footer", "footsync", "rename", "swap"}

\* Who holds appendMu, at which step of its own, with which arguments.
Holder ==
  /\ (mpc = "free") = (mby = "none")
  /\ mpc = "free" => mkey = NoKey /\ ~msync
  /\ (mpc = "wipe") = (mby = "wipe")
  /\ \A w \in Writer :
       /\ wpc[w] \in {"append", "put"} => wkey[w] \in Key
       /\ wpc[w] = "sync" => mby = w
       /\ wpc[w] = "idle" => wdone[w] = {}
       /\ mby = w => \/ mpc = "sync" /\ wpc[w] \in {"sync", "failsync"}
                     \/ /\ mpc \in {"append", "header"} \cup Chain /\ wpc[w] \in {"append", "put"}
                        /\ mkey = wkey[w] /\ msync = (wpc[w] = "put")
  /\ (cpc = "idle") = (mby # "compact")
  /\ cpc # "idle" => ~msync /\ \A w \in Writer : wpc[w] = "idle"
  /\ cpc = "seal" => mpc \in Chain /\ mkey = NoKey
  /\ cpc = "copy" => \/ mpc = "compact"
                     \/ mpc \in {"append", "header"} \cup Chain /\ mkey \in pending
  /\ cpc = "sync" => mpc = "sync" /\ pending = {}
  /\ cpc \in {"select", "detach", "unlink"} => mpc = "compact"
  /\ mpc = "putsync" => msync

\* A store that is not up, and the steps of appendMu that need a healthy path.
Idle ==
  /\ up # "up" => /\ mpc = "free" /\ active = 0 /\ sealed = {} /\ ~failed
                  /\ \A w \in Writer : wpc[w] = "idle"
  /\ mpc \in {"header"} \cup Chain => ~failed
  /\ mpc \in Chain => active # 0
  /\ mpc \in {"header", "wipe"} => active = 0
  /\ mpc = "wipe" => sealed = {} /\ acked = {}
  /\ mpc # "wipe" => wactive = 0 /\ wfiles = {} /\ ~werr

\* Every directory that a power loss may leave has one active file at most, and a
\* whole footer in every sealed one; ids to come name no file.
GoodDirectory(d) ==
  /\ \A f, g \in File : d[f] = "active" /\ d[g] = "active" => f = g
  /\ \A f \in File : /\ d[f] = "sealed" => foot[f] = "durable" /\ ~junk[f] /\ dir[f] # "active"
                     /\ f >= nextID => d[f] = "none"

Directories == \A d \in dirStates : GoodDirectory(d)

\* Of what is durable nothing was dropped, and a durable footer came with an fsync
\* of all the records before it.
Pages ==
  \A f \in File : /\ synced[f] \subseteq Keys(f) /\ synced[f] \cap dropped[f] = {}
                  /\ foot[f] = "durable" => Keys(f) \subseteq synced[f] \cup dropped[f]

\* The active file has its name on disk; as long as no call failed on it, it has
\* lost no page, and it has a footer exactly while it is being sealed.
ActiveFile ==
  /\ active # 0 =>
       /\ \A d \in dirStates : d[active] # "none"
       /\ active \notin sealed
       /\ ~failed => /\ dropped[active] = {}
                     /\ dir[active] = IF mpc = "swap" THEN "sealed" ELSE "active"
                     /\ foot[active] = CASE mpc = "footsync" -> "cached"
                                         [] mpc \in {"rename", "swap"} -> "durable"
                                         [] OTHER -> "none"
  /\ mpc \in {"footsync", "rename", "swap"} => ~junk[active]
  /\ mpc = "header" =>
       /\ nextID - 1 \in File /\ dir[nextID - 1] = "active"
       /\ body[nextID - 1] = <<>> /\ dropped[nextID - 1] = {} /\ foot[nextID - 1] = "none"

SealedNamed == \A f \in sealed : dir[f] = "sealed"

\* Every file is somebody's: published, in the making, about to be removed, or
\* left behind.  Only the active one may still have the active name.
Attached ==
  up = "up" => \A f \in File :
    /\ dir[f] = "active" => f \in {active, wactive} \/ (mpc = "header" /\ f = nextID - 1)
    /\ dir[f] = "sealed" => \/ f \in sealed \cup wfiles \cup {active, wactive} \cup stray
                            \/ cpc = "unlink" /\ f \in victims
                            \/ werr

\* The record of the call is in the active file, and durable once a Put has synced it.
Recorded ==
  /\ mpc \in Chain /\ mkey # NoKey => mkey \in Keys(active)
  /\ mpc = "rotate" /\ msync => synced[active] = Keys(active)

\* What a batch has yielded is stored.
YieldedStored == \A w \in Writer : wdone[w] \subseteq Stored

\* The victims are segments of the store until they are detached.
Victims ==
  /\ cpc \in {"idle", "seal", "select"} => victims = {} /\ pending = {}
  /\ cpc \in {"copy", "sync", "detach"} => victims \subseteq sealed
  /\ cpc = "unlink" => \A f \in victims : f \notin sealed /\ f # active /\ dir[f] = "sealed"

\* Every acknowledged record is live; the survivors have it, or it is still to be copied.
Copied ==
  /\ cpc # "idle" => acked \subseteq live
  /\ cpc \in {"copy", "sync"} => acked \subseteq pending \cup Survivors

\* The records of s up to the first that is not durable: what is left of an active
\* file in the worst case.
Solid(s, durable) ==
  {s[i] : i \in {j \in DOMAIN s : \A h \in 1..j : s[h] \in durable}}

\* The files that hold what is acknowledged, those of them that every power loss leaves,
\* and that every acknowledged record is in one of these.
Holding ==
  IF up # "up" THEN File
  ELSE (IF cpc = "detach" THEN sealed \ victims ELSE sealed) \cup ({active} \ {0})

Safe == {f \in Holding : \A d \in dirStates : d[f] # "none"}

AckedDurable == \A k \in acked : \E f \in Safe : k \in Solid(body[f], synced[f])

IndInv ==
  /\ TypeOK /\ Holder /\ Idle
  /\ Directories /\ Pages /\ ActiveFile /\ SealedNamed /\ SealedDurable /\ Attached
  /\ Recorded /\ YieldedStored /\ Victims /\ Copied /\ AckedDurable
  /\ OpenNeverCorrupt
=============================================================================
