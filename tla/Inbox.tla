------------------------------- MODULE Inbox -------------------------------
(***************************************************************************)
(* Package inbox: clients stage, commit and wait for packs, a pool of      *)
(* workers drains them into the packstore, Close drains and stops, and a   *)
(* restart rebuilds the queue from the directory.                          *)
(*                                                                         *)
(* An entry is named after its body, so a pack is its body; the root in    *)
(* its header is what WaitFor counts by.  The store is external here: a    *)
(* write that succeeds is durable (PackStore).  cond.Wait is a process     *)
(* asleep until a Broadcast; a directory change reaches the disk in order, *)
(* at the latest at the next syncDir.                                      *)
(***************************************************************************)
EXTENDS Naturals, Sequences, FiniteSets, SequencesExt

CONSTANTS
  Client, Worker,
  Body,         \* pack bodies: digests, so there are finitely many
  Root,         \* root keys
  None,
  MaxWork,      \* bound: no new upload while that many items are queued
  LateCommit    \* whether a Commit may overlap or follow Close

ASSUME InboxAssumption ==
  /\ None \notin Root \cup Body
  /\ MaxWork \in Nat \ {0}
  /\ LateCommit \in BOOLEAN
  /\ Client \cap Worker = {}
  /\ IsFiniteSet(Worker) /\ IsFiniteSet(Body)

VARIABLES
  dir,       \* [pack: Body -> Root or None, failed: SUBSET Body]: the directories
  dirStates, \* what a power loss may leave of them
  store,     \* the bodies whose objects are in the packstore
  up,        \* the inbox is open
  work,      \* the queue of [name, root]
  groups,    \* [Root -> Nat]
  closed,
  cpc, cbody, croot, cadded,   \* clients: step, body, root, Commit's added
  wpc, witem,                  \* workers: step, item
  committed, \* history: bodies whose Commit added an entry
  skipped    \* history: bodies of items dropped on an I/O error

dirVars == <<dir, dirStates>>
queueVars == <<work, groups>>
clientVars == <<cpc, cbody, croot, cadded>>
workerVars == <<wpc, witem>>
histVars == <<committed, skipped>>
vars == <<dirVars, store, up, queueVars, closed, clientVars, workerVars, histVars>>

NoItem == [name |-> None, root |-> None]

----------------------------------------------------------------------------
SetDir(d) == dir' = d /\ dirStates' = dirStates \cup {d}

syncDir == dirStates' = {dir} /\ UNCHANGED dir

\* sync.Cond's Broadcast, applied to the processes' next steps.
Awake(pc) == [p \in DOMAIN pc |-> IF pc[p] = "asleep" THEN "awake" ELSE pc[p]]

Clear(c) ==
  /\ cbody' = [cbody EXCEPT ![c] = None]
  /\ croot' = [croot EXCEPT ![c] = None]
  /\ cadded' = [cadded EXCEPT ![c] = FALSE]

----------------------------------------------------------------------------
(* Clients.                                                                 *)

\* Stage: a fsynced tmp file that nobody else sees.
Stage(c, b, r) ==
  /\ up /\ cpc[c] = "idle"
  /\ LateCommit \/ ~closed
  /\ Len(work) < MaxWork
  /\ cpc' = [cpc EXCEPT ![c] = "staged"]
  /\ cbody' = [cbody EXCEPT ![c] = b]
  /\ croot' = [croot EXCEPT ![c] = r]
  /\ UNCHANGED <<dirVars, store, up, queueVars, closed, cadded, workerVars, histVars>>

Discard(c) ==
  /\ cpc[c] = "staged"
  /\ cpc' = [cpc EXCEPT ![c] = "idle"]
  /\ Clear(c)
  /\ UNCHANGED <<dirVars, store, up, queueVars, closed, workerVars, histVars>>

\* Commit: the stat.
CommitStat(c) ==
  /\ cpc[c] = "staged"
  /\ cpc' = [cpc EXCEPT ![c] = IF dir.pack[cbody[c]] # None THEN "returned" ELSE "rename"]
  /\ UNCHANGED <<dirVars, store, up, queueVars, closed, cbody, croot, cadded, workerVars,
                 histVars>>

CommitRename(c) ==
  /\ cpc[c] = "rename"
  /\ SetDir([dir EXCEPT !.pack[cbody[c]] = croot[c]])
  /\ cpc' = [cpc EXCEPT ![c] = "syncdir"]
  /\ UNCHANGED <<store, up, queueVars, closed, cbody, croot, cadded, workerVars, histVars>>

\* Mutant: the entry is queued before its name is durable.
CommitNoSyncDir(c) ==
  /\ cpc[c] = "syncdir"
  /\ cpc' = [cpc EXCEPT ![c] = "enqueue"]
  /\ UNCHANGED <<dirVars, store, up, queueVars, closed, cbody, croot, cadded, workerVars,
                 histVars>>

CommitSyncDir(c) ==
  /\ cpc[c] = "syncdir"
  /\ syncDir
  /\ cpc' = [cpc EXCEPT ![c] = "enqueue"]
  /\ UNCHANGED <<store, up, queueVars, closed, cbody, croot, cadded, workerVars, histVars>>

\* The stat, the rename or syncDir fails.
CommitFails(c) ==
  /\ cpc[c] \in {"staged", "rename", "syncdir"}
  /\ cpc' = [cpc EXCEPT ![c] = "idle"]
  /\ Clear(c)
  /\ UNCHANGED <<dirVars, store, up, queueVars, closed, workerVars, histVars>>

\* Mutant: the queued item does not carry its root.
CommitEnqueueRootless(c) ==
  /\ cpc[c] = "enqueue"
  /\ groups' = [groups EXCEPT ![croot[c]] = @ + 1]
  /\ work' = Append(work, [name |-> cbody[c], root |-> None])
  /\ wpc' = Awake(wpc)
  /\ cpc' = [Awake(cpc) EXCEPT ![c] = "returned"]
  /\ cadded' = [cadded EXCEPT ![c] = TRUE]
  /\ committed' = committed \cup {cbody[c]}
  /\ UNCHANGED <<dirVars, store, up, closed, cbody, croot, witem, skipped>>

\* Commit's locked tail.
CommitEnqueue(c) ==
  /\ cpc[c] = "enqueue"
  /\ groups' = [groups EXCEPT ![croot[c]] = @ + 1]
  /\ work' = Append(work, [name |-> cbody[c], root |-> croot[c]])
  /\ wpc' = Awake(wpc)
  /\ cpc' = [Awake(cpc) EXCEPT ![c] = "returned"]
  /\ cadded' = [cadded EXCEPT ![c] = TRUE]
  /\ committed' = committed \cup {cbody[c]}
  /\ UNCHANGED <<dirVars, store, up, closed, cbody, croot, witem, skipped>>

\* After Commit the client goes on to WaitFor its root, or not.
CallWaitFor(c) ==
  /\ cpc[c] = "returned"
  /\ cpc' = [cpc EXCEPT ![c] = "awake"]
  /\ UNCHANGED <<dirVars, store, up, queueVars, closed, cbody, croot, cadded, workerVars,
                 histVars>>

SkipWaitFor(c) ==
  /\ cpc[c] = "returned"
  /\ cpc' = [cpc EXCEPT ![c] = "idle"]
  /\ Clear(c)
  /\ UNCHANGED <<dirVars, store, up, queueVars, closed, workerVars, histVars>>

WaitForSleeps(c) ==
  /\ cpc[c] = "awake" /\ groups[croot[c]] > 0
  /\ cpc' = [cpc EXCEPT ![c] = "asleep"]
  /\ UNCHANGED <<dirVars, store, up, queueVars, closed, cbody, croot, cadded, workerVars,
                 histVars>>

WaitForReturns(c) ==
  /\ cpc[c] = "awake" /\ groups[croot[c]] = 0
  /\ cpc' = [cpc EXCEPT ![c] = "idle"]
  /\ Clear(c)
  /\ UNCHANGED <<dirVars, store, up, queueVars, closed, workerVars, histVars>>

----------------------------------------------------------------------------
(* Workers: processLoop and process.                                        *)

Move(w, pc) == wpc' = [wpc EXCEPT ![w] = pc]

Sleep(w) ==
  /\ up /\ wpc[w] = "awake" /\ work = <<>> /\ ~closed
  /\ Move(w, "asleep")
  /\ UNCHANGED <<dirVars, store, up, queueVars, closed, clientVars, witem, histVars>>

Exit(w) ==
  /\ up /\ wpc[w] = "awake" /\ work = <<>> /\ closed
  /\ Move(w, "exited")
  /\ UNCHANGED <<dirVars, store, up, queueVars, closed, clientVars, witem, histVars>>

\* Mutant: an item stops counting when it leaves the queue.
TakeCountsDown(w) ==
  /\ up /\ wpc[w] = "awake" /\ work # <<>>
  /\ witem' = [witem EXCEPT ![w] = Head(work)]
  /\ work' = Tail(work)
  /\ groups' = [groups EXCEPT ![Head(work).root] = @ - 1]
  /\ Move(w, "open")
  /\ UNCHANGED <<dirVars, store, up, closed, clientVars, histVars>>

Take(w) ==
  /\ up /\ wpc[w] = "awake" /\ work # <<>>
  /\ witem' = [witem EXCEPT ![w] = Head(work)]
  /\ work' = Tail(work)
  /\ Move(w, "open")
  /\ UNCHANGED <<dirVars, store, up, groups, closed, clientVars, histVars>>

\* process opens the entry; another worker may have removed it.
OpenEntry(w) ==
  /\ wpc[w] = "open"
  /\ IF dir.pack[witem[w].name] = None THEN Move(w, "finish")
     ELSE Move(w, "write") \/ Move(w, "quarantine")
  /\ UNCHANGED <<dirVars, store, up, queueVars, closed, clientVars, witem, histVars>>

\* WriteParallel stores the pack, or a record or the store fails.
WriteEntry(w) ==
  /\ wpc[w] = "write"
  /\ \/ store' = store \cup {witem[w].name} /\ Move(w, "remove")
     \/ UNCHANGED store /\ Move(w, "quarantine")
  /\ UNCHANGED <<dirVars, up, queueVars, closed, clientVars, witem, histVars>>

RemoveEntry(w) ==
  /\ wpc[w] = "remove"
  /\ SetDir([dir EXCEPT !.pack[witem[w].name] = None])
  /\ Move(w, "finish")
  /\ UNCHANGED <<store, up, queueVars, closed, clientVars, witem, histVars>>

\* The rename into failed/ finds nothing when another worker took the file.
quarantine(w) ==
  /\ wpc[w] = "quarantine"
  /\ IF dir.pack[witem[w].name] = None THEN UNCHANGED dirVars
     ELSE SetDir([pack |-> [dir.pack EXCEPT ![witem[w].name] = None],
                  failed |-> dir.failed \cup {witem[w].name}])
  /\ Move(w, "finish")
  /\ UNCHANGED <<store, up, queueVars, closed, clientVars, witem, histVars>>

\* The open, the removal or the quarantine fails: logged, the file stays.
EntryFails(w) ==
  /\ wpc[w] \in {"open", "remove", "quarantine"}
  /\ skipped' = IF wpc[w] = "remove" THEN skipped ELSE skipped \cup {witem[w].name}
  /\ Move(w, "finish")
  /\ UNCHANGED <<dirVars, store, up, queueVars, closed, clientVars, witem, committed>>

\* Mutant: the count drops but nobody is woken.
FinishSilently(w) ==
  /\ wpc[w] = "finish"
  /\ groups' = [groups EXCEPT ![witem[w].root] = IF @ > 0 THEN @ - 1 ELSE 0]
  /\ witem' = [witem EXCEPT ![w] = NoItem]
  /\ Move(w, "awake")
  /\ UNCHANGED <<dirVars, store, up, work, closed, clientVars, histVars>>

\* The locked tail of processLoop.
Finish(w) ==
  /\ wpc[w] = "finish"
  /\ groups' = [groups EXCEPT ![witem[w].root] = IF @ > 0 THEN @ - 1 ELSE 0]
  /\ witem' = [witem EXCEPT ![w] = NoItem]
  /\ wpc' = [Awake(wpc) EXCEPT ![w] = "awake"]
  /\ cpc' = Awake(cpc)
  /\ UNCHANGED <<dirVars, store, up, work, closed, cbody, croot, cadded, histVars>>

----------------------------------------------------------------------------
(* Close, crashes, Open.                                                    *)

InCommit(c) == cpc[c] \in {"staged", "rename", "syncdir", "enqueue"}

\* Mutant: Close does not wake the idle workers.
CloseSilently ==
  /\ up /\ ~closed
  /\ LateCommit \/ ~\E c \in Client : InCommit(c)
  /\ closed' = TRUE
  /\ UNCHANGED <<dirVars, store, up, queueVars, clientVars, workerVars, histVars>>

Close ==
  /\ up /\ ~closed
  /\ LateCommit \/ ~\E c \in Client : InCommit(c)
  /\ closed' = TRUE
  /\ wpc' = Awake(wpc)
  /\ cpc' = Awake(cpc)
  /\ UNCHANGED <<dirVars, store, up, queueVars, cbody, croot, cadded, witem, histVars>>

\* The process ends, by itself or killed.
Kill ==
  /\ up
  /\ up' = FALSE
  /\ work' = <<>> /\ groups' = [r \in Root |-> 0] /\ closed' = FALSE
  /\ cpc' = [c \in Client |-> "idle"]
  /\ cbody' = [c \in Client |-> None] /\ croot' = [c \in Client |-> None]
  /\ cadded' = [c \in Client |-> FALSE]
  /\ wpc' = [w \in Worker |-> "exited"] /\ witem' = [w \in Worker |-> NoItem]
  /\ UNCHANGED <<dirVars, store, histVars>>

PowerLoss ==
  /\ ~up
  /\ \E d \in dirStates : dir' = d /\ dirStates' = {d}
  /\ UNCHANGED <<store, up, queueVars, closed, clientVars, workerVars, histVars>>

\* The committed entries that recover finds.
Entries == {b \in Body : dir.pack[b] # None}

\* The header of an entry cannot be read: recover renames it into failed/, before
\* anything of the process runs.
recoverQuarantine(b) ==
  /\ ~up /\ b \in Entries
  /\ SetDir([pack |-> [dir.pack EXCEPT ![b] = None], failed |-> dir.failed \cup {b}])
  /\ UNCHANGED <<store, up, queueVars, closed, clientVars, workerVars, histVars>>

\* Mutant: recovered entries are queued but not counted.
recoverUncounted ==
  /\ ~up
  /\ up' = TRUE
  /\ \E readable \in SUBSET Entries : \E q \in SetToSeqs(readable) :
       work' = [i \in DOMAIN q |-> [name |-> q[i], root |-> dir.pack[q[i]]]]
  /\ wpc' = [w \in Worker |-> "awake"]
  /\ UNCHANGED <<dirVars, store, groups, closed, clientVars, witem, histVars>>

\* Open: recover counts and queues the committed entries, then the workers start.
\* One that it could neither read nor set aside stays where it is.
recover ==
  /\ ~up
  /\ up' = TRUE
  /\ \E readable \in SUBSET Entries :
       /\ \E q \in SetToSeqs(readable) :
            work' = [i \in DOMAIN q |-> [name |-> q[i], root |-> dir.pack[q[i]]]]
       /\ groups' = [r \in Root |-> Cardinality({b \in readable : dir.pack[b] = r})]
  /\ wpc' = [w \in Worker |-> "awake"]
  /\ UNCHANGED <<dirVars, store, closed, clientVars, witem, histVars>>

----------------------------------------------------------------------------
Init ==
  /\ dir = [pack |-> [b \in Body |-> None], failed |-> {}]
  /\ dirStates = {dir}
  /\ store = {} /\ up = TRUE
  /\ work = <<>> /\ groups = [r \in Root |-> 0] /\ closed = FALSE
  /\ cpc = [c \in Client |-> "idle"]
  /\ cbody = [c \in Client |-> None] /\ croot = [c \in Client |-> None]
  /\ cadded = [c \in Client |-> FALSE]
  /\ wpc = [w \in Worker |-> "awake"] /\ witem = [w \in Worker |-> NoItem]
  /\ committed = {} /\ skipped = {}

Upload(c) ==
  \/ \E b \in Body, r \in Root : Stage(c, b, r)
  \/ Discard(c) \/ CommitStat(c) \/ CommitFails(c) \/ SkipWaitFor(c) \/ CallWaitFor(c)

CommitStep(c) == CommitRename(c) \/ CommitSyncDir(c) \/ CommitEnqueue(c)

WaitStep(c) == WaitForSleeps(c) \/ WaitForReturns(c)

Process(w) ==
  \/ Sleep(w) \/ Exit(w) \/ Take(w)
  \/ OpenEntry(w) \/ WriteEntry(w) \/ RemoveEntry(w) \/ quarantine(w) \/ EntryFails(w)
  \/ Finish(w)

Next ==
  \/ \E c \in Client : Upload(c) \/ CommitStep(c) \/ WaitStep(c)
  \/ \E w \in Worker : Process(w)
  \/ Close \/ Kill \/ PowerLoss
  \/ (\E b \in Body : recoverQuarantine(b)) \/ recover

Spec == Init /\ [][Next]_vars

\* Goroutines run: a worker that can step does, and so does a woken WaitFor.
FairSpec ==
  /\ Spec
  /\ \A w \in Worker : WF_vars(Process(w))
  /\ \A c \in Client : WF_vars(WaitStep(c))

----------------------------------------------------------------------------
(* Properties.                                                              *)

DirState == [pack : [Body -> Root \cup {None}], failed : SUBSET Body]

Item == [name : Body, root : Root]

\* Every variable has its type, and the directory is one a power loss may leave.
TypeOK ==
  /\ dir \in DirState /\ dirStates \subseteq DirState /\ dir \in dirStates
  /\ store \subseteq Body /\ up \in BOOLEAN /\ closed \in BOOLEAN
  /\ work \in Seq(Item) /\ groups \in [Root -> Nat]
  /\ cpc \in [Client -> {"idle", "staged", "rename", "syncdir", "enqueue", "returned", "awake",
                         "asleep"}]
  /\ cbody \in [Client -> Body \cup {None}] /\ croot \in [Client -> Root \cup {None}]
  /\ cadded \in [Client -> BOOLEAN]
  /\ wpc \in [Worker -> {"awake", "asleep", "open", "write", "remove", "quarantine", "finish",
                         "exited"}]
  /\ witem \in [Worker -> Item \cup {NoItem}]
  /\ committed \subseteq Body /\ skipped \subseteq Body

\* A pack whose Commit added an entry is never lost, whatever worker removes,
\* quarantines or overwrites its file and whenever the process or the machine
\* stops: it is in the store, in failed/ or still in the inbox.
NoPackLost == committed \subseteq store \cup dir.failed \cup Entries

\* groups counts exactly the queued and the running items of each root, so a
\* worker's decrement never meets a zero and WaitFor's test means what it says.
GroupsExact ==
  \A r \in Root :
    groups[r] = Cardinality({i \in DOMAIN work : work[i].root = r})
                + Cardinality({w \in Worker : witem[w].root = r})

\* When WaitFor returns after a Commit that added an entry, that pack is in the
\* store or set aside, unless an I/O error made a worker drop it.
BarrierHolds ==
  [][\A c \in Client : WaitForReturns(c) /\ cadded[c]
       => cbody[c] \in store \cup dir.failed \cup skipped]_vars

----------------------------------------------------------------------------
(* The inductive invariant of the three.                                    *)

\* A client has a pack from Stage on, a worker an item from Take to Finish.
Busy == {"open", "write", "remove", "quarantine", "finish"}

Holding ==
  /\ \A c \in Client : cpc[c] # "idle" => cbody[c] \in Body /\ croot[c] \in Root
  /\ \A w \in Worker : witem[w] # NoItem <=> wpc[w] \in Busy

\* Nothing of a process outlives it.
DownIsIdle ==
  ~up => /\ work = <<>> /\ ~closed
         /\ \A r \in Root : groups[r] = 0
         /\ \A c \in Client : cpc[c] = "idle" /\ ~cadded[c]
         /\ \A w \in Worker : wpc[w] = "exited"

\* Directory state d accounts for body b.
Covers(d, b) == b \in store \cup d.failed \/ d.pack[b] # None

\* Every state a power loss may leave accounts for every committed pack, and for
\* one whose Commit has passed syncDir; the directory itself does for one that
\* is renamed.  A file is removed after the store has its pack.
CoveredOnDisk ==
  /\ \A d \in dirStates : \A b \in committed : Covers(d, b)
  /\ \A c \in Client : cpc[c] = "enqueue" => \A d \in dirStates : Covers(d, cbody[c])
  /\ \A c \in Client : cpc[c] = "syncdir" => Covers(dir, cbody[c])
  /\ \A w \in Worker : wpc[w] = "remove" => witem[w].name \in store

\* What WaitFor waits for: a pack that Commit has queued is settled, or an item
\* with its name and root is queued or being processed.
Settled(b) == b \in store \cup dir.failed \cup skipped

AddedPending ==
  \A c \in Client : cadded[c] =>
    /\ cpc[c] \in {"returned", "awake", "asleep"}
    /\ cbody[c] \in committed
    /\ LET it == [name |-> cbody[c], root |-> croot[c]]
       IN  \/ Settled(cbody[c])
           \/ \E i \in DOMAIN work : work[i] = it
           \/ \E w \in Worker : witem[w] = it /\ wpc[w] # "finish"

IndInv ==
  /\ TypeOK /\ GroupsExact
  /\ Holding /\ DownIsIdle /\ CoveredOnDisk /\ AddedPending

\* Once commits stop, every WaitFor returns: no wakeup is lost and no count left
\* behind.  (While packs of the root keep coming in, it may wait on.)
WaitForEnds ==
  \A c \in Client : <>[](\A d \in Client : ~InCommit(d))
                    => (cpc[c] \in {"awake", "asleep"} ~> cpc[c] = "idle")

\* Close's wg.Wait ends: every worker drains the queue and exits.
CloseEnds == closed ~> \A w \in Worker : wpc[w] = "exited"

\* When WaitFor returns after any successful Commit, that pack is in the store or
\* set aside, unless an I/O error made a worker drop it.
BarrierCoversEveryCommit ==
  [][\A c \in Client : WaitForReturns(c)
       => cbody[c] \in store \cup dir.failed \cup skipped]_vars
=============================================================================
