------------------------------- MODULE Ingest -------------------------------
(***************************************************************************)
(* Package ingest, the producer side: pbuilder builds the tree of a source *)
(* directory on a bounded pool of goroutines, and objects hands what they  *)
(* emit to its consumer through a buffered channel.                        *)
(*                                                                         *)
(* A node is a path of the source.  The entries of a directory are those   *)
(* the ignore files keep.  Objs[n] are the objects a node emits itself, in *)
(* order: a file its chunks and index nodes, a directory its leaves and    *)
(* index nodes (TreeBuilder says which), a symlink or device none.         *)
(* Upto[d][k] is the entry whose AddEntry emits the k-th object of the     *)
(* directory d, a leaf or an index node over entries up to that one; it is *)
(* the last entry for what Finish emits and for d's own attributes.  The   *)
(* consumer's steps are defined here and taken by its caller               *)
(* (WriteParallel).                                                        *)
(***************************************************************************)
EXTENDS Naturals, Sequences, FiniteSets, SequencesExt

CONSTANTS
  Node, RootNode,
  Entries,    \* [directory -> sequence of its entries, sorted by name]
  Objs,       \* [Node -> sequence of object keys]
  Upto,       \* [directory -> for each of its objects, the entry that emits it]
  Key, NoKey,
  Jobs,       \* slots of the pool
  BufSize     \* capacity of the channel; the code's is 2 * Jobs

Dir == DOMAIN Entries

\* A directory emits its root node; so does a file, an empty one too, and the root
\* is one of the two.
ASSUME IngestAssumption ==
  /\ Dir \subseteq Node /\ RootNode \in Node /\ NoKey \notin Key
  /\ Entries \in [Dir -> Seq(Node)] /\ Objs \in [Node -> Seq(Key)]
  /\ \A n \in Dir \cup {RootNode} : Objs[n] # <<>>
  /\ Jobs \in Nat \ {0} /\ BufSize \in Nat \ {0}

\* The entries are added in order, and all of them before the last object.
ASSUME UptoAssumption ==
  \A d \in Dir :
    /\ Upto[d] \in [1..Len(Objs[d]) -> 0..Len(Entries[d])]
    /\ \A i, j \in 1..Len(Objs[d]) : i <= j => Upto[d][i] <= Upto[d][j]
    /\ Upto[d][Len(Objs[d])] = Len(Entries[d])

\* The source is a tree: a node is an entry of one directory, once, the root of
\* none, and a set with the root and the entries of its directories is all of it.
ASSUME TreeAssumption ==
  /\ \A d, e \in Dir : \A i \in DOMAIN Entries[d], j \in DOMAIN Entries[e] :
       Entries[d][i] = Entries[e][j] => d = e /\ i = j
  /\ \A d \in Dir : RootNode \notin ToSet(Entries[d])
  /\ \A S \in SUBSET Node :
       RootNode \in S /\ (\A d \in Dir \cap S : ToSet(Entries[d]) \subseteq S) => S = Node

VARIABLES
  bpc,      \* [Node -> control state of its build call]
  next,     \* [Node -> index of the entry a directory handles next]
  sent,     \* [Node -> number of its objects emitted]
  res,      \* [Node -> result of its build call]
  sem,      \* the nodes built on a goroutine of the pool
  built,    \* objects' channel
  closed,   \* that channel is closed
  stop,     \* ctx is cancelled: the consumer has stopped
  buildErr, \* the error to yield after the last object
  root      \* the caller's *root

buildVars == <<bpc, next, sent, res, sem>>
objectsVars == <<built, closed, stop, buildErr, root>>
ingestVars == <<buildVars, objectsVars>>

Parent(n) == CHOOSE d \in Dir : \E i \in DOMAIN Entries[d] : Entries[d][i] = n

Children(d) == ToSet(Entries[d])

----------------------------------------------------------------------------
\* A build call returns r.  On a goroutine of the pool it gives its slot back;
\* inline it returns to the loop of its directory.
End(n, r) ==
  /\ res' = [res EXCEPT ![n] = r]
  /\ sem' = sem \ {n}
  /\ bpc' = IF n \in sem \/ n = RootNode
            THEN [bpc EXCEPT ![n] = "done"]
            ELSE [bpc EXCEPT ![n] = "done", ![Parent(n)] = "walk"]

\* os.ReadDir; the ignored entries are already left out.
ReadDir(d) ==
  /\ d \in Dir /\ bpc[d] = "read"
  /\ bpc' = [bpc EXCEPT ![d] = "walk"]
  /\ UNCHANGED <<next, sent, res, sem, objectsVars>>

\* Lstat, then the node of a file is opened; a node without content is complete.
OpenFile(f) ==
  /\ f \notin Dir /\ bpc[f] = "read"
  /\ IF Objs[f] = <<>> THEN End(f, "ok")
     ELSE bpc' = [bpc EXCEPT ![f] = "emit"] /\ UNCHANGED <<res, sem>>
  /\ UNCHANGED <<next, sent, objectsVars>>

\* The entries the loop has to add before n emits its next object and whose call
\* returned an error: errs[i] is tested entry by entry, in the loop that emits.
Refused(n) ==
  IF n \in Dir
  THEN {i \in 1..Upto[n][sent[n] + 1] : res[Entries[n][i]] \in {"err", "stopped"}}
  ELSE {}

\* Lstat, ReadDir, Open or an ignore file fails; or the read of a file between
\* two chunks; or, of an entry that is a directory, the read of its extended
\* attributes, which follows its objects.
ReadFails(n) ==
  /\ \/ bpc[n] = "read"
     \/ /\ bpc[n] = "emit"
        /\ n \in Dir => n # RootNode /\ sent[n] > 0 /\ Refused(n) = {}
  /\ End(n, "err")
  /\ UNCHANGED <<next, sent, objectsVars>>

\* Mutant: the pool is not bounded.
OffloadAlways(d) ==
  /\ bpc[d] = "walk" /\ next[d] <= Len(Entries[d])
  /\ sem' = sem \cup {Entries[d][next[d]]}
  /\ bpc' = [bpc EXCEPT ![Entries[d][next[d]]] = "read"]
  /\ next' = [next EXCEPT ![d] = @ + 1]
  /\ UNCHANGED <<sent, res, objectsVars>>

\* The pool has a slot: the entry is built on a goroutine of its own.
Offload(d) ==
  /\ bpc[d] = "walk" /\ next[d] <= Len(Entries[d])
  /\ Cardinality(sem) < Jobs
  /\ sem' = sem \cup {Entries[d][next[d]]}
  /\ bpc' = [bpc EXCEPT ![Entries[d][next[d]]] = "read"]
  /\ next' = [next EXCEPT ![d] = @ + 1]
  /\ UNCHANGED <<sent, res, objectsVars>>

\* Mutant: the send on sem blocks, so the entry waits for a slot.
InlineNever(d) == FALSE /\ UNCHANGED ingestVars

\* The pool is full: the entry is built inline, and the loop waits for it.
Inline(d) ==
  /\ bpc[d] = "walk" /\ next[d] <= Len(Entries[d])
  /\ Cardinality(sem) = Jobs
  /\ bpc' = [bpc EXCEPT ![Entries[d][next[d]]] = "read", ![d] = "inline"]
  /\ next' = [next EXCEPT ![d] = @ + 1]
  /\ UNCHANGED <<sent, res, sem, objectsVars>>

\* Mutant: the loop does not wait for the calls it offloaded.
JoinedInline(d) == \A c \in Children(d) \ sem : bpc[c] = "done"

\* wg.Wait: every entry's build call has returned.
Joined(d) == \A c \in Children(d) : bpc[c] = "done"

\* After wg.Wait the directory's own objects are assembled, entry by entry.
Assemble(d) ==
  /\ bpc[d] = "walk" /\ next[d] > Len(Entries[d])
  /\ Joined(d)
  /\ bpc' = [bpc EXCEPT ![d] = "emit"]
  /\ UNCHANGED <<next, sent, res, sem, objectsVars>>

\* The loop meets an entry whose call failed and returns its error; the leaves and
\* index nodes over the entries before it have been emitted.
EntryFailed(d) ==
  /\ bpc[d] = "emit"
  /\ \E i \in Refused(d) :
       /\ \A j \in Refused(d) : i <= j
       /\ End(d, res[Entries[d][i]])
  /\ UNCHANGED <<next, sent, objectsVars>>

\* emit's select: the channel has room.
Emit(n) ==
  /\ bpc[n] = "emit" /\ Refused(n) = {}
  /\ Len(built) < BufSize
  /\ built' = Append(built, Objs[n][sent[n] + 1])
  /\ sent' = [sent EXCEPT ![n] = @ + 1]
  /\ IF sent[n] + 1 = Len(Objs[n]) THEN End(n, "ok") ELSE UNCHANGED <<bpc, res, sem>>
  /\ UNCHANGED <<next, closed, stop, buildErr, root>>

\* emit's select: the consumer has stopped (errStopped).
EmitStopped(n) ==
  /\ bpc[n] = "emit" /\ Refused(n) = {} /\ stop
  /\ End(n, "stopped")
  /\ UNCHANGED <<next, sent, objectsVars>>

\* buildRoot returned: its result is published and the channel closed.
BuildReturns ==
  /\ bpc[RootNode] = "done" /\ ~closed
  /\ closed' = TRUE
  /\ root' = IF res[RootNode] = "ok" THEN Last(Objs[RootNode]) ELSE root
  /\ buildErr' = (res[RootNode] = "err")
  /\ UNCHANGED <<buildVars, built, stop>>

----------------------------------------------------------------------------
(* The consumer's side of objects.                                          *)

\* range ch takes an object.
Receive ==
  /\ built # <<>>
  /\ built' = Tail(built)
  /\ UNCHANGED <<buildVars, closed, stop, buildErr, root>>

\* range ch ends.
Drained == closed /\ built = <<>>

\* yield returned false: cancel.
CancelBuild ==
  /\ stop' = TRUE
  /\ UNCHANGED <<buildVars, built, closed, buildErr, root>>

----------------------------------------------------------------------------
IngestInit ==
  /\ bpc = [n \in Node |-> IF n = RootNode THEN "read" ELSE "idle"]
  /\ next = [n \in Node |-> 1]
  /\ sent = [n \in Node |-> 0]
  /\ res = [n \in Node |-> "none"]
  /\ sem = {}
  /\ built = <<>> /\ closed = FALSE /\ stop = FALSE /\ buildErr = FALSE
  /\ root = NoKey

\* The steps of the goroutine that runs the build call of node n, as long as
\* nothing fails.
BuildStep(n) ==
  \/ ReadDir(n)
  \/ OpenFile(n)
  \/ n \in Dir /\ (Offload(n) \/ Inline(n) \/ Assemble(n) \/ EntryFailed(n))
  \/ Emit(n)
  \/ EmitStopped(n)

IngestTypeOK ==
  /\ bpc \in [Node -> {"idle", "read", "walk", "inline", "emit", "done"}]
  /\ next \in [Node -> Nat] /\ sent \in [Node -> Nat]
  /\ res \in [Node -> {"none", "ok", "err", "stopped"}]
  /\ sem \subseteq Node /\ Cardinality(sem) <= Jobs
  /\ built \in Seq(Key) /\ Len(built) <= BufSize
  /\ closed \in BOOLEAN /\ stop \in BOOLEAN /\ buildErr \in BOOLEAN
  /\ root \in Key \cup {NoKey}

\* Objects are emitted children before parents, whatever the pool's schedule and
\* whichever calls fail: once a directory has emitted a leaf or an index node, every
\* object of every entry that node covers has been emitted, and so, by the same
\* token, of their whole subtrees.  A directory with an entry that failed may have
\* emitted nodes over the entries before it, and no others.
ChildrenFirst ==
  \A d \in Dir : \A k \in 1..sent[d] : \A i \in 1..Upto[d][k] :
    sent[Entries[d][i]] = Len(Objs[Entries[d][i]])

----------------------------------------------------------------------------
(* The inductive invariant of the build.                                    *)

Active(n) == bpc[n] \notin {"idle", "done"}

\* A directory starts its entries in order; while one of them is being built the
\* directory is in its loop, and it waits in it for the one it builds inline.
CallTree ==
  /\ IsFiniteSet(sem) /\ \A n \in sem : Active(n)
  /\ \A n \in Node : bpc[n] \in {"walk", "inline"} => n \in Dir
  /\ \A d \in Dir : next[d] >= 1 /\ (bpc[d] \in {"idle", "read"} => next[d] = 1)
  /\ \A d \in Dir : \A i \in DOMAIN Entries[d] :
       LET c == Entries[d][i]
       IN  /\ bpc[c] = "idle" <=> i >= next[d]
           /\ Active(c) => bpc[d] \in {"walk", "inline"}
           /\ Active(c) /\ c \notin sem => bpc[d] = "inline" /\ i = next[d] - 1

\* A call that succeeded has emitted all its objects, and so have the calls for
\* the entries under the last object of a directory; a directory emits after the
\* join, and only a stopped consumer stops a call.
CallResults ==
  \A n \in Node :
    /\ bpc[n] = "done" <=> res[n] # "none"
    /\ sent[n] <= Len(Objs[n]) /\ (res[n] = "ok" => sent[n] = Len(Objs[n]))
    /\ bpc[n] = "emit" => sent[n] < Len(Objs[n])
    /\ bpc[n] \in {"idle", "read", "walk", "inline"} => sent[n] = 0
    /\ res[n] = "stopped" => stop
    /\ n \in Dir /\ bpc[n] = "emit" => \A c \in Children(n) : res[c] # "none"
    /\ n \in Dir /\ sent[n] > 0 =>
         \A i \in 1..Upto[n][sent[n]] : res[Entries[n][i]] = "ok"

\* What objects publishes when it closes its channel.
Published ==
  /\ closed => /\ bpc[RootNode] = "done"
               /\ buildErr <=> res[RootNode] = "err"
               /\ res[RootNode] = "ok" => root = Last(Objs[RootNode])
  /\ ~closed => ~buildErr

BuildInv == IngestTypeOK /\ CallTree /\ CallResults /\ Published
=============================================================================
