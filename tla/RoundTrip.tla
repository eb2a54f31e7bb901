------------------------------ MODULE RoundTrip ------------------------------
(***************************************************************************)
(* A source tree is built into objects, as buildEntry and buildFile do     *)
(* with the builders of TreeBuilder, and the stored tree is restored, as   *)
(* TarRestore does.  The nodes are built one by one, children first;       *)
(* Ingest has the schedules of the parallel build.                         *)
(***************************************************************************)
EXTENDS TarRestore

\* Scenarios are records: src, the source as [path -> attributes], the root <<>>
\* excepted; pre, what is below the destination before; as, restore is run by
\* root; dest, the DIR argument.
CONSTANT Scenarios

Kinds == {"dir", "reg", "symlink", "fifo", "dev", "sock"}

\* A path below the root leads through directories.
IsTree(t) ==
  /\ IsFiniteSet(DOMAIN t)
  /\ \A p \in DOMAIN t :
       /\ p \in Seq(Nat \ {0}) /\ p # <<>>
       /\ Len(p) > 1 => Front(p) \in DOMAIN t /\ t[Front(p)].kind = "dir"
       /\ t[p].kind \in Kinds

\* A record of what the kernel keeps of a file.
IsAttributes(a) ==
  a = [kind |-> a.kind, mode |-> a.mode, owner |-> a.owner, xattrs |-> a.xattrs,
       mtime |-> a.mtime, data |-> a.data]

\* A directory without extended attributes, which whoever restores owns and may write.
IsOwn(a, as) ==
  /\ a.data = <<>> /\ a.xattrs = "none"
  /\ as \/ (a.owner = "me" /\ {"w", "x"} \subseteq a.mode)

ASSUME ScenarioAssumption ==
  \A sc \in Scenarios :
    /\ IsTree(sc.src) /\ IsTree(sc.pre) /\ sc.as \in BOOLEAN
    /\ \A p \in DOMAIN sc.src :
         /\ sc.src[p].kind = "reg" => sc.src[p].data \in Seq(Chunk)
         /\ sc.src[p].kind = "dir" => sc.src[p].data = <<>>
    /\ \A p \in DOMAIN sc.pre :
         IsAttributes(sc.pre[p]) /\ (sc.pre[p].kind = "dir" => IsOwn(sc.pre[p], sc.as))

VARIABLES
  scenario,
  phase,    \* "build", "built" or "restore"
  node,     \* <<>>, or the path of the node being built
  input,    \* the entries or chunks its builder still gets
  spilled,  \* the attribute set of the next entry has been emitted
  keyOf     \* [path -> root key] of the nodes built

buildVars == <<phase, node, input, spilled, keyOf>>
vars == <<scenario, buildVars, treeVars, restoreVars>>

src == scenario.src

----------------------------------------------------------------------------
(* Building the source.                                                     *)

Children(s, p) == {q \in DOMAIN s : Len(q) = Len(p) + 1 /\ IsPrefix(p, q)}

\* os.ReadDir: the paths of the entries, sorted by name.
ReadDir(s, p) ==
  LET names == {Last(q) : q \in Children(s, p)}
      nth(i) == CHOOSE n \in names : Cardinality({m \in names : m <= n}) = i
  IN [i \in 1..Cardinality(names) |-> Append(p, nth(i))]

XattrSet == [type |-> "XattrSet", body |-> <<>>]

HasContent(a) == a.kind \in {"dir", "reg"}

\* The attributes of a symlink are not read.
Xattrs(a) == IF a.kind = "symlink" THEN "none" ELSE a.xattrs

\* buildEntry: attributes too long to be inlined are an object of their own.
Entry(s, keys, p) ==
  [name |-> Last(p), kind |-> s[p].kind, mode |-> s[p].mode, owner |-> s[p].owner,
   xattrs |-> Xattrs(s[p]), data |-> IF s[p].kind = "reg" THEN <<>> ELSE s[p].data,
   content |-> IF HasContent(s[p]) THEN <<keys[p]>> ELSE <<>>,
   xattrsKey |-> IF Xattrs(s[p]) = "long" THEN <<XattrSet>> ELSE <<>>]

IsDirectory(s, p) == p = <<>> \/ s[p].kind = "dir"

\* What a node's builder gets: the entries of a directory, the chunks of a file.
Input(s, keys, p) ==
  IF IsDirectory(s, p)
  THEN [i \in DOMAIN ReadDir(s, p) |-> Entry(s, keys, ReadDir(s, p)[i])]
  ELSE IF s[p].data = <<>> THEN <<NoChunk>> ELSE s[p].data

\* The nodes that have a builder.
Built(s) == {<<>>} \cup {p \in DOMAIN s : HasContent(s[p])}

Building == phase = "build" /\ UNCHANGED <<scenario, restoreVars>>

\* buildDir or buildFile gets to a node's own builder once the nodes below it are
\* built.
StartNode(p) ==
  /\ Building /\ node = <<>>
  /\ p \in Built(src) \ DOMAIN keyOf
  /\ Children(src, p) \cap Built(src) \subseteq DOMAIN keyOf
  /\ node' = <<p>> /\ input' = Input(src, keyOf, p)
  /\ NewBuilder(IsDirectory(src, p))
  /\ UNCHANGED <<phase, spilled, keyOf, emitted, cut>>

AtNode == Building /\ node # <<>>

\* buildEntry emits the attribute set.
SpillXattrs ==
  /\ AtNode /\ call = <<>> /\ isDir /\ input # <<>>
  /\ input[1].xattrsKey # <<>> /\ ~spilled
  /\ emit(input[1].xattrsKey[1])
  /\ spilled' = TRUE
  /\ UNCHANGED <<phase, node, input, keyOf, isDir, leaf, levels, call, fin, cut>>

Feed ==
  /\ AtNode /\ input # <<>>
  /\ \/ /\ isDir
        /\ input[1].xattrsKey # <<>> => spilled
        /\ AddEntry(input[1])
     \/ AddChunk(input[1])
  /\ input' = Tail(input) /\ spilled' = FALSE
  /\ UNCHANGED <<phase, node, keyOf>>

FinishNode == AtNode /\ input = <<>> /\ FinishLeaf /\ UNCHANGED buildVars

BuildStep == AtNode /\ BuilderStep /\ UNCHANGED buildVars

\* Finish returned the node's key.
NodeBuilt ==
  /\ AtNode /\ Finished
  /\ keyOf' = With(keyOf, node[1], Root)
  /\ node' = <<>>
  /\ phase' = IF node[1] = <<>> THEN "built" ELSE phase
  /\ NewBuilder(TRUE)
  /\ UNCHANGED <<input, spilled, emitted, cut>>

----------------------------------------------------------------------------
\* The command starts; what only the build needs is forgotten.
StartRestore ==
  /\ phase = "built"
  /\ phase' = "restore"
  /\ work' = <<DirTask(keyOf[<<>>], <<>>)>>
  /\ emitted' = <<>> /\ cut' = <<>> /\ keyOf' = <<>>
  /\ UNCHANGED <<scenario, node, input, spilled, isDir, leaf, levels, call, fin, pipe, closed,
                 extractVars, euid0, dest, broken>>

Restore(A) == phase = "restore" /\ A /\ UNCHANGED <<scenario, buildVars, treeVars>>

Done == result # "none" /\ UNCHANGED vars

Init ==
  /\ scenario \in Scenarios
  /\ phase = "build" /\ node = <<>> /\ input = <<>> /\ spilled = FALSE /\ keyOf = <<>>
  /\ isDir = TRUE /\ leaf = <<>> /\ levels = <<>> /\ call = <<>> /\ fin = 0
  /\ emitted = <<>> /\ cut = <<>>
  /\ RestoreInit(scenario.pre, scenario.as, scenario.dest)

Build ==
  \/ \E p \in Built(src) : StartNode(p)
  \/ SpillXattrs \/ Feed \/ FinishNode \/ BuildStep \/ NodeBuilt \/ StartRestore

Next ==
  \/ Build
  \/ Restore(Export)
  \/ Restore(GetFails)
  \/ Restore(Extract)
  \/ Restore(CallFails)
  \/ Done

Spec == Init /\ [][Next]_vars

\* Every goroutine that can run is scheduled.
FairSpec ==
  /\ Spec
  /\ WF_vars(Build) /\ WF_vars(Restore(Export)) /\ WF_vars(Restore(Extract))

----------------------------------------------------------------------------
(* Properties.                                                              *)

\* The builders never hold a run of MaxRun items: one that long has been closed,
\* at every level; the other variables keep their types.
TypeOK ==
  /\ phase \in {"build", "built", "restore"}
  /\ isDir \in BOOLEAN /\ Len(leaf) < MaxRun
  /\ \A l \in DOMAIN levels : Len(levels[l]) < MaxRun
  /\ fin \in 0..(Len(levels) + 1)
  /\ Len(pipe) <= 1 /\ closed \in {"open", "eof", "error"}
  /\ xpc \in {"next", "copy", "dirs", "done"} /\ left \in Nat
  /\ result \in {"none", "ok", "err"} /\ broken \in BOOLEAN /\ escaped \subseteq DOMAIN src

\* Objects are emitted children before parents, so that a store that loses its
\* tail at any moment holds no object with a missing child; the root of a node
\* is the last object of its build.
EmittedClosed ==
  /\ \A i \in DOMAIN emitted : ChildKeys(emitted[i]) \subseteq {emitted[j] : j \in 1..(i - 1)}
  /\ phase = "build" /\ Finished => Root = Last(emitted)

\* Every run respects the bounds: an index node has at least two children, as
\* Finish promises, and nothing exceeds MaxRun, wherever the cut points fall.
NoDegenerateNode ==
  \A o \in ToSet(emitted) :
    /\ o.type \in {"FileNode", "DirNode"} => Len(o.body) \in 2..MaxRun
    /\ o.type = "DirLeaf" => Len(o.body) <= MaxRun

\* What restore is expected to make of a node.
Restored(a) ==
  [kind |-> a.kind, mode |-> IF a.kind = "symlink" THEN {} ELSE a.mode,
   owner |-> IF euid0 THEN a.owner ELSE "me",
   xattrs |-> IF euid0 \/ "w" \in a.mode THEN Xattrs(a) ELSE "none", mtime |-> "src",
   data |-> a.data]

Restorable(p) == src[p].kind \notin {"sock"} \cup IF euid0 THEN {} ELSE {"dev"}

\* A restore that reports success has recreated the tree: content, permissions
\* with setuid, owners if run by root, and mtimes, of directories too, although
\* every child created in them changed theirs; all that was in the destination
\* before and is not a directory of the tree is as it was.
RestoreExact ==
  result = "ok" =>
    /\ \A p \in DOMAIN src : Restorable(p) => p \in DOMAIN fs /\ fs[p] = Restored(src[p])
    /\ \A p \in DOMAIN fs : p \notin DOMAIN src \/ ~Restorable(p) =>
         p \in DOMAIN scenario.pre /\ fs[p] = scenario.pre[p]

\* An error of the exporter reaches the user: a truncated archive is never
\* restored as if it were whole, although tar.Reader takes a stream that stops
\* between two members for a complete one.
ExportErrorSurfaces == phase = "restore" /\ work = <<[task |-> "failed"]>> => result # "ok"

\* Nothing is written outside the destination or over what it had before, although
\* a name in it may be a symlink to a directory elsewhere.
DestinationRespected ==
  /\ escaped = {}
  /\ \A p \in DOMAIN scenario.pre : p \in DOMAIN fs /\
       (scenario.pre[p].kind # "dir" => fs[p] = scenario.pre[p])

\* A node of the tree meets something else at its path in the destination.
Conflict ==
  \E p \in DOMAIN src \cap DOMAIN scenario.pre :
    src[p].kind # "sock" /\ {src[p].kind, scenario.pre[p].kind} # {"dir"}

\* A directory that even its owner may not search hides its subdirectories from the
\* pass that applies their metadata.
Unsearchable ==
  ~euid0 /\ \E p \in DOMAIN src : src[p].kind = "dir" /\ "x" \notin src[p].mode

\* Restore fails only for a reason: an error of the system or the store, something
\* in the way at the destination, or a directory that cannot be searched.  A
\* read-only directory is no reason.
NoSpuriousFailure == result = "err" => broken \/ Conflict \/ Unsearchable

\* The command returns: neither end of the pipe waits for ever for the other.
RestoreEnds == <>(result # "none")
=============================================================================
