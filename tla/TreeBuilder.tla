---------------------------- MODULE TreeBuilder ----------------------------
(***************************************************************************)
(* Package fstree: the builders that turn the sorted entries of one        *)
(* directory, or the chunks of one file, into a content-addressed tree of  *)
(* bounded objects.                                                        *)
(*                                                                         *)
(* A key is identified with the object it is the hash of.  Names are       *)
(* numbers, so that < is the bytewise order.  Chunks have length one; the  *)
(* chunk of an empty file is NoChunk.  What BLAKE3 says of an item is a    *)
(* free choice, made when the item is first hashed and kept.  An encoding  *)
(* that fails is not modelled: every input of the builders is encodable.   *)
(***************************************************************************)
EXTENDS Naturals, Sequences, SequencesExt, FiniteSets, FiniteSetsExt, TLC

CONSTANTS
  Bits,     \* the item chunker's parameter
  Chunk, NoChunk

\* The provers know nothing of ^; TLC evaluates the second conjunct.
ASSUME BitsAssumption == Bits \in Nat /\ 2 ^ Bits \in Nat \ {0}

ASSUME ChunkAssumption == NoChunk \notin Chunk

VARIABLES
  isDir,    \* a DirBuilder, or a file's IndexBuilder alone
  leaf,     \* db.leaf; runLen is its length
  levels,   \* ib.levels: sequences of [sep, child]; runLen is the length
  call,     \* the pending call of ib.add: <<>>, or <<level, item>>
  fin,      \* the loop variable of ib.Finish, 0 before
  emitted,  \* every object given to emit, in order
  cut       \* [items hashed so far -> whether the low bits are zero]

treeVars == <<isDir, leaf, levels, call, fin, emitted, cut>>

----------------------------------------------------------------------------
(* Objects.  NoSep is the nil sepName of files and of the empty DirLeaf.    *)

NoSep == 0

\* The function f with x mapped to y.
With(f, x, y) == [z \in DOMAIN f \cup {x} |-> IF z = x THEN y ELSE f[z]]

EncodeBlob(c) == [type |-> "Blob", length |-> IF c = NoChunk THEN 0 ELSE 1, body |-> c]

TotalLength(items) ==
  LET total[n \in 0..Len(items)] == IF n = 0 THEN 0 ELSE total[n - 1] + items[n].child.length
  IN total[Len(items)]

EncodeFileNode(items) ==
  [type |-> "FileNode",
   length |-> TotalLength(items),
   body |-> [i \in DOMAIN items |-> items[i].child]]

EncodeDirLeaf(entries) == [type |-> "DirLeaf", body |-> entries]

EncodeDirNode(items) == [type |-> "DirNode", body |-> items]

\* ChildKeys; an entry's child and xattrs are absent as <<>>.
ChildKeys(k) ==
  CASE k.type \in {"Blob", "XattrSet"} -> {}
    [] k.type = "FileNode" -> ToSet(k.body)
    [] k.type = "DirNode" -> {p.child : p \in ToSet(k.body)}
    [] k.type = "DirLeaf" -> UNION {ToSet(e.content) \cup ToSet(e.xattrsKey) : e \in ToSet(k.body)}

----------------------------------------------------------------------------
(* The item chunker.                                                        *)

MinRun == LET quarter == (2 ^ Bits) \div 4 IN IF quarter > 2 THEN quarter ELSE 2

MaxRun == 4 * 2 ^ Bits

\* Mutant: the bound is taken to be inclusive.
IsBoundaryPastMax(item, runLen, b) ==
  IF runLen > MaxRun \/ runLen < MinRun
  THEN b = (runLen > MaxRun) /\ UNCHANGED cut
  ELSE /\ item \in DOMAIN cut => b = cut[item]
       /\ cut' = With(cut, item, b)

\* IsBoundary(item, runLen) = b; the hash is consulted only between the bounds.
\* With Bits = 0 the mask is empty and every hash is a hit.
IsBoundary(item, runLen, b) ==
  IF runLen >= MaxRun \/ runLen < MinRun
  THEN b = (runLen >= MaxRun) /\ UNCHANGED cut
  ELSE /\ item \in DOMAIN cut => b = cut[item]
       /\ Bits = 0 => b
       /\ cut' = With(cut, item, b)

----------------------------------------------------------------------------
(* DirBuilder and IndexBuilder.                                             *)

emit(obj) == emitted' = Append(emitted, obj)

AddChild(child, sep) == call' = <<1, [sep |-> sep, child |-> child]>>

closeLeaf(entries) ==
  LET obj == EncodeDirLeaf(entries)
  IN /\ leaf' = <<>>
     /\ emit(obj)
     /\ AddChild(obj, IF entries = <<>> THEN NoSep ELSE Last(entries).name)

AddEntry(e) ==
  /\ isDir /\ call = <<>> /\ fin = 0
  /\ \E b \in BOOLEAN :
       /\ IsBoundary(e, Len(leaf) + 1, b)
       /\ IF b THEN closeLeaf(Append(leaf, e))
          ELSE leaf' = Append(leaf, e) /\ UNCHANGED <<call, emitted>>
  /\ UNCHANGED <<isDir, levels, fin>>

\* The callback of buildFile for one chunk.
AddChunk(c) ==
  /\ ~isDir /\ call = <<>> /\ fin = 0
  /\ emit(EncodeBlob(c))
  /\ AddChild(EncodeBlob(c), NoSep)
  /\ UNCHANGED <<isDir, leaf, levels, fin, cut>>

ensure(l) == IF l > Len(levels) THEN Append(levels, <<>>) ELSE levels

\* The index object of a run, with the run's greatest name.
buildNode(run) ==
  [child |-> IF isDir THEN EncodeDirNode(run) ELSE EncodeFileNode(run), sep |-> Last(run).sep]

\* add: the item joins its level, and a boundary closes the run and makes its node
\* an item of the level above.
add ==
  /\ call # <<>>
  /\ LET l == call[1]
         item == call[2]
         run == Append(ensure(l)[l], item)
         node == buildNode(run)
     IN \E b \in BOOLEAN :
          /\ IsBoundary(item, Len(run), b)
          /\ IF b THEN /\ levels' = [ensure(l) EXCEPT ![l] = <<>>]
                       /\ emit(node.child)
                       /\ call' = <<l + 1, node>>
             ELSE /\ levels' = [ensure(l) EXCEPT ![l] = run]
                  /\ call' = <<>>
                  /\ UNCHANGED emitted
  /\ UNCHANGED <<isDir, leaf, fin>>

\* DirBuilder.Finish closes the trailing leaf, or the one of an empty directory.
FinishLeaf ==
  /\ call = <<>> /\ fin = 0
  /\ fin' = 1
  /\ IF isDir /\ (leaf # <<>> \/ levels = <<>>)
     THEN closeLeaf(leaf)
     ELSE UNCHANGED <<leaf, call, emitted>>
  /\ UNCHANGED <<isDir, levels, cut>>

AtLevel == call = <<>> /\ fin \in DOMAIN levels

\* IndexBuilder.Finish, one turn of the loop: an empty level is passed over.
FinishEmpty ==
  /\ AtLevel /\ levels[fin] = <<>>
  /\ fin' = fin + 1
  /\ UNCHANGED <<isDir, leaf, levels, call, emitted, cut>>

\* Mutant: a lone item below the top is wrapped in a node of its own.
FinishSingleWrapped ==
  /\ AtLevel /\ Len(levels[fin]) = 1 /\ fin < Len(levels)
  /\ levels' = [levels EXCEPT ![fin] = <<>>]
  /\ emit(buildNode(levels[fin]).child)
  /\ call' = <<fin + 1, buildNode(levels[fin])>>
  /\ fin' = fin + 1
  /\ UNCHANGED <<isDir, leaf, cut>>

\* A lone item below the top moves up unwrapped.
FinishSingle ==
  /\ AtLevel /\ Len(levels[fin]) = 1 /\ fin < Len(levels)
  /\ levels' = [levels EXCEPT ![fin] = <<>>]
  /\ call' = <<fin + 1, levels[fin][1]>>
  /\ fin' = fin + 1
  /\ UNCHANGED <<isDir, leaf, emitted, cut>>

\* Mutant: the node of a trailing run is not emitted.
FinishRunSilently ==
  /\ AtLevel /\ Len(levels[fin]) > 1
  /\ levels' = [levels EXCEPT ![fin] = <<>>]
  /\ call' = <<fin + 1, buildNode(levels[fin])>>
  /\ fin' = fin + 1
  /\ UNCHANGED <<isDir, leaf, emitted, cut>>

\* A longer run becomes a node of the level above.
FinishRun ==
  /\ AtLevel /\ Len(levels[fin]) > 1
  /\ levels' = [levels EXCEPT ![fin] = <<>>]
  /\ emit(buildNode(levels[fin]).child)
  /\ call' = <<fin + 1, buildNode(levels[fin])>>
  /\ fin' = fin + 1
  /\ UNCHANGED <<isDir, leaf, cut>>

\* Finish returns the lone item of the top level, the root.
Finished == AtLevel /\ fin = Len(levels) /\ Len(levels[fin]) = 1

Root == levels[fin][1].child

\* A new builder.
NewBuilder(dir) ==
  /\ isDir' = dir
  /\ leaf' = <<>> /\ levels' = <<>> /\ call' = <<>> /\ fin' = 0

BuilderStep == add \/ FinishEmpty \/ FinishSingle \/ FinishRun
=============================================================================
