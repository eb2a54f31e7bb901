----------------------------- MODULE TarRestore -----------------------------
(***************************************************************************)
(* The restore command: tarexport walks a stored tree and writes a tar to  *)
(* a pipe, tarextract reads it and materializes it in a directory.         *)
(*                                                                         *)
(* A tar is a sequence of units: headers, chunks of the member before them *)
(* and the trailer.  io.Pipe is synchronous: the exporter blocks until its *)
(* unit is read.  Paths are relative to the destination and are sequences  *)
(* of names; the destination itself is the argument as given, a sequence   *)
(* of parts in which Dot and Empty may occur ("./dest", "dest/", ".").     *)
(*                                                                         *)
(* A mode is a set of bits: "w" and "x", write and search for the owner,   *)
(* and "s", setuid.  Times are "src", the one recorded, and "now".         *)
(***************************************************************************)
EXTENDS TreeBuilder

CONSTANTS
  Dot, Empty,  \* the parts "." and "" of a path
  Faults       \* whether system calls and reads of the store may fail

VARIABLES
  euid0,    \* whether restore runs as root
  dest,     \* the DIR argument
  work,     \* the exporter's stack: entries, directories and contents to write
  pipe,     \* <<>>, or the unit being handed over
  closed,   \* the writing end: "open", "eof" or "error"
  xpc,      \* Extract: "next", "copy", "meta", "dirs" or "done"
  member,   \* the header of the file being copied
  left,     \* chunks of it still to come
  dirs,     \* headers of directories, for deferred metadata
  fs,       \* [path -> attributes] of what is below the destination
  escaped,  \* paths that ended up outside, through a symlink
  result,   \* of the command
  broken    \* history: a system call or a read of the store failed

exportVars == <<work, closed>>
extractVars == <<xpc, member, left, dirs, fs, escaped, result>>
restoreVars == <<exportVars, pipe, extractVars, euid0, dest, broken>>

----------------------------------------------------------------------------
(* The exporter.  A task is an entry to write, a directory whose entries    *)
(* are collected first, or the content of a file.                           *)

Running == closed = "open" /\ work # <<>> /\ work[1].task \notin {"end", "failed"}

At(task) == Running /\ pipe = <<>> /\ work[1].task = task

DirTask(key, path) == [task |-> "dir", keys |-> <<key>>, got |-> <<>>, path |-> path]

Header(t) ==
  [unit |-> "header", path |-> Append(t.path, t.e.name), kind |-> t.e.kind, mode |-> t.e.mode,
   owner |-> t.e.owner, xattrs |-> t.e.xattrs, data |-> t.e.data,
   size |-> IF t.e.kind = "reg" THEN t.e.content[1].length ELSE 0]

\* What follows an entry's header.
Follow(t) ==
  CASE t.e.kind = "dir" -> <<DirTask(t.e.content[1], Append(t.path, t.e.name))>>
    [] t.e.kind = "reg" -> <<[task |-> "content", key |-> t.e.content[1]]>>
    [] OTHER -> <<>>

\* entry: sockets are skipped, anything else is one member.  The test for unsafe names
\* is left out: a name that ReadDir returned is none.
ExportEntry ==
  /\ At("entry")
  /\ IF work[1].e.kind = "sock"
     THEN work' = Tail(work) /\ UNCHANGED pipe
     ELSE /\ pipe' = <<Header(work[1])>>
          /\ work' = Follow(work[1]) \o Tail(work)
  /\ UNCHANGED <<closed, extractVars, euid0, dest, broken>>

\* dir: all entries have been collected before the first is written.
ExportDir ==
  /\ At("dir") /\ work[1].keys = <<>>
  /\ work' = [i \in DOMAIN work[1].got |->
                [task |-> "entry", e |-> work[1].got[i], path |-> work[1].path]] \o Tail(work)
  /\ UNCHANGED <<closed, pipe, extractVars, euid0, dest, broken>>

\* WriteContent reads one object: a blob is written, a node is descended into.
WriteContent ==
  /\ At("content")
  /\ LET k == work[1].key
     IN IF k.type = "Blob"
        THEN /\ work' = Tail(work)
             /\ IF k.length = 0 THEN UNCHANGED pipe
                ELSE pipe' = <<[unit |-> "chunk", chunk |-> k.body]>>
        ELSE /\ work' = [i \in DOMAIN k.body |-> [task |-> "content", key |-> k.body[i]]]
                         \o Tail(work)
             /\ UNCHANGED pipe
  /\ UNCHANGED <<closed, extractVars, euid0, dest, broken>>

\* Mutants: the pipe is closed without the error, or not at all.
CloseForgetsError == closed' = "eof"

CloseForgotten == closed' = closed

CloseWithError == closed' = "error"

Abort == CloseWithError /\ work' = <<[task |-> "failed"]>>

InOrder(entries) == \A i \in 1..(Len(entries) - 1) : entries[i].name < entries[i + 1].name

\* collectEntries reads one object: the entries of a leaf must follow those before
\* them, a node is descended into.
collectEntries ==
  /\ At("dir") /\ work[1].keys # <<>>
  /\ LET k == work[1].keys[1]
         rest == Tail(work[1].keys)
         got == work[1].got \o k.body
     IN IF k.type = "DirLeaf"
        THEN IF InOrder(got)
             THEN /\ work' = [work EXCEPT ![1] = [@ EXCEPT !.keys = rest, !.got = got]]
                  /\ UNCHANGED closed
             ELSE Abort
        ELSE /\ work' = [work EXCEPT ![1].keys = [i \in DOMAIN k.body |-> k.body[i].child] \o rest]
             /\ UNCHANGED closed
  /\ UNCHANGED <<pipe, extractVars, euid0, dest, broken>>

\* A read of the store fails, and Write with it.
GetFails ==
  /\ Faults
  /\ \/ At("dir") /\ work[1].keys # <<>>
     \/ At("content")
     \/ At("entry") /\ work[1].e.xattrsKey # <<>>
  /\ Abort
  /\ broken' = TRUE
  /\ UNCHANGED <<pipe, extractVars, euid0, dest>>

\* tw.Close writes the trailer.
ExportTrailer ==
  /\ closed = "open" /\ pipe = <<>> /\ work = <<>>
  /\ pipe' = <<[unit |-> "trailer"]>> /\ work' = <<[task |-> "end"]>>
  /\ UNCHANGED <<closed, extractVars, euid0, dest, broken>>

\* CloseWithError(nil).
ExportEnds ==
  /\ closed = "open" /\ pipe = <<>> /\ work = <<[task |-> "end"]>>
  /\ closed' = "eof"
  /\ UNCHANGED <<work, pipe, extractVars, euid0, dest, broken>>

Export ==
  \/ ExportEntry \/ collectEntries \/ ExportDir \/ WriteContent
  \/ ExportTrailer \/ ExportEnds

----------------------------------------------------------------------------
(* Paths.                                                                   *)

Clean(parts) == SelectSeq(parts, LAMBDA p : p \notin {Dot, Empty})

\* safeJoin(dest, name) succeeds: Join cleans the result, and it is compared with
\* the destination as given.  Names come from a directory that was read, so that its
\* test for ".." parts and absolute names never fires and is left out.
safeJoin(path) ==
  LET target == Clean(dest \o path)
  IN target = dest \/ (IsPrefix(dest, target) /\ Len(target) > Len(dest))

Ancestors(path) == {SubSeq(path, 1, n) : n \in 1..(Len(path) - 1)}

Exists(path, kinds) == path \in DOMAIN fs /\ fs[path].kind \in kinds

\* Mutant: nothing is rejected.
rejectNothing(path) == FALSE

\* Some existing component of the path is not a directory.
rejectSymlinkComponents(path) ==
  \E p \in Ancestors(path) \cup {path} : p \in DOMAIN fs /\ fs[p].kind # "dir"

\* The kernel finds the path through directories that may be searched.
Searchable(path) == euid0 \/ \A p \in Ancestors(path) : Exists(p, {"dir"}) => "x" \in fs[p].mode

\* The kernel creates an object; its directory's mtime changes.  Below a symlink
\* the object is created where that leads.
Create(path, a) ==
  IF \E p \in Ancestors(path) : Exists(p, {"symlink"})
  THEN escaped' = escaped \cup {path} /\ UNCHANGED fs
  ELSE LET up == Front(path)
       IN /\ fs' = With([p \in DOMAIN fs |-> IF p = up THEN [fs[p] EXCEPT !.mtime = "now"]
                                             ELSE fs[p]], path, a)
          /\ UNCHANGED escaped

\* A directory without "w" takes no new objects, unless from root.
Writable(path) ==
  euid0 \/ \A p \in {Front(path)} : Exists(p, {"dir"}) => {"w", "x"} \subseteq fs[p].mode

New(kind, mode, data) ==
  [kind |-> kind, mode |-> mode, owner |-> IF euid0 THEN "root" ELSE "me", xattrs |-> "none",
   mtime |-> "now", data |-> data]

----------------------------------------------------------------------------
(* applyMeta.                                                               *)

\* The kernel clears setuid when the owner of a file changes.
chown(a, h) == IF euid0 THEN [a EXCEPT !.owner = h.owner, !.mode = @ \ {"s"}] ELSE a

chmod(a, h) == IF h.kind = "symlink" THEN a ELSE [a EXCEPT !.mode = h.mode]

\* Best effort: a file its owner may not write takes none from that owner.
setXattrs(a, h) ==
  IF h.kind # "symlink" /\ h.xattrs # "none" /\ (euid0 \/ "w" \in a.mode)
  THEN [a EXCEPT !.xattrs = h.xattrs] ELSE a

setMtime(a) == [a EXCEPT !.mtime = "src"]

\* Mutant: the owner is set after the permissions.
applyMetaChownLast(a, h) == setMtime(setXattrs(chown(chmod(a, h), h), h))

applyMeta(a, h) == setMtime(setXattrs(chmod(chown(a, h), h), h))

----------------------------------------------------------------------------
(* Extract.                                                                 *)

Got(unit) == result = "none" /\ pipe # <<>> /\ pipe[1].unit = unit

Fails ==
  /\ result' = "err" /\ xpc' = "done"
  /\ UNCHANGED <<exportVars, member, left, dirs, fs, escaped, euid0, dest>>

\* The name is not below the destination, or leads through a non-directory.
Refuse ==
  /\ xpc = "next" /\ Got("header")
  /\ ~safeJoin(pipe[1].path) \/ rejectSymlinkComponents(pipe[1].path)
  /\ Fails /\ UNCHANGED <<pipe, broken>>

Accepted(kinds) ==
  /\ xpc = "next" /\ Got("header") /\ pipe[1].kind \in kinds
  /\ safeJoin(pipe[1].path) /\ ~rejectSymlinkComponents(pipe[1].path)
  /\ pipe' = <<>>

\* Mutant: a directory's metadata is applied at once.
DeferNothing(h) ==
  /\ IF Exists(h.path, {"dir", "symlink"})
     THEN UNCHANGED <<fs, escaped>>
     ELSE Create(h.path, applyMeta(New("dir", {"w", "x"}, <<>>), h))
  /\ UNCHANGED dirs

\* MkdirAll leaves what exists alone; the metadata is deferred.
Mkdir(h) ==
  /\ IF Exists(h.path, {"dir", "symlink"})
     THEN UNCHANGED <<fs, escaped>>
     ELSE Create(h.path, New("dir", {"w", "x"}, <<>>))
  /\ dirs' = Append(dirs, h)

ExtractDir ==
  /\ Accepted({"dir"})
  /\ Exists(pipe[1].path, {"dir", "symlink"}) \/ Writable(pipe[1].path)
  /\ Mkdir(pipe[1])
  /\ UNCHANGED <<exportVars, xpc, member, left, result, euid0, dest, broken>>

\* writeRegular creates the file.
ExtractReg ==
  /\ Accepted({"reg"})
  /\ pipe[1].path \notin DOMAIN fs /\ Writable(pipe[1].path)
  /\ Create(pipe[1].path, New("reg", {"w"}, <<>>))
  /\ xpc' = "copy" /\ member' = pipe[1] /\ left' = pipe[1].size
  /\ UNCHANGED <<exportVars, dirs, result, euid0, dest, broken>>

\* io.Copy takes a chunk.
CopyChunk ==
  /\ xpc = "copy" /\ left > 0 /\ Got("chunk")
  /\ pipe' = <<>> /\ left' = left - 1
  /\ fs' = IF member.path \in DOMAIN fs
           THEN [fs EXCEPT ![member.path].data = Append(@, pipe[1].chunk)] ELSE fs
  /\ UNCHANGED <<exportVars, xpc, member, dirs, escaped, result, euid0, dest, broken>>

\* The member is complete; its metadata is applied.
FileMeta ==
  /\ xpc = "copy" /\ left = 0 /\ result = "none"
  /\ fs' = IF member.path \in DOMAIN fs
           THEN [fs EXCEPT ![member.path] = applyMeta(@, member)] ELSE fs
  /\ xpc' = "next"
  /\ UNCHANGED <<exportVars, pipe, member, left, dirs, escaped, result, euid0, dest, broken>>

\* Symlink, Mkfifo or Mknod, and the metadata.  Without privilege a device is
\* skipped.
ExtractSpecial ==
  /\ Accepted({"symlink", "fifo", "dev"})
  /\ pipe[1].path \notin DOMAIN fs /\ Writable(pipe[1].path)
  /\ IF pipe[1].kind = "dev" /\ ~euid0
     THEN UNCHANGED <<fs, escaped>>
     ELSE Create(pipe[1].path, applyMeta(New(pipe[1].kind, {}, pipe[1].data), pipe[1]))
  /\ UNCHANGED <<exportVars, xpc, member, left, dirs, result, euid0, dest, broken>>

\* The object exists already, or its directory takes no new one.
CreateFails ==
  /\ xpc = "next" /\ Got("header") /\ safeJoin(pipe[1].path)
  /\ ~rejectSymlinkComponents(pipe[1].path)
  /\ \/ ~Writable(pipe[1].path) /\ ~(pipe[1].kind = "dir" /\ Exists(pipe[1].path, {"dir"}))
     \/ pipe[1].kind # "dir" /\ pipe[1].path \in DOMAIN fs
  /\ Fails /\ UNCHANGED <<pipe, broken>>

\* Next returns io.EOF at the trailer, and at the end of the stream between two
\* members.
ExtractEOF ==
  /\ xpc = "next" /\ result = "none"
  /\ Got("trailer") \/ (pipe = <<>> /\ closed = "eof")
  /\ xpc' = "dirs" /\ pipe' = <<>>
  /\ UNCHANGED <<exportVars, member, left, dirs, fs, escaped, result, euid0, dest, broken>>

\* The pipe returns the exporter's error, or the stream ends within a member.
ReadFails ==
  /\ result = "none" /\ pipe = <<>>
  /\ xpc \in {"next", "copy"} /\ closed # "open"
  /\ closed = "eof" => xpc = "copy" /\ left > 0
  /\ Fails /\ UNCHANGED <<pipe, broken>>

DirMeta ==
  /\ xpc = "dirs" /\ dirs # <<>> /\ Searchable(dirs[1].path)
  /\ fs' = [fs EXCEPT ![dirs[1].path] = applyMeta(@, dirs[1])]
  /\ dirs' = Tail(dirs)
  /\ UNCHANGED <<exportVars, pipe, xpc, member, left, escaped, result, euid0, dest, broken>>

DirMetaFails ==
  /\ xpc = "dirs" /\ dirs # <<>> /\ ~Searchable(dirs[1].path)
  /\ Fails /\ UNCHANGED <<pipe, broken>>

ExtractReturns ==
  /\ xpc = "dirs" /\ dirs = <<>>
  /\ result' = "ok" /\ xpc' = "done"
  /\ UNCHANGED <<exportVars, pipe, member, left, dirs, fs, escaped, euid0, dest, broken>>

\* A system call fails.
CallFails ==
  /\ Faults /\ result = "none"
  /\ xpc = "next" => Got("header")
  /\ broken' = TRUE
  /\ Fails /\ UNCHANGED pipe

Extract ==
  \/ Refuse \/ ExtractDir \/ ExtractReg \/ CopyChunk \/ FileMeta \/ ExtractSpecial
  \/ CreateFails \/ ExtractEOF \/ ReadFails \/ DirMeta \/ DirMetaFails \/ ExtractReturns

RestoreInit(pre, as, d) ==
  /\ euid0 = as /\ dest = d
  /\ work = <<>> /\ pipe = <<>> /\ closed = "open"
  /\ xpc = "next" /\ member = <<>> /\ left = 0 /\ dirs = <<>>
  /\ fs = pre /\ escaped = {} /\ result = "none" /\ broken = FALSE
=============================================================================
