----------------------------- MODULE PackStream -----------------------------
(***************************************************************************)
(* Package amberpack, the wire pack: a Writer frames records by a magic    *)
(* and an end marker, a Reader iterates over them and yields one error on  *)
(* a stream that is not exactly that.                                      *)
(*                                                                         *)
(* A stream is a sequence of units: the magic, a record, the end marker,   *)
(* or junk, which stands for a wrong magic or tag, a length beyond the     *)
(* limit, a CRC mismatch, an undecodable payload and a key that is not     *)
(* canonical.  Reading a unit that is cut short fails like reading past    *)
(* the end, so a truncated stream is a prefix.  A record is genuine when   *)
(* its payload hashes to its key; the Reader does not look at that.        *)
(***************************************************************************)
EXTENDS Naturals, Sequences, SequencesExt

CONSTANT Key

VARIABLES stream, pos

packVars == <<stream, pos>>

Magic == [unit |-> "magic"]
EndMark == [unit |-> "end"]
Junk == [unit |-> "junk"]
Record(o) == [unit |-> "record", obj |-> o]

Object == [key : Key, genuine : BOOLEAN]

Unit == {Magic, EndMark, Junk} \cup {Record(o) : o \in Object}

----------------------------------------------------------------------------
(* The Writer, on the bytes written so far.                                 *)

ensureHeader(w) == IF w = <<>> THEN <<Magic>> ELSE w

\* Add, and AddRecord on an encoded record.
Add(w, o) == Append(ensureHeader(w), Record(o))

Close(w) == Append(ensureHeader(w), EndMark)

Pack(objects) == Close(FoldLeft(Add, <<>>, objects))

\* What may arrive of a pack: a prefix, or the pack with one unit damaged.
Received(p) == {SubSeq(p, 1, n) : n \in 0..Len(p)}
               \cup {[p EXCEPT ![i] = Junk] : i \in DOMAIN p}

----------------------------------------------------------------------------
(* The Reader's iterator (All and Records).  One step reads one unit.       *)

AtEnd == pos > Len(stream)

ReadMagic ==
  /\ pos = 1 /\ ~AtEnd /\ stream[1] = Magic
  /\ pos' = 2
  /\ UNCHANGED stream

\* Yields o.
ReadRecord(o) ==
  /\ pos > 1 /\ ~AtEnd /\ stream[pos] = Record(o)
  /\ pos' = pos + 1
  /\ UNCHANGED stream

\* The iterator ends.
ReadEnd ==
  /\ pos > 1 /\ ~AtEnd /\ stream[pos] = EndMark
  /\ UNCHANGED packVars

\* The iterator yields its one error and ends.
StreamFails ==
  /\ ~AtEnd => stream[pos] = Junk
  /\ UNCHANGED packVars
=============================================================================
