----------------------------- MODULE BufferList -----------------------------
(***************************************************************************)
(* The data structure of class BufferListReader: a list of Buffers read as *)
(* one stream of bytes, with a cursor kept twice, as an offset from the    *)
(* first byte still held and as a place inside one buffer.                 *)
(*                                                                         *)
(* A byte is the position at which it arrived, so a Buffer is an interval  *)
(* of positions and "the right bytes" is an equality of intervals. A       *)
(* reader is a record of the private fields of the class; sequences count  *)
(* from 1, so curBufferIndex is the one of the code plus one. Each         *)
(* operator is one method, from a reader to the reader it leaves.          *)
(***************************************************************************)
EXTENDS Integers, Sequences, SequencesExt

CONSTANTS
  ReduceThreshold,  (* size, in bytes, above which reduce() copies a buffer *)
  NoLen             (* the `len` of a call that gives none                  *)

ASSUME ReduceThresholdAssumption == ReduceThreshold \in Nat
ASSUME NoLenAssumption == NoLen \notin Int

Buffer == [lo : Nat, hi : Nat]
EmptyBuffer == [lo |-> 0, hi |-> 0]
Size(buffer) == buffer.hi - buffer.lo

(* Buffer.concat of the i-th to the j-th buffer of a contiguous list. *)
Concat(buffers, i, j) == [lo |-> buffers[i].lo, hi |-> buffers[j].hi]

(* As a bug: the last of the merged buffers stays in the list.             *)
SpliceOneTooFew(buffers, i, j, buffer) ==
  SubSeq(buffers, 1, i - 1) \o <<buffer>> \o SubSeq(buffers, j, Len(buffers))

(* splice: one buffer in place of the i-th to the j-th. *)
Splice(buffers, i, j, buffer) ==
  SubSeq(buffers, 1, i - 1) \o <<buffer>> \o SubSeq(buffers, j + 1, Len(buffers))

(* The part of a buffer between two offsets, cut at the end of the buffer. *)
Subarray(buffer, start, end) ==
  [lo |-> buffer.lo + start,
   hi |-> IF buffer.lo + end < buffer.hi THEN buffer.lo + end ELSE buffer.hi]

(* A list of buffers as one interval, when its bytes follow one another.   *)
Contiguous(list) == \A i \in 1 .. Len(list) - 1 : list[i].hi = list[i + 1].lo
Torn == [lo |-> 0, hi |-> -1]
Whole(list) ==
  IF Contiguous(list) THEN [lo |-> list[1].lo, hi |-> list[Len(list)].hi] ELSE Torn

(***************************************************************************)
(* Observers                                                               *)
(***************************************************************************)
NewReader ==
  [buffers |-> <<>>, length |-> 0, offset |-> 0, curBufferIndex |-> 1,
   curBufferOffset |-> 0, timestamp |-> 0, contexts |-> <<>>]

CurBuffer(r) == r.buffers[r.curBufferIndex]

(* The cursor at another place: an offset, a buffer and a place in it. *)
MoveTo(r, offset, index, place) ==
  [r EXCEPT !.offset = offset, !.curBufferIndex = index, !.curBufferOffset = place]

(* No buffer is under the cursor: all of them were read to the last byte. *)
PastLastBuffer(r) == r.curBufferIndex > Len(r.buffers)

CheckEOF(r, step) == r.offset + step > r.length

AdjustEnd(offset, maxLen, len) ==
  CASE len = NoLen -> maxLen
    [] len # NoLen /\ len <= 0 -> offset
    [] OTHER -> IF offset + len > maxLen THEN maxLen ELSE offset + len

(* How many bytes a read of `len` takes. *)
Taken(r, len) == AdjustEnd(r.offset, r.length, len) - r.offset

(***************************************************************************)
(* Appending and releasing                                                 *)
(***************************************************************************)
AppendBuffer(r, buffer) ==
  [r EXCEPT !.buffers = Append(@, buffer), !.length = @ + Size(buffer)]

ResetReader(r) == [NewReader EXCEPT !.timestamp = r.timestamp]

(* As a bug: length loses the read bytes of the current buffer as well.    *)
DropCountingTwice(r) ==
  [r EXCEPT !.buffers = SubSeq(@, r.curBufferIndex, Len(@)),
            !.length = @ - (r.offset + r.curBufferOffset),
            !.offset = r.curBufferOffset,
            !.curBufferIndex = 1]

(* Drops the buffers before the cursor. *)
DropReadBuffers(r) ==
  [r EXCEPT !.buffers = SubSeq(@, r.curBufferIndex, Len(@)),
            !.length = @ - (r.offset - r.curBufferOffset),
            !.offset = r.curBufferOffset,
            !.curBufferIndex = 1]

(* As a bug: nothing is ever copied.                                       *)
TrimNothing(r) == r

(* Copies what is unread of the first buffer when more than half of it,    *)
(* and more than ReduceThreshold bytes, is held for nothing.               *)
TrimFirstBuffer(r) ==
  IF /\ Size(r.buffers[1]) > ReduceThreshold
     /\ r.curBufferOffset > Size(r.buffers[1]) \div 2
  THEN [r EXCEPT !.buffers[1].lo = @ + r.curBufferOffset,
                 !.length = @ - r.curBufferOffset,
                 !.offset = @ - r.curBufferOffset,
                 !.curBufferOffset = 0]
  ELSE r

ReduceReader(r) ==
  IF CheckEOF(r, 1) THEN ResetReader(r) ELSE TrimFirstBuffer(DropReadBuffers(r))

(***************************************************************************)
(* Reading in one piece                                                    *)
(***************************************************************************)

(* The buffers from the i-th that hold `upto` bytes together, or the last. *)
Reaching(buffers, i, upto) ==
  {j \in i .. Len(buffers) : Size(Concat(buffers, i, j)) >= upto}

FirstReaching(buffers, i, upto) ==
  IF Reaching(buffers, i, upto) = {} THEN Len(buffers)
                                     ELSE Min(Reaching(buffers, i, upto))

(* The last of the buffers that the next len bytes reach. *)
LastSpanned(r, len) ==
  FirstReaching(r.buffers, r.curBufferIndex, r.curBufferOffset + len)

(* The buffer _consolidate(len) returns: the current one, or the merge of  *)
(* as many as the next len bytes reach.                                    *)
Consolidated(r, len) == Concat(r.buffers, r.curBufferIndex, LastSpanned(r, len))

(* As a bug: the contexts are not told that the buffers have changed.      *)
MergeQuietly(r, len) ==
  [r EXCEPT !.offset = @ + len,
            !.curBufferOffset = @ + len,
            !.buffers = Splice(@, r.curBufferIndex, LastSpanned(r, len),
                               Consolidated(r, len))]

(* _consolidate(len), when the bytes span several buffers: they are merged *)
(* into one, and the cursor stays in it.                                   *)
ReadMerging(r, len) ==
  [r EXCEPT !.offset = @ + len,
            !.curBufferOffset = @ + len,
            !.buffers = Splice(@, r.curBufferIndex, LastSpanned(r, len),
                               Consolidated(r, len)),
            !.timestamp = @ + 1]

(* As a bug: the place is not reset when the next buffer begins.           *)
ReadOnInBuffer(r, len) ==
  MoveTo(r, r.offset + len,
         IF r.curBufferOffset + len = Size(CurBuffer(r))
         THEN r.curBufferIndex + 1 ELSE r.curBufferIndex,
         r.curBufferOffset + len)

(* ... and when they are in the current one: only such a read moves on to  *)
(* the next buffer when it ends at the end of this one.                    *)
ReadInBuffer(r, len) ==
  LET ends == r.curBufferOffset + len = Size(CurBuffer(r))
  IN MoveTo(r, r.offset + len,
            IF ends THEN r.curBufferIndex + 1 ELSE r.curBufferIndex,
            IF ends THEN 0 ELSE r.curBufferOffset + len)

Consolidate(r, len) ==
  IF r.curBufferOffset + len > Size(CurBuffer(r)) THEN ReadMerging(r, len)
                                                  ELSE ReadInBuffer(r, len)

(* What a read of len bytes through _consolidate returns. *)
ReadOut(r, len) ==
  IF len = 0 THEN EmptyBuffer
  ELSE Subarray(Consolidated(r, len), r.curBufferOffset, r.curBufferOffset + len)

ReadBy(r, len) == IF len = 0 THEN r ELSE Consolidate(r, len)

(* readArrayBuffer slices the merged buffer from its first byte. *)
ReadArrayBufferOut(r, len) == Subarray(Consolidated(r, len), 0, len)

(***************************************************************************)
(* Reading as a list                                                       *)
(***************************************************************************)
(* As a bug: every piece starts where the first one does.                  *)
ReadListSkipping(r, len) ==
  LET i == r.curBufferIndex
      upto == r.curBufferOffset + len
  IN IF len = 0 THEN <<EmptyBuffer>>
     ELSE [p \in 1 .. LastSpanned(r, len) - i + 1 |->
             Subarray(r.buffers[i + p - 1], r.curBufferOffset,
                      upto - (r.buffers[i + p - 1].lo - r.buffers[i].lo))]

ReadListOut(r, len) ==
  LET i == r.curBufferIndex
      upto == r.curBufferOffset + len
      last == LastSpanned(r, len)
      skipped(k) == r.buffers[k].lo - r.buffers[i].lo
  IN IF len = 0 THEN <<EmptyBuffer>>
     ELSE [p \in 1 .. last - i + 1 |->
             Subarray(r.buffers[i + p - 1],
                      IF p = 1 THEN r.curBufferOffset ELSE 0,
                      upto - skipped(i + p - 1))]

ReadListBy(r, len) ==
  LET i == r.curBufferIndex
      upto == r.curBufferOffset + len
      last == LastSpanned(r, len)
      within == upto - (r.buffers[last].lo - r.buffers[i].lo)
      ends == within = Size(r.buffers[last])
  IN IF len = 0 THEN r
     ELSE MoveTo(r, r.offset + len, IF ends THEN last + 1 ELSE last,
                 IF ends THEN 0 ELSE within)

(***************************************************************************)
(* Moving the cursor                                                       *)
(***************************************************************************)
SeekAccepts(r, to) == r.offset = to \/ (0 <= to /\ to < r.length)

(* seek dereferences the buffer under the cursor before it looks where to  *)
(* go: with none there it throws, its offset already moved.                *)
SeekThrows(r, to) == r.offset # to /\ SeekAccepts(r, to) /\ PastLastBuffer(r)

(* The place seek(to) walks to, counted in stream positions. *)
Target(r, to) == CurBuffer(r).lo + r.curBufferOffset + (to - r.offset)

Holding(buffers, byte) ==
  CHOOSE i \in 1 .. Len(buffers) : buffers[i].lo <= byte /\ byte < buffers[i].hi

Seek(r, to) ==
  CASE r.offset = to \/ ~SeekAccepts(r, to) -> r
    [] SeekThrows(r, to) ->
         [r EXCEPT !.offset = to, !.curBufferOffset = @ + (to - r.offset)]
    [] OTHER ->
         LET i == Holding(r.buffers, Target(r, to))
         IN MoveTo(r, to, i, Target(r, to) - r.buffers[i].lo)

GetContext(r) ==
  [timestamp |-> r.timestamp, offset |-> r.offset,
   curBufferIndex |-> r.curBufferIndex, curOffset |-> r.curBufferOffset]

(* A context that a merge made stale is found again from the nearer end. *)
NearerEnd(r, offset) ==
  IF offset < r.length \div 2
  THEN MoveTo(r, 0, 1, 0)
  ELSE MoveTo(r, r.length - 1, Len(r.buffers), Size(r.buffers[Len(r.buffers)]) - 1)

SetContext(r, context) ==
  IF context.timestamp = r.timestamp
  THEN MoveTo(r, context.offset, context.curBufferIndex, context.curOffset)
  ELSE Seek(NearerEnd(r, context.offset), context.offset)

Pushd(r) == [r EXCEPT !.contexts = Append(@, GetContext(r))]

Popd(r) ==
  SetContext([r EXCEPT !.contexts = Front(@)], Last(r.contexts))

(***************************************************************************)
(* A sound reader, after `arrived` bytes of the stream                     *)
(***************************************************************************)
Context == [timestamp : Nat, offset : Nat, curBufferIndex : Nat \ {0},
            curOffset : Nat]

Reader == [buffers : Seq(Buffer), length : Nat, offset : Nat,
           curBufferIndex : Nat \ {0}, curBufferOffset : Nat,
           timestamp : Nat, contexts : Seq(Context)]

(* The stream position of the first byte held, and of the cursor. *)
BaseOf(r, arrived) == IF r.buffers = <<>> THEN arrived ELSE r.buffers[1].lo
PositionOf(r, arrived) == BaseOf(r, arrived) + r.offset

(* The buffers are one piece of the stream, its latest; only the first may *)
(* be empty, and only before another one.                                  *)
Holds(r, arrived) ==
  /\ Contiguous(r.buffers)
  /\ \A i \in 1 .. Len(r.buffers) :
       /\ r.buffers[i].lo <= r.buffers[i].hi
       /\ i > 1 \/ i = Len(r.buffers) => r.buffers[i].lo < r.buffers[i].hi
       /\ i = Len(r.buffers) => r.buffers[i].hi = arrived
  /\ r.length = arrived - BaseOf(r, arrived)

(* The same with every pair of buffers, and every byte, in view. *)
Covers(r, arrived) ==
  /\ \A i, j \in 1 .. Len(r.buffers) : i < j => r.buffers[i].hi <= r.buffers[j].lo
  /\ \A byte \in BaseOf(r, arrived) .. arrived - 1 :
       \E i \in 1 .. Len(r.buffers) :
         r.buffers[i].lo <= byte /\ byte < r.buffers[i].hi

(* An offset and a place in a buffer that designate the same byte. *)
SamePlace(r, offset, curBufferIndex, curBufferOffset) ==
  \/ /\ curBufferIndex \in 1 .. Len(r.buffers)
     /\ curBufferOffset <= Size(r.buffers[curBufferIndex])
     /\ offset = r.buffers[curBufferIndex].lo + curBufferOffset - r.buffers[1].lo
  \/ /\ curBufferIndex = Len(r.buffers) + 1
     /\ curBufferOffset = 0
     /\ offset = r.length

CursorOf(r) == SamePlace(r, r.offset, r.curBufferIndex, r.curBufferOffset)
=============================================================================
