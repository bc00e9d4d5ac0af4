------------------------------- MODULE Readers -------------------------------
(***************************************************************************)
(* The interface Reader, which the header and the packets are read         *)
(* through, and the two classes behind it: BufferListReader, as in         *)
(* BufferList, and BufferReader, one buffer and an offset. As there, of a  *)
(* read ...Out is what it returns and ...By the reader it leaves.          *)
(*                                                                         *)
(* Of BufferReader what the packets call is here, and they always give a   *)
(* length; pushd, popd and reset are called by nothing.                    *)
(***************************************************************************)
EXTENDS BufferList

NewBufferReader(buffer, offset) == [buffer |-> buffer, offset |-> offset]

NewBufferListReader(buffers, offset) ==
  LET length == FoldLeft(LAMBDA sum, buffer : sum + Size(buffer), 0, buffers)
  IN Seek([NewReader EXCEPT !.buffers = buffers, !.length = length], offset)

AnyReader == Reader \cup [buffer : Buffer, offset : Nat]

IsList(r) == "buffers" \in DOMAIN r

LengthOf(r) == IF IsList(r) THEN r.length ELSE Size(r.buffer)

(* checkEOF *)
AtEOF(r, step) == r.offset + step > LengthOf(r)

(* readByte, readUInt16, readUInt32, readDouble *)
NumberOut(r, len) ==
  IF IsList(r) THEN ReadOut(r, len)
               ELSE Subarray(r.buffer, r.offset, r.offset + len)

NumberBy(r, len) ==
  IF IsList(r) THEN Consolidate(r, len) ELSE [r EXCEPT !.offset = @ + len]

(* readString and readBuffer: no more than there is. *)
Available(r, len) == AdjustEnd(r.offset, LengthOf(r), len) - r.offset

BytesOut(r, len) == NumberOut(r, Available(r, len))

BytesBy(r, len) ==
  IF IsList(r) THEN ReadBy(r, Available(r, len))
               ELSE [r EXCEPT !.offset = @ + Available(r, len)]

(* readArrayBuffer *)
ArrayBufferOut(r, len) ==
  IF IsList(r) THEN ReadArrayBufferOut(r, len) ELSE BytesOut(r, len)

ArrayBufferBy(r, len) == IF IsList(r) THEN Consolidate(r, len) ELSE BytesBy(r, len)

(* seek: BufferReader refuses the end of the buffer even when it is there. *)
SeekTo(r, to) ==
  IF IsList(r) THEN Seek(r, to)
  ELSE IF 0 <= to /\ to < Size(r.buffer) THEN [r EXCEPT !.offset = to] ELSE r

SkipBy(r, step) == SeekTo(r, r.offset + step)
=============================================================================
