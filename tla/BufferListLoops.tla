--------------------------- MODULE BufferListLoops ---------------------------
(***************************************************************************)
(* The loops of BufferListReader as the code runs them, one iteration at a *)
(* time. BufferList says where each loop ends without saying how it gets   *)
(* there; here both are compared in every state the reader reaches.        *)
(***************************************************************************)
EXTENDS BufferListReader

(***************************************************************************)
(* seek: from the current buffer, forwards, then backwards. A turn of a    *)
(* loop changes nothing once the loop has ended, and no loop makes more    *)
(* turns than there are buffers.                                           *)
(***************************************************************************)

(* As a bug: the walk stops behind the last byte of a buffer.              *)
ForwardTurnPast(r) ==
  IF r.curBufferOffset > Size(CurBuffer(r))
  THEN [r EXCEPT !.curBufferOffset = @ - Size(CurBuffer(r)),
                 !.curBufferIndex = @ + 1]
  ELSE r

ForwardTurn(r) ==
  IF r.curBufferOffset >= Size(CurBuffer(r))
  THEN [r EXCEPT !.curBufferOffset = @ - Size(CurBuffer(r)),
                 !.curBufferIndex = @ + 1]
  ELSE r

WalkForward(r) ==
  LET at[turn \in 0 .. Len(r.buffers)] ==
        IF turn = 0 THEN r ELSE ForwardTurn(at[turn - 1])
  IN at[Len(r.buffers)]

BackwardTurn(r) ==
  IF r.curBufferOffset < 0
  THEN [r EXCEPT !.curBufferIndex = @ - 1,
                 !.curBufferOffset = @ + Size(r.buffers[r.curBufferIndex - 1])]
  ELSE r

WalkBackward(r) ==
  LET at[turn \in 0 .. Len(r.buffers)] ==
        IF turn = 0 THEN r ELSE BackwardTurn(at[turn - 1])
  IN at[Len(r.buffers)]

SeekLoop(r, to) ==
  WalkBackward(WalkForward(MoveTo(r, to, r.curBufferIndex,
                                  r.curBufferOffset + (to - r.offset))))

(***************************************************************************)
(* _consolidate: accumulate buffers until upto bytes are there. The result *)
(* is how many buffers are merged and how many bytes they have.            *)
(***************************************************************************)

(* As a bug: a buffer more when the bytes end with a buffer.               *)
AccumulateOneMore(r, upto, sum) ==
  LET next == r.curBufferIndex + sum.count
  IN IF next > Len(r.buffers) \/ (sum.count > 0 /\ upto < sum.bufferLength)
     THEN sum
     ELSE [count |-> sum.count + 1,
           bufferLength |-> sum.bufferLength + Size(r.buffers[next])]

AccumulateTurn(r, upto, sum) ==
  LET next == r.curBufferIndex + sum.count
  IN IF next > Len(r.buffers) \/ (sum.count > 0 /\ upto <= sum.bufferLength)
     THEN sum
     ELSE [count |-> sum.count + 1,
           bufferLength |-> sum.bufferLength + Size(r.buffers[next])]

Accumulate(r, upto) ==
  LET at[turn \in 0 .. Len(r.buffers)] ==
        IF turn = 0 THEN [count |-> 0, bufferLength |-> 0]
                    ELSE AccumulateTurn(r, upto, at[turn - 1])
  IN at[Len(r.buffers)]

(***************************************************************************)
(* readBufferList: a piece of the current buffer, then of each next one.   *)
(***************************************************************************)
FirstPiece(r, len) ==
  LET piece == Subarray(CurBuffer(r), r.curBufferOffset, r.curBufferOffset + len)
  IN [index |-> r.curBufferIndex, place |-> r.curBufferOffset + Size(piece),
      left |-> len - Size(piece), pieces |-> <<piece>>]

PieceTurn(r, taken) ==
  LET piece == Subarray(r.buffers[taken.index + 1], 0, taken.left)
  IN IF taken.left > 0
     THEN [index |-> taken.index + 1, place |-> Size(piece),
           left |-> taken.left - Size(piece), pieces |-> Append(taken.pieces, piece)]
     ELSE taken

TakePieces(r, len) ==
  LET at[turn \in 0 .. Len(r.buffers)] ==
        IF turn = 0 THEN FirstPiece(r, len) ELSE PieceTurn(r, at[turn - 1])
  IN at[Len(r.buffers)]

(* As a bug: the cursor stays behind the last byte of a buffer.            *)
MoveAndStay(r, len, taken) ==
  MoveTo(r, r.offset + len, taken.index, taken.place)

MoveBehind(r, len, taken) ==
  LET ends == taken.place = Size(r.buffers[taken.index])
  IN MoveTo(r, r.offset + len, IF ends THEN taken.index + 1 ELSE taken.index,
            IF ends THEN 0 ELSE taken.place)

(***************************************************************************)
(* The comparison                                                          *)
(***************************************************************************)

(* Wherever the cursor may be sent, walking buffer by buffer, forwards or  *)
(* backwards and over an emptied first buffer, ends in the one buffer that *)
(* holds the byte.                                                         *)
SeekWalksToTheByte ==
  ~AtEnd =>
    \A to \in 0 .. reader.length - 1 :
      to # reader.offset => SeekLoop(reader, to) = Seek(reader, to)

(* However many bytes are wanted, the accumulation of _consolidate stops   *)
(* at the first buffer that completes them: the buffers it replaces are    *)
(* the ones whose bytes the merged buffer has.                             *)
MergesWhatIsNeeded ==
  \A len \in 1 .. reader.length - reader.offset :
    LET upto == reader.curBufferOffset + len
        merged == Accumulate(reader, upto)
        after == Consolidate(reader, len)
    IN upto > Size(CurBuffer(reader)) =>
         /\ merged.count = Len(reader.buffers) - Len(after.buffers) + 1
         /\ merged.bufferLength = Size(CurBuffer(after))

(* readBufferList takes the same pieces, and leaves the same cursor, one   *)
(* buffer at a time.                                                       *)
ListReadsPieceByPiece ==
  \A len \in 1 .. reader.length - reader.offset :
    LET taken == TakePieces(reader, len)
    IN /\ taken.pieces = ReadListOut(reader, len)
       /\ MoveBehind(reader, len, taken) = ReadListBy(reader, len)
=============================================================================
