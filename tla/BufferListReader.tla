-------------------------- MODULE BufferListReader --------------------------
(***************************************************************************)
(* One BufferListReader and the client that calls it, in any order the     *)
(* public methods allow. A call runs to its end before the next one, so a  *)
(* method is one step.                                                     *)
(*                                                                         *)
(* Two uses are legal by the README and break the reader.                  *)
(* The client makes them only when Habits names them; the runs that have   *)
(* Habits = {} show what holds for a client without these habits, and each *)
(* finding is a run with one of them.                                      *)
(***************************************************************************)
EXTENDS BufferList

CONSTANTS
  Lens,       (* the lengths the client reads by, as in readBuffer(len)      *)
  Widths,     (* how many bytes readByte, readUInt16... take                 *)
  ChunkSizes, (* sizes of the buffers appended                               *)
  MaxBytes,   (* bound on the bytes that arrive                              *)
  MaxSaved,   (* bound on the depth of pushd                                 *)
  Habits      (* which of the harmful uses the client makes                  *)

AllHabits == {"seek_at_end", "array_buffer_mid_buffer"}

ASSUME ClientAssumption ==
  /\ Lens \subseteq Int
  /\ Widths \subseteq Nat \ {0}
  /\ ChunkSizes \subseteq Nat \ {0}
  /\ MaxBytes \in Nat
  /\ MaxSaved \in Nat
  /\ Habits \subseteq AllHabits

VARIABLES
  reader,   (* the fields of the BufferListReader                            *)
  arrived,  (* ghost: how many bytes have been appended                      *)
  places,   (* ghost: the stream positions at which pushd was called         *)
  out,      (* the bytes the last call returned, a list of buffers           *)
  thrown    (* a call ended in a TypeError                                   *)

vars == <<reader, arrived, places, out, thrown>>

AtEnd == reader.offset = reader.length

NoBytes == <<EmptyBuffer>>

Base == BaseOf(reader, arrived)
Position == PositionOf(reader, arrived)

Init ==
  /\ reader = NewReader
  /\ arrived = 0
  /\ places = <<>>
  /\ out = NoBytes
  /\ thrown = FALSE

(***************************************************************************)
(* Bytes arrive                                                            *)
(***************************************************************************)
CallAppendBuffer(size) ==
  /\ arrived + size <= MaxBytes
  /\ reader' = AppendBuffer(reader, [lo |-> arrived, hi |-> arrived + size])
  /\ arrived' = arrived + size
  /\ out' = NoBytes
  /\ UNCHANGED <<places, thrown>>

(***************************************************************************)
(* Reads. Every caller in the repository asks checkEOF before it reads a   *)
(* number; the other reads cut their length at the end of the stream.      *)
(***************************************************************************)
ReadNumber(width) ==
  /\ ~CheckEOF(reader, width)
  /\ reader' = Consolidate(reader, width)
  /\ out' = <<ReadOut(reader, width)>>
  /\ UNCHANGED <<arrived, places, thrown>>

(* readBuffer, readString and slice differ in what they make of the bytes. *)
ReadBuffer(len) ==
  /\ reader' = ReadBy(reader, Taken(reader, len))
  /\ out' = <<ReadOut(reader, Taken(reader, len))>>
  /\ UNCHANGED <<arrived, places, thrown>>

ReadBufferList(len) ==
  /\ reader' = ReadListBy(reader, Taken(reader, len))
  /\ out' = ReadListOut(reader, Taken(reader, len))
  /\ UNCHANGED <<arrived, places, thrown>>

ReadArrayBuffer(len) ==
  /\ ~CheckEOF(reader, len)
  /\ reader.curBufferOffset = 0 \/ "array_buffer_mid_buffer" \in Habits
  /\ reader' = Consolidate(reader, len)
  /\ out' = <<ReadArrayBufferOut(reader, len)>>
  /\ UNCHANGED <<arrived, places, thrown>>

(***************************************************************************)
(* The cursor                                                              *)
(***************************************************************************)
CallSeek(to) ==
  /\ ~AtEnd \/ "seek_at_end" \in Habits
  /\ reader' = Seek(reader, to)
  /\ thrown' = SeekThrows(reader, to)
  /\ out' = NoBytes
  /\ UNCHANGED <<arrived, places>>

CallPushd ==
  /\ Len(places) < MaxSaved
  /\ reader' = Pushd(reader)
  /\ places' = Append(places, Position)
  /\ out' = NoBytes
  /\ UNCHANGED <<arrived, thrown>>

CallPopd ==
  /\ reader.contexts # <<>>
  /\ reader' = Popd(reader)
  /\ places' = Front(places)
  /\ out' = NoBytes
  /\ UNCHANGED <<arrived, thrown>>

(***************************************************************************)
(* Releasing. reduce moves the base of the offset and not of the saved     *)
(* contexts; like its caller in the repository, the client has none then.  *)
(***************************************************************************)
CallReduce ==
  /\ reader.contexts = <<>>
  /\ reader' = ReduceReader(reader)
  /\ out' = NoBytes
  /\ UNCHANGED <<arrived, places, thrown>>

CallReset ==
  /\ reader' = ResetReader(reader)
  /\ places' = <<>>
  /\ out' = NoBytes
  /\ UNCHANGED <<arrived, thrown>>

Next ==
  /\ ~thrown
  /\ \/ \E size \in ChunkSizes : CallAppendBuffer(size)
     \/ \E width \in Widths : ReadNumber(width)
     \/ \E len \in Lens \cup {NoLen} : ReadBuffer(len)
     \/ \E len \in Lens \cup {NoLen} : ReadBufferList(len)
     \/ \E width \in Widths : ReadArrayBuffer(width)
     \/ \E to \in -1 .. MaxBytes : CallSeek(to)
     \/ CallPushd
     \/ CallPopd
     \/ CallReduce
     \/ CallReset

Spec == Init /\ [][Next]_vars

(***************************************************************************)
(* Types and safety                                                        *)
(***************************************************************************)

(* The fields of the reader and the ghosts have their types. *)
TypeOK ==
  /\ reader \in Reader
  /\ arrived \in Nat
  /\ places \in Seq(Nat)
  /\ out \in Seq(Buffer)
  /\ thrown \in BOOLEAN

(* The buffers are one piece of the stream, its latest: appending, merging *)
(* and releasing never lose, repeat or swap bytes, and `length`, kept up   *)
(* to date by additions and subtractions, is what the buffers hold.        *)
HoldsTheStream == Holds(reader, arrived)

(* The offset and the place in a buffer, updated apart by every method,    *)
(* always designate the same byte: reading moves both by the same number   *)
(* of bytes whichever buffers the bytes are cut into.                      *)
CursorAgrees == CursorOf(reader)

(* Each saved context still designates the byte at which pushd was called, *)
(* whatever was appended, read or merged since; and the place in a buffer  *)
(* it holds is right whenever setContext will trust it.                    *)
SavedPlacesAgree ==
  /\ Len(reader.contexts) = Len(places)
  /\ \A k \in 1 .. Len(places) :
       LET context == reader.contexts[k]
       IN /\ Base + context.offset = places[k]
          /\ context.offset < reader.length \/ AtEnd
          /\ context.offset <= reader.length
          /\ context.timestamp <= reader.timestamp
          /\ context.timestamp = reader.timestamp =>
               SamePlace(reader, context.offset, context.curBufferIndex,
                         context.curOffset)

(* No merge has made a context saved at the end of the bytes stale, which  *)
(* setContext could not find again, and over it there are only contexts    *)
(* saved there.                                                            *)
SavedAtEndIsExact ==
  \A j \in 1 .. Len(reader.contexts) :
    reader.contexts[j].offset = reader.length =>
      /\ reader.contexts[j].timestamp = reader.timestamp
      /\ \A k \in j .. Len(reader.contexts) :
           reader.contexts[k].offset = reader.length

(* The inductive invariant of a client without harmful habits: the parts   *)
(* above, and that the buffers are ordered and leave no byte out, which    *)
(* says of any two of them, and of any byte, what HoldsTheStream says of   *)
(* neighbours only.                                                        *)
IInv ==
  /\ TypeOK
  /\ HoldsTheStream
  /\ Covers(reader, arrived)
  /\ CursorAgrees
  /\ SavedPlacesAgree
  /\ SavedAtEndIsExact

(* seek answers a boolean: no sequence of calls makes it, or popd, throw. *)
NeverThrows == ~thrown

(* A read returns bytes that follow one another from where the cursor was, *)
(* and leaves the cursor after them.                                       *)
ReadsTheNextBytes ==
  [][out' # NoBytes => Whole(out') = [lo |-> Position, hi |-> Position']]_vars

(* The reader implements the stream it promises: every read returns the    *)
(* next bytes in order, popd returns to the matching pushd, and only read  *)
(* bytes are released, whatever the buffers the bytes arrived in.          *)
Stream == INSTANCE StreamReader
            WITH released <- Base, pos <- Position, saved <- places,
                 out <- Whole(out)

ImplementsStream == Stream!Spec
=============================================================================
