------------------------------- MODULE Writers -------------------------------
(***************************************************************************)
(* The writers that take packets:                                          *)
(*   BufferListWriter      keeps the buffers                               *)
(*   SocketWriter          every buffer goes to the socket at once         *)
(*   DelayedSocketWriter   buffers wait for the end of the packet          *)
(*   BufferedSocketWriter  buffers wait for the outermost popContext, or   *)
(*                         for a size                                      *)
(*                                                                         *)
(* A buffer is a sequence of fields, each with its size and what it says.  *)
(***************************************************************************)
EXTENDS Integers, Sequences, SequencesExt

Field(name, size, says) == [name |-> name, size |-> size, says |-> says]

Total(fields) == FoldLeft(LAMBDA sum, field : sum + field.size, 0, fields)
Length(buffers) == Total(FlattenSeq(buffers))

SocketWriters == {"SocketWriter", "DelayedSocketWriter", "BufferedSocketWriter"}

NewWriter(class, bufferSize) ==
  [class |-> class, bufferSize |-> bufferSize, buffers |-> <<>>, length |-> 0,
   context |-> 0, socket |-> <<>>]

NewBufferListWriter == NewWriter("BufferListWriter", 0)

SendBuffers(w, buffers) == [w EXCEPT !.socket = @ \o buffers]

(* As bugs: the length is not kept; the buffers are sent when they reach   *)
(* the size, in the middle of a packet.                                    *)
AppendUncounted(w, buffers, totalLength) ==
  IF w.class = "SocketWriter"
  THEN SendBuffers(w, buffers)
  ELSE [w EXCEPT !.buffers = @ \o buffers]

AppendAndSend(w, buffers, totalLength) ==
  IF w.class = "SocketWriter"
  THEN SendBuffers(w, buffers)
  ELSE IF /\ w.class = "BufferedSocketWriter"
          /\ w.length + totalLength >= w.bufferSize
       THEN [SendBuffers(w, w.buffers \o buffers) EXCEPT !.buffers = <<>>,
                                                          !.length = 0]
       ELSE [w EXCEPT !.buffers = @ \o buffers, !.length = @ + totalLength]

AppendBuffers(w, buffers, totalLength) ==
  IF w.class = "SocketWriter"
  THEN SendBuffers(w, buffers)
  ELSE [w EXCEPT !.buffers = @ \o buffers, !.length = @ + totalLength]

(* writeByte, writeUInt16... and writeBuffer hand one buffer over. *)
WriteBuffer(w, buffer) == AppendBuffers(w, <<buffer>>, Total(buffer))

Write(w, content) == AppendBuffers(w, content.buffers, content.length)

FlushBuffer(w) ==
  [SendBuffers(w, w.buffers) EXCEPT !.buffers = <<>>, !.length = 0]

(* As a bug: contexts are closed and never opened.                         *)
PushNothing(w) == w

PushContext(w) ==
  IF w.class = "BufferedSocketWriter" THEN [w EXCEPT !.context = @ + 1] ELSE w

(* As bugs: only the size counts, or only the contexts.                    *)
PopForSize(w) == IF w.length >= w.bufferSize THEN FlushBuffer(w) ELSE w

PopForContext(w) == IF w.context = 0 THEN FlushBuffer(w) ELSE w

PopBuffered(w) ==
  IF w.context = 0 \/ w.length >= w.bufferSize THEN FlushBuffer(w) ELSE w

PopContext(w) ==
  CASE w.class = "DelayedSocketWriter" -> FlushBuffer(w)
    [] w.class = "BufferedSocketWriter" -> PopBuffered([w EXCEPT !.context = @ - 1])
    [] OTHER -> w

ResetWriter(w) ==
  IF w.class = "SocketWriter" THEN w ELSE [w EXCEPT !.buffers = <<>>, !.length = 0]

(* The getter `buffer` merges the list; SocketWriter has none. *)
MergeBuffers(w) ==
  IF Len(w.buffers) > 1 THEN [w EXCEPT !.buffers = <<FlattenSeq(@)>>] ELSE w
=============================================================================
