---------------------------- MODULE PacketDecoder ----------------------------
(***************************************************************************)
(* IpcPacketSocketDecoder at the receiving end of a socket: a program at   *)
(* the other end writes packets, TCP carries their bytes and cuts them     *)
(* into chunks as it likes, and handleData finds the packets again.        *)
(*                                                                         *)
(* handleData runs to its end before the next chunk, but it calls the      *)
(* listeners of 'packet', 'error' and 'packet[]' on its way, and one that  *)
(* throws ends it there. A step of this module runs from one such call to  *)
(* the next.                                                               *)
(***************************************************************************)
EXTENDS PacketHeader

CONSTANTS
  Packets,          (* what can be sent, as records of type, contentSize    *)
  MaxPackets,       (* bound on the packets sent                            *)
  ChunkSizes,       (* sizes of the chunks TCP delivers                     *)
  ListenersThrow    (* whether listeners may throw; emit('error') also does *)
                    (* when it has no listener                              *)

ASSUME DecoderAssumption ==
  /\ Packets \subseteq [type : ValidTypes \cup {Foreign}, contentSize : Nat]
  /\ MaxPackets \in Nat
  /\ ChunkSizes \subseteq Nat \ {0}
  /\ ListenersThrow \in BOOLEAN

VARIABLES
  sent,       (* the packets written, each with the position it starts at   *)
  arrived,    (* how many of their bytes handleData was given               *)
  open,       (* the socket has not emitted 'close'                         *)
  pc,         (* where handleData is: "idle", "decode", "check" or "batch"  *)
  reader,     (* _bufferListReader                                          *)
  packet,     (* the raw header of _packet                                  *)
  packets,    (* the local list of the packets of this chunk                *)
  delivered,  (* the packets 'packet' was emitted with                      *)
  batched,    (* the packets 'packet[]' was emitted with, one after another *)
  failed,     (* 'error' was emitted during this call of handleData         *)
  cutShort,   (* a listener of 'packet' threw during this call              *)
  threw       (* ghost: some listener has thrown in some call               *)

vars == <<sent, arrived, open, pc, reader, packet, packets, delivered, batched,
          failed, cutShort, threw>>

sender == sent
network == <<arrived, open>>
decoder == <<pc, reader, packet, packets>>
observed == <<delivered, batched, failed, cutShort, threw>>

Written == IF sent = <<>> THEN 0 ELSE EndOf(Last(sent))

Init ==
  /\ sent = <<>>
  /\ arrived = 0
  /\ open = TRUE
  /\ pc = "idle"
  /\ reader = NewReader
  /\ packet = InvalidRawHeader
  /\ packets = <<>>
  /\ delivered = <<>>
  /\ batched = <<>>
  /\ failed = FALSE
  /\ cutShort = FALSE
  /\ threw = FALSE

(***************************************************************************)
(* The other end, and the network                                          *)
(***************************************************************************)
Send(p) ==
  /\ Len(sent) < MaxPackets
  /\ sent' = Append(sent, [type |-> p.type, contentSize |-> p.contentSize,
                           start |-> Written])
  /\ UNCHANGED <<network, decoder, observed>>

Close ==
  /\ open
  /\ pc = "idle"
  /\ open' = FALSE
  /\ UNCHANGED <<sender, arrived, decoder, observed>>

(***************************************************************************)
(* handleData                                                              *)
(***************************************************************************)

(* The 'data' event: a chunk arrives and is appended. *)
HandleData(size) ==
  /\ open
  /\ pc = "idle"
  /\ arrived + size <= Written
  /\ arrived' = arrived + size
  /\ reader' = AppendBuffer(reader, [lo |-> arrived, hi |-> arrived + size])
  /\ packets' = <<>>
  /\ failed' = FALSE
  /\ cutShort' = FALSE
  /\ pc' = "decode"
  /\ UNCHANGED <<sender, open, packet, delivered, batched, threw>>

(* As a bug: the packet is taken from behind its header.                   *)
NotRewound(read) == read.reader

(* decodeFromReader reads the header, comes back to where it began, and    *)
(* says what packet it then takes out of the stream as a list of buffers.  *)
Rewound(read) == SetContext(read.reader, GetContext(reader))

ReceivedAs(header, buffers) ==
  [type |-> header.type, contentSize |-> header.contentSize,
   bytes |-> Whole(buffers)]

(* A whole packet is there: it is taken, remembered for 'packet[]' and     *)
(* given to the listeners of 'packet', who may throw.                      *)
DecodePacket ==
  /\ pc = "decode"
  /\ \E read \in {ReadHeader(reader, sent)} :
       /\ read.header.contentSize >= 0
       /\ \E back \in {Rewound(read)} :
            LET size == PacketSize(read.header)
                received == ReceivedAs(read.header, ReadListOut(back, Taken(back, size)))
            IN /\ reader' = ReadListBy(back, Taken(back, size))
               /\ packets' = Append(packets, received)
               /\ delivered' = Append(delivered, received)
  /\ packet' = InvalidRawHeader
  /\ \/ UNCHANGED <<pc, cutShort, threw>>
     \/ /\ ListenersThrow
        /\ pc' = "idle"
        /\ cutShort' = TRUE
        /\ threw' = TRUE
  /\ UNCHANGED <<sender, network, batched, failed>>

(* No whole packet is there: the loop ends. *)
DecodeNothing ==
  /\ pc = "decode"
  /\ \E read \in {ReadHeader(reader, sent)} :
       /\ read.header.contentSize < 0
       /\ reader' = Rewound(read)
       /\ packet' = read.header
  /\ pc' = "check"
  /\ UNCHANGED <<sender, network, packets, observed>>

(* As a bug: a header that is not valid ends the call.                     *)
CheckHeaderAndReturn ==
  /\ pc = "check"
  /\ failed' = IsNotValid(packet)
  /\ pc' = IF IsNotValid(packet) THEN "idle" ELSE "batch"
  /\ UNCHANGED <<sender, network, reader, packet, packets, delivered, batched,
                 cutShort, threw>>

CheckHeader ==
  /\ pc = "check"
  /\ failed' = IsNotValid(packet)
  /\ \/ /\ pc' = "batch"
        /\ UNCHANGED threw
     \/ /\ IsNotValid(packet)
        /\ ListenersThrow
        /\ pc' = "idle"
        /\ threw' = TRUE
  /\ UNCHANGED <<sender, network, reader, packet, packets, delivered, batched,
                 cutShort>>

EmitPackets ==
  /\ pc = "batch"
  /\ packets # <<>>
  /\ batched' = batched \o packets
  /\ pc' = "idle"
  /\ \/ /\ reader' = ReduceReader(reader)
        /\ UNCHANGED threw
     \/ /\ ListenersThrow
        /\ threw' = TRUE
        /\ UNCHANGED reader
  /\ packets' = <<>>
  /\ UNCHANGED <<sender, network, packet, delivered, failed, cutShort>>

NoPackets ==
  /\ pc = "batch"
  /\ packets = <<>>
  /\ pc' = "idle"
  /\ UNCHANGED <<sender, network, reader, packet, packets, observed>>

Decode ==
  \/ \E size \in ChunkSizes : HandleData(size)
  \/ DecodePacket
  \/ DecodeNothing
  \/ CheckHeader
  \/ EmitPackets
  \/ NoPackets

Next == (\E p \in Packets : Send(p)) \/ Close \/ Decode

(* TCP delivers what was written while the socket is open, and a call of   *)
(* handleData runs to its end; nobody has to send, or to close.            *)
Spec == Init /\ [][Next]_vars /\ WF_vars(Decode)

(***************************************************************************)
(* Types and safety                                                        *)
(***************************************************************************)
Bytes == [lo : Nat, hi : Int]
Received == [type : ValidTypes, contentSize : Nat, bytes : Bytes]

(* Every variable has its type. *)
TypeOK ==
  /\ sent \in Seq([type : ValidTypes \cup {Foreign}, contentSize : Nat,
                   start : Nat])
  /\ arrived \in Nat
  /\ open \in BOOLEAN
  /\ pc \in {"idle", "decode", "check", "batch"}
  /\ reader.buffers \in Seq(Buffer)
  /\ packet = InvalidRawHeader
  /\ packets \in Seq(Received)
  /\ delivered \in Seq(Received)
  /\ batched \in Seq(Received)
  /\ failed \in BOOLEAN
  /\ cutShort \in BOOLEAN
  /\ threw \in BOOLEAN

(* The packets that have arrived to their last byte, up to the first one   *)
(* whose header is foreign: no packet after it can be found.               *)
Readable(k) ==
  /\ EndOf(sent[k]) <= arrived
  /\ \A j \in 1 .. k : sent[j].type \in ValidTypes

(* 'packet' is emitted with the packets sent, each once and in order, with *)
(* their types, sizes and exactly their bytes, however TCP cut them; and a *)
(* throwing listener never makes the next call skip or repeat one.         *)
DeliversWhatWasSent ==
  /\ Len(delivered) <= Len(sent)
  /\ \A k \in 1 .. Len(delivered) :
       /\ delivered[k].type = sent[k].type
       /\ delivered[k].bytes = [lo |-> sent[k].start, hi |-> EndOf(sent[k])]

(* handleData leaves no packet for later: when it has returned, every      *)
(* packet whose last byte has arrived was delivered, those a throwing      *)
(* listener made an earlier call leave behind included.                    *)
DeliversAtOnce ==
  pc = "idle" /\ ~cutShort =>
    \A k \in 1 .. Len(sent) : Readable(k) => k <= Len(delivered)

(* 'packet[]' brings the same packets as 'packet', in the same order, to   *)
(* a program whose listeners have not thrown.                              *)
BatchesWhatWasDelivered ==
  pc = "idle" /\ ~threw => batched = delivered

(* What the reader holds without needing it stays in proportion: no more   *)
(* than ReduceThreshold bytes, or than half of what it holds. Merging for  *)
(* the header and taking packets out as slices never pile up dead bytes.   *)
DeadBytesAreBounded ==
  pc = "idle" /\ ~threw =>
    \/ reader.offset <= ReduceThreshold
    \/ 2 * reader.offset <= reader.length

(* 'Get invalid packet header' is said of an invalid header only: of the   *)
(* bytes at which the decoder stands when it says so.                      *)
ErrorMeansInvalidHeader ==
  failed => \E k \in 1 .. Len(sent) : sent[k].type = Foreign

(***************************************************************************)
(* The channel that the decoder and the stream implement                   *)
(***************************************************************************)
Content(p) == [type |-> p.type, contentSize |-> p.contentSize]

Channel ==
  INSTANCE PacketChannel
    WITH Valid <- {p \in Packets : p.type # Foreign},
         sent <- [k \in 1 .. Len(sent) |-> Content(sent[k])],
         delivered <- [k \in 1 .. Len(delivered) |-> Content(delivered[k])]

(* The bytes, the chunks, the headers and the buffers implement a channel  *)
(* of packets: in order, each once, and each sooner or later.              *)
ImplementsChannel == Channel!Spec
=============================================================================
