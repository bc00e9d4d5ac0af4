---------------------------- MODULE PacketChannel ----------------------------
(***************************************************************************)
(* What a connection promises the two programs that use it, with no bytes  *)
(* in sight: the packets written at one end come out at the other, each    *)
(* once, in order, and as they were written. A packet that is not one      *)
(* stops the channel, and so does closing it.                              *)
(***************************************************************************)
EXTENDS Integers, Sequences

CONSTANTS
  Packets,  (* the packets that can be written              *)
  Valid     (* those of them a reader can make sense of     *)

VARIABLES
  sent,       (* the packets written, in order              *)
  delivered,  (* the packets received, in order             *)
  open        (* neither end has closed the connection      *)

vars == <<sent, delivered, open>>

Init ==
  /\ sent = <<>>
  /\ delivered = <<>>
  /\ open = TRUE

Send ==
  /\ \E packet \in Packets : sent' = Append(sent, packet)
  /\ UNCHANGED <<delivered, open>>

NextPacket == sent[Len(delivered) + 1]

Deliver ==
  /\ open
  /\ Len(delivered) < Len(sent)
  /\ NextPacket \in Valid
  /\ delivered' = Append(delivered, NextPacket)
  /\ UNCHANGED <<sent, open>>

Close ==
  /\ open
  /\ open' = FALSE
  /\ UNCHANGED <<sent, delivered>>

Next == Send \/ Deliver \/ Close

(* While the connection is open, what was written does not wait for ever. *)
Spec == Init /\ [][Next]_vars /\ WF_vars(Deliver)
=============================================================================
