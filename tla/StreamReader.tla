---------------------------- MODULE StreamReader ----------------------------
(***************************************************************************)
(* What a BufferListReader promises whoever reads it, with no buffers in   *)
(* sight: bytes arrive in order, a read returns exactly the next ones, the *)
(* cursor may be moved among those not yet released, popd brings it back   *)
(* to where the matching pushd was, and releasing never takes a byte that  *)
(* was not read. How the bytes were cut into buffers cannot be told.       *)
(***************************************************************************)
EXTENDS Integers, Sequences, SequencesExt

VARIABLES
  arrived,   (* how many bytes have arrived                          *)
  released,  (* the first byte that has not been released            *)
  pos,       (* the next byte to read                                *)
  saved,     (* the places pushd saved, the last on top              *)
  out        (* the interval of bytes the last call returned         *)

vars == <<arrived, released, pos, saved, out>>

Nothing == [lo |-> 0, hi |-> 0]

Init ==
  /\ arrived = 0 /\ released = 0 /\ pos = 0
  /\ saved = <<>>
  /\ out = Nothing

Arrive ==
  /\ arrived' \in Nat
  /\ arrived' > arrived
  /\ out' = Nothing
  /\ UNCHANGED <<released, pos, saved>>

Read(n) ==
  /\ pos' = pos + n
  /\ out' = IF n = 0 THEN Nothing ELSE [lo |-> pos, hi |-> pos + n]
  /\ UNCHANGED <<arrived, released, saved>>

Move ==
  /\ pos' \in released .. arrived
  /\ out' = Nothing
  /\ UNCHANGED <<arrived, released, saved>>

Save ==
  /\ saved' = Append(saved, pos)
  /\ out' = Nothing
  /\ UNCHANGED <<arrived, released, pos>>

Restore ==
  /\ saved # <<>>
  /\ pos' = Last(saved)
  /\ saved' = Front(saved)
  /\ out' = Nothing
  /\ UNCHANGED <<arrived, released>>

Release ==
  /\ released' \in released .. pos
  /\ out' = Nothing
  /\ UNCHANGED <<arrived, pos, saved>>

(* reset() gives up everything, read or not. *)
Forget ==
  /\ released' = arrived
  /\ pos' = arrived
  /\ saved' = <<>>
  /\ out' = Nothing
  /\ UNCHANGED arrived

Next ==
  \/ Arrive
  \/ \E n \in 0 .. arrived - pos : Read(n)
  \/ Move
  \/ Save
  \/ Restore
  \/ Release
  \/ Forget

Spec == Init /\ [][Next]_vars
=============================================================================
