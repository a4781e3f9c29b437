----------------------------- MODULE LossyFifo -----------------------------
(***************************************************************************)
(* What a path for bytes promises at the least: it may lose bytes,         *)
(* anywhere on the way, but what comes out was put in, once, and in the    *)
(* order put.                                                              *)
(***************************************************************************)
EXTENDS Naturals, Sequences

VARIABLES
    put,        (* how many bytes have been put; they are numbered from 1   *)
    inside,     (* the bytes on their way, the oldest first                 *)
    out         (* the bytes that came out                                  *)

vars == <<put, inside, out>>

Init == put = 0 /\ inside = <<>> /\ out = <<>>

Put ==
    /\ put' = put + 1
    /\ inside' \in {Append(inside, put'), inside}
    /\ UNCHANGED out

(* A run of bytes that lie one behind the other. *)
Lose ==
    /\ \E i, j \in 0..Len(inside) + 1 :
          i < j /\ inside' = SubSeq(inside, 1, i) \o SubSeq(inside, j, Len(inside))
    /\ UNCHANGED <<put, out>>

Deliver ==
    /\ inside # <<>>
    /\ out' = Append(out, Head(inside))
    /\ inside' = Tail(inside)
    /\ UNCHANGED put

Next == Put \/ Lose \/ Deliver

Spec == Init /\ [][Next]_vars
=============================================================================
