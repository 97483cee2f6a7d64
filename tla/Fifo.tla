---------------------------------- MODULE Fifo ---------------------------------
(* What a pipe promises: bytes come out in the order they went in, none is   *)
(* lost or read twice, and no more than Capacity of them are inside.         *)
EXTENDS Integers, Sequences

CONSTANTS Bytes, Capacity

VARIABLES sent, received   \* the bytes that ever went in, and came out

fifoVars == <<sent, received>>

Init == sent = <<>> /\ received = <<>>

Put(b) ==
  /\ Len(sent) - Len(received) < Capacity
  /\ sent' = Append(sent, b)
  /\ UNCHANGED received

Take ==
  /\ Len(received) < Len(sent)
  /\ received' = Append(received, sent[Len(received) + 1])
  /\ UNCHANGED sent

Next == Take \/ \E b \in Bytes : Put(b)

Spec == Init /\ [][Next]_fifoVars
================================================================================
