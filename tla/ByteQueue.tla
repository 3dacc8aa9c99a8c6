------------------------------ MODULE ByteQueue ------------------------------
(***************************************************************************)
(* What a buffer promises its users: a queue of bytes.  Bytes come out in  *)
(* the order they went in, and only an explicit clear loses any.           *)
(***************************************************************************)
EXTENDS Naturals, Sequences

CONSTANT Byte

VARIABLE queue   \* the bytes not yet taken

Init == queue = <<>>

(* The bytes put follow those already there. *)
Put ==
  /\ queue' \in Seq(Byte)
  /\ Len(queue) <= Len(queue')
  /\ \A i \in 1..Len(queue) : queue'[i] = queue[i]

(* The oldest n bytes are taken. *)
Take ==
  \E n \in 0..Len(queue) :
    queue' = [i \in 1..(Len(queue) - n) |-> queue[n + i]]

Clear == queue' = <<>>

Next == Put \/ Take \/ Clear

Spec == Init /\ [][Next]_queue
=============================================================================
