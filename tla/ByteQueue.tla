------------------------------- MODULE ByteQueue -------------------------------
(***************************************************************************)
(* What a receive ring between an interrupt handler and the program        *)
(* promises: a queue.  The handler puts bytes in while there is room, the  *)
(* program takes them out in the order they came, each one once.  A ring   *)
(* that is flushed on a line error loses all it holds and nothing else.    *)
(***************************************************************************)
EXTENDS Naturals, Sequences

CONSTANTS Byte, Capacity, Flushes

VARIABLES
    queue,      \* the bytes waiting for the program
    got         \* the byte the program took last

vars == <<queue, got>>

Init == queue = <<>> /\ got \in Byte

Put ==
    /\ Len(queue) < Capacity
    /\ \E b \in Byte : queue' = Append(queue, b)
    /\ UNCHANGED got

Get ==
    /\ queue # <<>>
    /\ got' = Head(queue)
    /\ queue' = Tail(queue)

Flush ==
    /\ Flushes
    /\ queue' = <<>>
    /\ UNCHANGED got

Next == Put \/ Get \/ Flush

Spec == Init /\ [][Next]_vars
=============================================================================
