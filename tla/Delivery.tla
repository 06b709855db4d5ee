------------------------------- MODULE Delivery -------------------------------
(***************************************************************************)
(* What a consumer group promises its handlers, with no offsets, readers   *)
(* or generations in sight: no message is handled more than once, and once *)
(* more for each rebalance that came while a read was not finished.        *)
(***************************************************************************)
EXTENDS Naturals

CONSTANT Message

VARIABLES times,        \* how often each message was handed to a handler
          interrupted   \* the rebalances during a read

deliveryVars == <<times, interrupted>>

Init == times = [m \in Message |-> 0] /\ interrupted = 0

Handle(m) == /\ times[m] <= interrupted
             /\ times' = [times EXCEPT ![m] = @ + 1]
             /\ UNCHANGED interrupted

Interrupt == interrupted' = interrupted + 1 /\ UNCHANGED times

Next == Interrupt \/ \E m \in Message : Handle(m)

Spec == Init /\ [][Next]_deliveryVars
=============================================================================
