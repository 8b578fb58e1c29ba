------------------------- MODULE MCDeliveryReceipts -------------------------
(***************************************************************************)
(* DeliveryReceipts on one message (every property is about one message):  *)
(* receipts alone, and a batch that repeats the message out of order.      *)
(***************************************************************************)
EXTENDS DeliveryReceipts

CONSTANTS m1, e1, e2, w1, w2

R(m, s) == [id |-> m, status |-> s]

MCMessages == {m1}
MCEvents == {e1, e2}
MCWorkers == {w1, w2}

MCBatches ==
    {<<R(m1, "DELIVERED")>>, <<R(m1, "FAILED")>>, <<R(m1, "PLAYED"), R(m1, "SENT")>>}

\* Workers and events are interchangeable in every definition.
Symmetry == Permutations(MCEvents) \union Permutations(MCWorkers)
=============================================================================
