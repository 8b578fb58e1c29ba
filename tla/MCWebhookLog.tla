---------------------------- MODULE MCWebhookLog ----------------------------
(***************************************************************************)
(* WebhookLog with one change that carries two messages, and two jobs that *)
(* can run at once.                                                        *)
(***************************************************************************)
EXTENDS WebhookLog, TLC

CONSTANTS e1, m1, m2, w1, w2

MCCarried == [e \in Events |-> Messages]
MCSentAt == [m \in Messages |-> IF m = m1 THEN 1 ELSE 2]
MCWorkers == {w1, w2}

Symmetry == Permutations(MCWorkers)
=============================================================================
