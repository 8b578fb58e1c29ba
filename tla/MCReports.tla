----------------------------- MODULE MCReports -----------------------------
(***************************************************************************)
(* What comes back from the contact: receipts (DeliveryReceipts) and the   *)
(* numbers they add up to (CampaignCounters).  Each behaviour is one of    *)
(* the two (topic), and the variables of the other stay as they were.      *)
(***************************************************************************)
EXTENDS MCDeliveryReceipts, CampaignCounters

CONSTANTS v1, v2, u1, u2

VARIABLE topic

reportVars == <<topic, vars, counterVars>>

MCMovers == {v1, v2}
MCRecounts == {u1, u2}

ReportsInit ==
    /\ Init /\ CountersInit
    /\ topic \in {"receipts", "counters"}

ReportsNext ==
    /\ \/ topic = "receipts" /\ Next /\ UNCHANGED counterVars
       \/ topic = "counters" /\ CountersNext /\ UNCHANGED vars
    /\ UNCHANGED topic

ReportsSpec == ReportsInit /\ [][ReportsNext]_reportVars

ReportsTypeOK == TypeOK /\ CountersTypeOK

\* No report of progress is taken back: a message's status, a campaign's
\* funnel.
NothingGoesBack == StatusOnlyAdvances /\ FunnelNeverFalls

\* Each set is interchangeable in every definition.
ReportsSymmetry ==
    Symmetry \union Permutations(MCMovers) \union Permutations(MCRecounts)
=============================================================================
