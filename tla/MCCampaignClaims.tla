-------------------------- MODULE MCCampaignClaims --------------------------
(***************************************************************************)
(* CampaignClaims with interchangeable recipients and ticks.               *)
(***************************************************************************)
EXTENDS CampaignClaims, TLC

CONSTANTS r1, r2, t1, t2

MCRecipients == {r1, r2}
MCTicks == {t1, t2}

Symmetry == Permutations(MCRecipients) \union Permutations(MCTicks)
=============================================================================
