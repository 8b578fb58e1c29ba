------------------------ MODULE MCCampaignLifecycle ------------------------
(***************************************************************************)
(* CampaignLifecycle with interchangeable invocations.                     *)
(***************************************************************************)
EXTENDS CampaignLifecycle, TLC

CONSTANTS a1, a2

MCActors == {a1, a2}
\* Bound: how many different things go wrong in one behaviour.
FewCauses == Cardinality(cause) <= 2

Symmetry == Permutations(MCActors)
=============================================================================
