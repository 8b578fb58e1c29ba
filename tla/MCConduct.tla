------------------------------ MODULE MCConduct ------------------------------
(***************************************************************************)
(* What people may do: to a campaign (CampaignLifecycle), and to a contact *)
(* (Consent).  Each behaviour is one of the two (subject), and the         *)
(* variables of the other stay as they were.                               *)
(***************************************************************************)
EXTENDS MCCampaignLifecycle, Consent

CONSTANTS k1, k2

VARIABLE subject

conductVars == <<subject, vars, consentVars>>

MCWords == {k1, k2}
MCIntents ==
    {[kind |-> "FREEFORM", lane |-> "INTERACTIVE", marketing |-> FALSE],
     [kind |-> "TEMPLATE", lane |-> "CAMPAIGN", marketing |-> TRUE],
     [kind |-> "TEMPLATE", lane |-> "INTERACTIVE", marketing |-> TRUE]}
MCAccounts == {[status |-> "CONNECTED", quality |-> "GREEN"]}

ConductInit ==
    /\ Init /\ ConsentInit
    /\ subject \in {"campaign", "contact"}
    /\ link \in {Nobody} \union Primary       \* bound: who it is linked to at first
    /\ subject = "contact" \/ link = Nobody

ConductNext ==
    /\ \/ subject = "campaign" /\ Next /\ UNCHANGED consentVars
       \/ subject = "contact" /\ ConsentNext /\ UNCHANGED vars
    /\ UNCHANGED subject

ConductSpec == ConductInit /\ [][ConductNext]_conductVars

ConductTypeOK == TypeOK /\ ConsentTypeOK

ConductSymmetry == Symmetry \union Permutations(MCWords)
=============================================================================
