--------------------------- MODULE MCSending --------------------------------
(***************************************************************************)
(* OutboundSend on a small instance, and the three specifications that say *)
(* when it is sent: the slots of a lane, whose turn it is, Meta's          *)
(* allowance.  Each behaviour is one of the four (part), and the variables *)
(* of the others stay as they were.                                        *)
(***************************************************************************)
EXTENDS OutboundSend, SendPacing, CampaignRounds, TierLedger

VARIABLE part

otherVars == <<pacingVars, roundVars, tierVars>>
sendingVars == <<part, vars, otherVars>>

SendingInit ==
    /\ Init /\ PacingInit /\ RoundsInit /\ TierInit
    /\ part \in {"send", "pacing", "rounds", "tier"}

SendingNext ==
    /\ \/ part = "send" /\ Next /\ UNCHANGED otherVars
       \/ part = "pacing" /\ PacingNext /\ UNCHANGED <<vars, roundVars, tierVars>>
       \/ part = "rounds" /\ RoundsNext /\ UNCHANGED <<vars, pacingVars, tierVars>>
       \/ part = "tier" /\ TierNext /\ UNCHANGED <<vars, pacingVars, roundVars>>
    /\ UNCHANGED part

\* The fairness of each specification, in its own behaviours.
SendingFairness ==
    /\ \A m \in Messages : WF_vars(part = "send" /\ Age(m))
    /\ WF_vars(part = "send" /\ (SweepRead \/ SweepStep))
    /\ WF_roundVars(part = "rounds" /\ ListRunning)
    /\ WF_roundVars(part = "rounds" /\ TickNext)
    /\ WF_roundVars(part = "rounds" /\ ListForRollup)
    /\ WF_roundVars(part = "rounds" /\ RollupNext)
    /\ WF_tierVars(part = "tier" /\ TierTick)
    /\ WF_tierVars(part = "tier" /\ TierResume)
    /\ WF_tierVars(part = "tier" /\ HealthReads)
    /\ WF_tierVars(part = "tier" /\ HealthRolls)
    /\ \A u \in Audience :
         WF_tierVars(part = "tier" /\ (Accepted(u) \/ LedgerLookup(u) \/
                                       LedgerTrack(u) \/ LedgerCount(u)))

SendingSpec == SendingInit /\ [][SendingNext]_sendingVars
FairSendingSpec == SendingSpec /\ SendingFairness

SendingTypeOK == PacingTypeOK /\ RoundsTypeOK /\ TierTypeOK

\* What may be sent when: no more than a lane's rate in a second, no more
\* people in a day than Meta's allowance leaves.
AllowancesAreKept == PaceIsKept /\ ReserveIsKept

\* Every campaign has its turn with the runner and the rollup, and one that
\* waits for Meta's allowance goes on.
NobodyWaitsForEver == TurnsComeRound /\ WaitingEnds
=============================================================================
