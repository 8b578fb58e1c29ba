--------------------------- MODULE CampaignRounds ---------------------------
(***************************************************************************)
(* Whose turn it is: the runner and the rollup both list campaigns by      *)
(* lastRunTickAt, oldest first, and work through the head of the list.     *)
(* Only a tick that queued a batch, found its allowance spent or completed *)
(* the campaign writes lastRunTickAt.  rotation is that order.             *)
(***************************************************************************)
EXTENDS Naturals, FiniteSets, Sequences, SequencesExt

CONSTANTS
    Campaigns,
    PerTick,    \* MAX_CAMPAIGNS_PER_TICK
    RollupPage, \* the page of the rollup
    MaxSteers   \* bound: times a campaign is paused, resumed or begins to fail

ASSUME CampaignRoundsAssumption ==
    /\ IsFiniteSet(Campaigns)
    /\ {PerTick, RollupPage} \subseteq Nat \ {0}
    /\ MaxSteers \in Nat

VARIABLES
    standingOf,  \* status of each campaign
    rotation,    \* the campaigns by lastRunTickAt
    jammed,      \* campaigns whose ticks throw, or wait for claims
    round,       \* what is left of the runner's list
    rollupList,  \* what is left of the rollup's list
    steers,
    hinted,      \* campaigns with a note that they changed
    lastServed   \* history: the campaign served last

roundVars == <<standingOf, rotation, jammed, round, rollupList, steers,
               hinted, lastServed>>

RoundStatus == {"DRAFT", "RUNNING", "PAUSED", "COMPLETED"}
Running == {c \in Campaigns : standingOf[c] = "RUNNING"}
Completed == {c \in Campaigns : standingOf[c] = "COMPLETED"}

\* Mutant: newest first.
PageNewest(members, limit) ==
    LET listed == {i \in DOMAIN rotation : rotation[i] \in members}
        place(k) == CHOOSE i \in listed : Cardinality({j \in listed : j >= i}) = k
    IN [k \in 1..(IF limit < Cardinality(listed) THEN limit ELSE Cardinality(listed)) |->
          rotation[place(k)]]

\* listCampaignsByStatus: AscNullsFirst, with a limit.
Page(members, limit) ==
    LET listed == {i \in DOMAIN rotation : rotation[i] \in members}
        place(k) == CHOOSE i \in listed : Cardinality({j \in listed : j <= i}) = k
    IN [k \in 1..(IF limit < Cardinality(listed) THEN limit ELSE Cardinality(listed)) |->
          rotation[place(k)]]

ListRunning ==
    /\ round = <<>> /\ Running # {}
    /\ round' = Page(Running, PerTick)
    /\ UNCHANGED <<standingOf, rotation, jammed, rollupList, steers, hinted, lastServed>>

\* Mutant: it keeps its old place as well.
ServedAgain(c) == Append(rotation, c)

\* lastRunTickAt is now: it goes to the end.
Served(c) ==
    Append(RemoveAt(rotation, CHOOSE i \in DOMAIN rotation : rotation[i] = c), c)

\* The campaign is read again, then ticked: a guard pauses it, or the tick
\* throws or waits, or it is served.
TickNext ==
    /\ round # <<>>
    /\ round' = Tail(round)
    /\ LET c == Head(round) IN
       \/ /\ c \notin Running \ jammed
          /\ UNCHANGED <<standingOf, rotation, hinted, lastServed>>
       \/ /\ c \in Running \ jammed
          /\ standingOf' = [standingOf EXCEPT ![c] = "PAUSED"]
          /\ UNCHANGED <<rotation, hinted, lastServed>>
       \/ /\ c \in Running \ jammed
          /\ \E to \in {"RUNNING", "COMPLETED"} :
                standingOf' = [standingOf EXCEPT ![c] = to]
          /\ rotation' = Served(c)
          /\ hinted' = hinted \union {c}
          /\ lastServed' = c
    /\ UNCHANGED <<jammed, rollupList, steers>>

Launch(c) ==
    /\ standingOf[c] = "DRAFT"
    /\ standingOf' = [standingOf EXCEPT ![c] = "RUNNING"]
    /\ UNCHANGED <<rotation, jammed, round, rollupList, steers, hinted, lastServed>>

\* Paused or resumed by an admin.
Steer(c) ==
    /\ steers < MaxSteers /\ steers' = steers + 1
    /\ \E to \in {"RUNNING", "PAUSED"} \ {standingOf[c]} :
         /\ standingOf[c] \in {"RUNNING", "PAUSED"}
         /\ standingOf' = [standingOf EXCEPT ![c] = to]
    /\ UNCHANGED <<rotation, jammed, round, rollupList, hinted, lastServed>>

\* From now on its ticks fail.
Jam(c) ==
    /\ steers < MaxSteers /\ steers' = steers + 1
    /\ jammed' = jammed \union {c}
    /\ UNCHANGED <<standingOf, rotation, round, rollupList, hinted, lastServed>>

\* rollup: every campaign that can still change, or has completed.
ListForRollup ==
    /\ rollupList = <<>>
    /\ rollupList' = Page({c \in Campaigns : standingOf[c] # "DRAFT"}, RollupPage)
    /\ UNCHANGED <<standingOf, rotation, jammed, round, steers, hinted, lastServed>>

RollupNext ==
    /\ rollupList # <<>>
    /\ rollupList' = Tail(rollupList)
    /\ hinted' = hinted \ {Head(rollupList)}
    /\ UNCHANGED <<standingOf, rotation, jammed, round, steers, lastServed>>

RoundsInit ==
    /\ standingOf = [c \in Campaigns |-> "DRAFT"]
    /\ rotation = SetToSeq(Campaigns)  \* the first order is arbitrary
    /\ jammed = {} /\ round = <<>> /\ rollupList = <<>> /\ hinted = {}
    /\ steers = 0
    /\ lastServed = Head(rotation)

RoundsNext ==
    \/ ListRunning \/ TickNext \/ ListForRollup \/ RollupNext
    \/ \E c \in Campaigns : Launch(c) \/ Steer(c) \/ Jam(c)

\* Both are crons, every minute.
RoundsFairness ==
    /\ WF_roundVars(ListRunning) /\ WF_roundVars(TickNext)
    /\ WF_roundVars(ListForRollup) /\ WF_roundVars(RollupNext)

RoundsSpec == RoundsInit /\ [][RoundsNext]_roundVars /\ RoundsFairness

RoundsTypeOK ==
    /\ standingOf \in [Campaigns -> RoundStatus]
    /\ rotation \in SetToSeqs(Campaigns)
    /\ UNION {jammed, Range(round), Range(rollupList), hinted} \subseteq Campaigns
    /\ steers \in 0..MaxSteers

(***************************************************************************)
(* "A campaign that has waited longest goes next" (campaigns.ts): a        *)
(* running campaign has its turn, unless it is stopped, its own ticks fail *)
(* or as many campaigns fail as fit in one tick.                           *)
(***************************************************************************)
RunnerTurns ==
    \A c \in Campaigns :
        []<>(\/ c \notin Running \/ c \in jammed \/ lastServed = c
             \/ Cardinality(jammed) >= PerTick)

(***************************************************************************)
(* A campaign that changed is recounted, as long as the campaigns that     *)
(* have completed or were paused, which the rollup lists for good, do not  *)
(* fill its page.                                                          *)
(***************************************************************************)
RollupTurns ==
    \A c \in Campaigns :
        []<>(c \notin hinted \/
             Cardinality({d \in Campaigns \ {c} : standingOf[d] # "DRAFT"}) >= RollupPage)

\* Each list gives everybody its turn.
TurnsComeRound == RunnerTurns /\ RollupTurns
=============================================================================
