----------------------------- MODULE TierLedger -----------------------------
(***************************************************************************)
(* Meta's allowance of unique users a day (domain/campaign/tier-budget.ts, *)
(* server/tier-ledger.ts): the runner claims what the counter on the       *)
(* account leaves, the sender counts each user after Meta accepted, from a *)
(* copy of the account and a set in kv, and the window is rolled by the    *)
(* sender or by the hourly health check.  A window is a day of the clock.  *)
(***************************************************************************)
EXTENDS Integers, FiniteSets

CONSTANTS
    Audience,   \* users of the campaign
    Allowance,  \* TIER_LIMITS less the reserve: what campaigns may use
    ClaimSize,  \* campaignBatchSize
    Days,       \* bound: days of the clock
    MaxLapses   \* bound: ledger writes that fail

ASSUME TierLedgerAssumption ==
    /\ IsFiniteSet(Audience)
    /\ {Allowance, ClaimSize, MaxLapses} \subseteq Nat
    /\ Days \in Nat \ {0}

VARIABLES
    day,
    tier,       \* tierUniqueUsersUsed and tierWindowStartedAt of the account
    tracked,    \* the kv sets, by the window they belong to
    state,      \* status of the campaign
    pending,    \* recipients not claimed
    ledger,     \* per user: where its sender is
    roll,       \* the health check
    reached,    \* history: users Meta has counted today
    lapses, blame

tierVars == <<day, tier, tracked, state, pending, ledger, roll, reached, lapses, blame>>

Unanchored == 0
Windows == 0..Days
Account == [used : Nat, anchor : Windows]

WindowExpired(account) == account.anchor = Unanchored \/ day > account.anchor

\* Mutant: the whole audience is available.
AvailableAll(account) == Cardinality(Audience)

Available(account) ==
    IF Allowance > account.used THEN Allowance - account.used ELSE 0

Unqueued == [step |-> "none"]
Queued == [step |-> "queued"]
Counted == [step |-> "counted"]

\* Users whose message is out, or on its way, and not in the counter.
Uncounted == {u \in Audience : ledger[u] \notin {Unqueued, Counted}}

Blames == {"inflight",  \* a batch was claimed while another was uncounted
           "race",      \* the counter was written from an old copy
           "lapsed",    \* a ledger write failed
           "overnight"} \* a message claimed on one day was sent on another

Blamed(b, when) == IF when THEN {b} ELSE {}
-----------------------------------------------------------------------------
\* claimableCount users are claimed and queued.
TierTick ==
    /\ state = "RUNNING"
    /\ IF pending = {}
       THEN state' = "COMPLETED" /\ UNCHANGED <<pending, ledger, blame>>
       ELSE IF Available(tier) = 0
       THEN state' = "TIER_WAITING" /\ UNCHANGED <<pending, ledger, blame>>
       ELSE \E batch \in SUBSET pending :
              /\ batch # {}
              /\ Cardinality(batch) <= ClaimSize
              /\ Cardinality(batch) <= Available(tier)
              /\ pending' = pending \ batch
              /\ ledger' = [u \in Audience |-> IF u \in batch THEN Queued ELSE ledger[u]]
              /\ blame' = blame \union Blamed("inflight", Uncounted # {})
              /\ UNCHANGED state
    /\ UNCHANGED <<day, tier, tracked, roll, reached, lapses>>

\* runTick: the window rolled, or the counter was reset.
TierResume ==
    /\ state = "TIER_WAITING"
    /\ WindowExpired(tier) \/ Available(tier) > 0
    /\ state' = "RUNNING"
    /\ UNCHANGED <<day, tier, tracked, pending, ledger, roll, reached, lapses, blame>>

\* The sender reads the account, and Meta accepts.
Accepted(u) ==
    /\ ledger[u] = Queued
    /\ ledger' = [ledger EXCEPT ![u] = [step |-> "lookup", copy |-> tier, at |-> day]]
    /\ reached' = reached \union {u}
    /\ UNCHANGED <<day, tier, tracked, state, pending, roll, lapses, blame>>

\* recordBusinessInitiated: the window, then the set of that window.
LedgerLookup(u) ==
    /\ ledger[u].step = "lookup"
    /\ LET expired == ledger[u].copy.anchor = Unanchored \/ ledger[u].at > ledger[u].copy.anchor
           window == IF expired THEN ledger[u].at ELSE ledger[u].copy.anchor
       IN ledger' = [ledger EXCEPT ![u] =
             IF u \in tracked[window] THEN Counted
             ELSE [step |-> "track", copy |-> ledger[u].copy, window |-> window,
                   used |-> (IF expired THEN 0 ELSE ledger[u].copy.used) + 1,
                   set |-> tracked[window] \union {u}]]
    /\ UNCHANGED <<day, tier, tracked, state, pending, roll, reached, lapses, blame>>

LedgerTrack(u) ==
    /\ ledger[u].step = "track"
    /\ tracked' = [tracked EXCEPT ![ledger[u].window] = ledger[u].set]
    /\ ledger' = [ledger EXCEPT ![u].step = "count"]
    /\ UNCHANGED <<day, tier, state, pending, roll, reached, lapses, blame>>

\* The anchor is written only when the window was expired.
NewAnchor(u) ==
    IF ledger[u].window # ledger[u].copy.anchor THEN ledger[u].window ELSE tier.anchor

LedgerCount(u) ==
    /\ ledger[u].step = "count"
    /\ tier' = [used |-> ledger[u].used, anchor |-> NewAnchor(u)]
    /\ blame' = blame \union Blamed("race", tier # ledger[u].copy)
    /\ ledger' = [ledger EXCEPT ![u] = Counted]
    /\ UNCHANGED <<day, tracked, state, pending, roll, reached, lapses>>

\* Swallowed: it must not fail a send that Meta has accepted.
LedgerLapses(u) ==
    /\ ledger[u].step \in {"lookup", "track", "count"}
    /\ lapses < MaxLapses /\ lapses' = lapses + 1
    /\ ledger' = [ledger EXCEPT ![u] = Counted]
    /\ blame' = blame \union {"lapsed"}
    /\ UNCHANGED <<day, tier, tracked, state, pending, roll, reached>>

\* checkAccount: the window was expired in the list it read.
HealthReads ==
    /\ roll = "idle" /\ WindowExpired(tier)
    /\ roll' = "expired"
    /\ UNCHANGED <<day, tier, tracked, state, pending, ledger, reached, lapses, blame>>

\* Mutant: the window is rolled and the old count kept.
HealthRollsOn ==
    /\ roll = "expired"
    /\ roll' = "idle"
    /\ tier' = [tier EXCEPT !.anchor = day]
    /\ blame' = blame \union Blamed("race", ~ WindowExpired(tier))
    /\ UNCHANGED <<day, tracked, state, pending, ledger, reached, lapses>>

HealthRolls ==
    /\ roll = "expired"
    /\ roll' = "idle"
    /\ tier' = [used |-> 0, anchor |-> day]
    /\ blame' = blame \union Blamed("race", ~ WindowExpired(tier))
    /\ UNCHANGED <<day, tracked, state, pending, ledger, reached, lapses>>

NextDay ==
    /\ day < Days
    /\ day' = day + 1
    /\ reached' = {}
    /\ blame' = Blamed("overnight", Uncounted # {} \/ roll # "idle")
    /\ UNCHANGED <<tier, tracked, state, pending, ledger, roll, lapses>>
-----------------------------------------------------------------------------
TierInit ==
    /\ day = 1
    /\ tier = [used |-> 0, anchor |-> Unanchored]
    /\ tracked = [w \in Windows |-> {}]
    /\ state = "RUNNING"
    /\ pending = Audience
    /\ ledger = [u \in Audience |-> Unqueued]
    /\ roll = "idle"
    /\ reached = {}
    /\ lapses = 0
    /\ blame = {}

TierNext ==
    \/ TierTick \/ TierResume \/ HealthReads \/ HealthRolls \/ NextDay
    \/ \E u \in Audience :
         \/ Accepted(u) \/ LedgerLookup(u) \/ LedgerTrack(u) \/ LedgerCount(u)
         \/ LedgerLapses(u)

TierSpec == TierInit /\ [][TierNext]_tierVars

\* The runner and the health check are crons; jobs run.
TierFairness ==
    /\ WF_tierVars(TierTick) /\ WF_tierVars(TierResume)
    /\ WF_tierVars(HealthReads) /\ WF_tierVars(HealthRolls)
    /\ \A u \in Audience : WF_tierVars(Accepted(u) \/ LedgerLookup(u) \/
                                       LedgerTrack(u) \/ LedgerCount(u))
-----------------------------------------------------------------------------
TierTypeOK ==
    /\ day \in 1..Days
    /\ tier \in Account
    /\ tracked \in [Windows -> SUBSET Audience]
    /\ state \in {"RUNNING", "TIER_WAITING", "COMPLETED"}
    /\ pending \subseteq Audience /\ reached \subseteq Audience
    /\ lapses \in 0..MaxLapses
    /\ blame \subseteq Blames

(***************************************************************************)
(* A campaign stops at the allowance: it never reaches more users in a     *)
(* window than Meta's limit less the reserve (AR-21), unless it claimed    *)
(* while an earlier batch was not counted yet, the day changed under a     *)
(* batch, or the counter lost an increment.                                *)
(***************************************************************************)
ReserveIsKept == blame = {} => Cardinality(reached) <= Allowance

(***************************************************************************)
(* A campaign that waits for allowance gets it (runTick: the window        *)
(* rolled): once the window it waits for is over the counter is reset,     *)
(* and it does not stay waiting while there is allowance left.             *)
(***************************************************************************)
WaitingEnds ==
    /\ (state = "TIER_WAITING" /\ WindowExpired(tier)) ~> Available(tier) > 0
    /\ []<>(state # "TIER_WAITING" \/ Available(tier) = 0)
=============================================================================
