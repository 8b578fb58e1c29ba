--------------------------- MODULE CampaignClaims ---------------------------
(***************************************************************************)
(* One launched campaign and its recipient rows: the overlapping ticks of  *)
(* wa-campaign-runner that claim, queue and complete, the two stale-claim  *)
(* sweeps (the runner's and the hourly health check's), and a cancel that  *)
(* abandons what is left.                                                  *)
(*                                                                         *)
(* One action per awaited call.  The claim is the only write the store     *)
(* filters by status; every other one is by id, on the strength of a list  *)
(* or a copy read earlier.  PAUSED, TIER_WAITING and FAILED are one status *)
(* here (STOPPED): to the rows they only mean that no tick starts.         *)
(***************************************************************************)
EXTENDS Integers, FiniteSets

CONSTANTS
    Recipients,     \* recipient rows of the campaign
    Ticks,          \* runner invocations that can be running at once
    None,           \* no recipient
    BatchSize,      \* rows one tick claims
    PageSize,       \* rows one pass of abandonPending lists
    MaxPasses,      \* passes of abandonPending
    MaxFaults       \* bound: invocations that die, and answers that are lost

ASSUME CampaignClaimsAssumption ==
    /\ None \notin Recipients
    /\ IsFiniteSet(Recipients)
    /\ BatchSize \in Nat \ {0}
    /\ PageSize \in Nat \ {0}
    /\ MaxPasses \in Nat
    /\ MaxFaults \in Nat

VARIABLES
    campaign,   \* the status column of the campaign row
    recipient,  \* the recipient rows
    tick,       \* the running runner invocations
    health,     \* the stale claims a running health check has listed
    cancel,     \* the cancel request
    faults,     \* invocations that died and answers that were lost, so far
    messages,   \* history: messages created for the recipient
    cause       \* history: the faults the recipient has been exposed to

vars == <<campaign, recipient, tick, health, cancel, faults, messages, cause>>

CampaignStatus == {"RUNNING", "STOPPED", "COMPLETED", "CANCELLED"}
RecipientStatus == {"PENDING", "CLAIMED", "QUEUED", "FAILED", "SKIPPED"}

\* claimedAt: null, recent, or older than STALE_CLAIM_MS.
RecipientRow == [status : RecipientStatus, claimedAt : {"null", "fresh", "stale"},
                 linked : BOOLEAN]

TickSteps == {"idle", "pending", "claimed", "complete", "select",
              "claim", "queue", "link", "fail", "sweep", "revert"}

\* rows: what the step works on (selected, claimed or stale ids).
TickState == [step : TickSteps, rows : SUBSET Recipients,
              current : Recipients \union {None}]

NoTick == [step |-> "idle", rows |-> {}, current |-> None]

CancelSteps == {"none", "loaded", "list", "skip", "done", "gaveUp"}
CancelState == [step : CancelSteps, rows : SUBSET Recipients, passes : 0..MaxPasses]

NoCancel == [step |-> "none", rows |-> {}, passes |-> 0]

Causes == {"crash",     \* a tick died between the message and its link
           "timeout",   \* a create the store had made was retried or given up
           "reverted",  \* a sweep took back a row that was not its claim any more
           "skipped",   \* a tick was queueing the row when the cancel had listed it
           "recount"}   \* a sweep moved the row while a tick was completing

Unsent == {r \in Recipients : recipient[r].status \in {"PENDING", "CLAIMED"}}
Pending == {r \in Recipients : recipient[r].status = "PENDING"}

\* The claimed rows a running tick still has to queue.
Holds(t, r) == /\ tick[t].step \in {"queue", "link", "fail"}
               /\ r \in tick[t].rows \union {tick[t].current}
Held(r) == \E t \in Ticks : Holds(t, r)

Goto(t, step) == tick' = [tick EXCEPT ![t].step = step]

\* The tick is done with the campaign; the runner goes on to the sweep.
Leave(t) == tick' = [tick EXCEPT ![t] = [NoTick EXCEPT !.step = "sweep"]]

Fault == faults < MaxFaults /\ faults' = faults + 1

Lesser(a, b) == IF a < b THEN a ELSE b

\* A page of at most n rows.
Pages(rows, n) == {p \in SUBSET rows : Cardinality(p) = Lesser(n, Cardinality(rows))}

-----------------------------------------------------------------------------
(***************************************************************************)
(* runTick and tickCampaign                                                *)
(***************************************************************************)
\* The campaign is re-read; if it is not RUNNING only the sweep is left.
StartTick(t) ==
    /\ tick[t].step = "idle"
    /\ Goto(t, IF campaign = "RUNNING" THEN "pending" ELSE "sweep")
    /\ UNCHANGED <<campaign, recipient, health, cancel, faults, messages, cause>>

\* evaluateGuards, or the tier budget after the count, stops the campaign:
\* validated against the copy read by StartTick, written whatever it is now.
StopCampaign(t) ==
    /\ tick[t].step \in {"pending", "select"}
    /\ campaign' = "STOPPED"
    /\ Leave(t)
    /\ UNCHANGED <<recipient, health, cancel, faults, messages, cause>>

\* Mutant: completion looks at PENDING only.
CountPendingOnly(t) ==
    /\ tick[t].step = "pending"
    /\ Goto(t, IF Pending = {} THEN "complete" ELSE "select")
    /\ UNCHANGED <<campaign, recipient, health, cancel, faults, messages, cause>>

CountPending(t) ==
    /\ tick[t].step = "pending"
    /\ Goto(t, IF Pending = {} THEN "claimed" ELSE "select")
    /\ UNCHANGED <<campaign, recipient, health, cancel, faults, messages, cause>>

\* The second half of the completion test, another query.
CountClaimed(t) ==
    /\ tick[t].step = "claimed"
    /\ IF \E r \in Recipients : recipient[r].status = "CLAIMED"
       THEN Leave(t) ELSE Goto(t, "complete")
    /\ UNCHANGED <<campaign, recipient, health, cancel, faults, messages, cause>>

Complete(t) ==
    /\ tick[t].step = "complete"
    /\ campaign' = "COMPLETED"
    /\ Leave(t)
    /\ UNCHANGED <<recipient, health, cancel, faults, messages, cause>>

\* claimPendingRecipients, first statement.
SelectPending(t) ==
    /\ tick[t].step = "select"
    /\ IF Pending = {} THEN Leave(t)
       ELSE \E page \in Pages(Pending, BatchSize) :
               tick' = [tick EXCEPT ![t].step = "claim", ![t].rows = page]
    /\ UNCHANGED <<campaign, recipient, health, cancel, faults, messages, cause>>

Claimed(won) == [r \in Recipients |->
    IF r \in won THEN [recipient[r] EXCEPT !.status = "CLAIMED", !.claimedAt = "fresh"]
    ELSE recipient[r]]

\* Mutant: the update is not filtered by PENDING.
ClaimUnfiltered(t) ==
    /\ tick[t].step = "claim"
    /\ recipient' = Claimed(tick[t].rows)
    /\ Goto(t, "queue")
    /\ UNCHANGED <<campaign, health, cancel, faults, messages, cause>>

\* Mutant: the claim is not stamped with its time.
ClaimUnstamped(t) ==
    LET won == tick[t].rows \intersect Pending IN
    /\ tick[t].step = "claim"
    /\ recipient' = [r \in Recipients |->
          IF r \in won THEN [recipient[r] EXCEPT !.status = "CLAIMED"] ELSE recipient[r]]
    /\ IF won = {} THEN Leave(t)
       ELSE tick' = [tick EXCEPT ![t].step = "queue", ![t].rows = won]
    /\ UNCHANGED <<campaign, health, cancel, faults, messages, cause>>

\* Second statement: the update is filtered by PENDING, and the tick goes on
\* with the rows it returns.  An update that times out after it was made is
\* retried and returns none: those claims are left to the sweep.
Claim(t) ==
    LET won == tick[t].rows \intersect Pending IN
    /\ tick[t].step = "claim"
    /\ recipient' = Claimed(won)
    /\ \/ /\ won # {}
          /\ tick' = [tick EXCEPT ![t].step = "queue", ![t].rows = won]
          /\ UNCHANGED faults
       \/ /\ won = {}
          /\ Leave(t)
          /\ UNCHANGED faults
       \/ /\ won # {}
          /\ Fault
          /\ Leave(t)
    /\ UNCHANGED <<campaign, health, cancel, messages, cause>>

\* queueOutbound for one claimed row.  "made" counts the rows the store
\* created: withRetry repeats a create whose answer was lost.
CreateMessage(t, r, made) ==
    /\ tick[t].step = "queue"
    /\ r \in tick[t].rows
    /\ messages' = [messages EXCEPT ![r] = @ + made]
    /\ \E step \in {"link", "fail"} :
          /\ step = "link" => made > 0
          /\ tick' = [tick EXCEPT ![t] = [step |-> step, rows |-> @.rows \ {r},
                                          current |-> r]]
          /\ IF made > (IF step = "link" THEN 1 ELSE 0)
             THEN Fault /\ cause' = [cause EXCEPT ![r] = @ \union {"timeout"}]
             ELSE UNCHANGED <<faults, cause>>
    /\ UNCHANGED <<campaign, recipient, health, cancel>>

\* After the last row the messages are scheduled, and the no-op transition to
\* RUNNING writes no status.
NextRow(t) == IF tick[t].rows = {} THEN Leave(t)
              ELSE tick' = [tick EXCEPT ![t].step = "queue", ![t].current = None]

\* The row moves on while a cancel has it on its list.
Listed(r) == cause' = IF r \in cancel.rows
                      THEN [cause EXCEPT ![r] = @ \union {"skipped"}] ELSE cause

\* The recipient is patched QUEUED with the message's id; a patch that
\* throws takes the catch.
LinkMessage(t) ==
    LET r == tick[t].current IN
    /\ tick[t].step = "link"
    /\ \/ /\ recipient' = [recipient EXCEPT ![r].status = "QUEUED", ![r].linked = TRUE]
          /\ NextRow(t)
          /\ Listed(r)
       \/ /\ Goto(t, "fail")
          /\ UNCHANGED <<recipient, cause>>
    /\ UNCHANGED <<campaign, health, cancel, faults, messages>>

\* Mutant: the row is put back for another try.
FailRowRetry(t) ==
    /\ tick[t].step = "fail"
    /\ recipient' = [recipient EXCEPT ![tick[t].current].status = "PENDING"]
    /\ NextRow(t)
    /\ Listed(tick[t].current)
    /\ UNCHANGED <<campaign, health, cancel, faults, messages>>

\* Mutant: the row takes a status of the campaign.
FailRowStopped(t) ==
    /\ tick[t].step = "fail"
    /\ recipient' = [recipient EXCEPT ![tick[t].current].status = "STOPPED"]
    /\ NextRow(t)
    /\ Listed(tick[t].current)
    /\ UNCHANGED <<campaign, health, cancel, faults, messages>>

FailRow(t) ==
    /\ tick[t].step = "fail"
    /\ recipient' = [recipient EXCEPT ![tick[t].current].status = "FAILED"]
    /\ NextRow(t)
    /\ Listed(tick[t].current)
    /\ UNCHANGED <<campaign, health, cancel, faults, messages>>

\* The campaign's part of the tick throws (the runner catches it and sweeps),
\* or the invocation dies.
CrashTick(t) ==
    /\ tick[t].step # "idle"
    /\ Fault
    /\ \/ tick[t].step \notin {"sweep", "revert"} /\ Leave(t)
       \/ tick' = [tick EXCEPT ![t] = NoTick]
    /\ cause' = IF tick[t].step \in {"link", "fail"}
                THEN [cause EXCEPT ![tick[t].current] = @ \union {"crash"}]
                ELSE cause
    /\ UNCHANGED <<campaign, recipient, health, cancel, messages>>

-----------------------------------------------------------------------------
(***************************************************************************)
(* Stale claims                                                            *)
(***************************************************************************)
\* A claim outlives STALE_CLAIM_MS (10 minutes) only when the tick that took
\* it, which has 120 seconds, is gone.  The age of other rows is never read.
Age(r) ==
    /\ recipient[r].status = "CLAIMED"
    /\ recipient[r].claimedAt = "fresh"
    /\ ~Held(r)
    /\ recipient' = [recipient EXCEPT ![r].claimedAt = "stale"]
    /\ UNCHANGED <<campaign, tick, health, cancel, faults, messages, cause>>

StaleClaims == {r \in Recipients : /\ recipient[r].status = "CLAIMED"
                                   /\ recipient[r].claimedAt = "stale"}

Completing == \/ campaign = "COMPLETED"
              \/ \E t \in Ticks : tick[t].step \in {"claimed", "complete"}

\* The rows of a list, by id, back to PENDING.
Revert(rows) ==
    /\ recipient' = [r \in Recipients |->
          IF r \in rows
          THEN [recipient[r] EXCEPT !.status = "PENDING", !.claimedAt = "null"]
          ELSE recipient[r]]
    /\ cause' = [r \in Recipients |->
          IF r \in rows
          THEN cause[r]
                 \union (IF r \in StaleClaims THEN {} ELSE {"reverted"})
                 \union (IF Completing THEN {"recount"} ELSE {})
          ELSE cause[r]]

\* sweepStaleClaims of the runner: rows that have a message are left alone.
ListStaleClaims(t) ==
    /\ tick[t].step = "sweep"
    /\ LET stale == {r \in StaleClaims : ~recipient[r].linked} IN
       tick' = [tick EXCEPT ![t] = IF stale = {} THEN NoTick
                                   ELSE [NoTick EXCEPT !.step = "revert", !.rows = stale]]
    /\ UNCHANGED <<campaign, recipient, health, cancel, faults, messages, cause>>

RevertClaims(t) ==
    /\ tick[t].step = "revert"
    /\ Revert(tick[t].rows)
    /\ tick' = [tick EXCEPT ![t] = NoTick]
    /\ UNCHANGED <<campaign, health, cancel, faults, messages>>

\* The health check does the same without the test for a message.
ListForHealth ==
    /\ health = {}
    /\ StaleClaims # {}
    /\ health' = StaleClaims
    /\ UNCHANGED <<campaign, recipient, tick, cancel, faults, messages, cause>>

RevertForHealth ==
    /\ health # {}
    /\ Revert(health)
    /\ health' = {}
    /\ UNCHANGED <<campaign, tick, cancel, faults, messages>>

-----------------------------------------------------------------------------
(***************************************************************************)
(* The admin                                                               *)
(***************************************************************************)
\* Pause, and resume (or the runner's own end of TIER_WAITING).
Pause ==
    /\ campaign = "RUNNING"
    /\ campaign' = "STOPPED"
    /\ UNCHANGED <<recipient, tick, health, cancel, faults, messages, cause>>

Resume ==
    /\ campaign = "STOPPED"
    /\ campaign' = "RUNNING"
    /\ UNCHANGED <<recipient, tick, health, cancel, faults, messages, cause>>

\* The route loads the campaign; the edge is refused from COMPLETED.
LoadForCancel ==
    /\ cancel.step = "none"
    /\ campaign # "COMPLETED"
    /\ cancel' = [cancel EXCEPT !.step = "loaded"]
    /\ UNCHANGED <<campaign, recipient, tick, health, faults, messages, cause>>

CancelCampaign ==
    /\ cancel.step = "loaded"
    /\ campaign' = "CANCELLED"
    /\ cancel' = [cancel EXCEPT !.step = "list"]
    /\ UNCHANGED <<recipient, tick, health, faults, messages, cause>>

\* Mutant: the list is not filtered by status.
ListUnsentAll ==
    /\ cancel.step = "list"
    /\ IF Unsent = {} THEN cancel' = [NoCancel EXCEPT !.step = "done"]
       ELSE IF cancel.passes = MaxPasses
       THEN cancel' = [NoCancel EXCEPT !.step = "gaveUp"]
       ELSE \E page \in Pages(Recipients, PageSize) :
               cancel' = [step |-> "skip", rows |-> page, passes |-> cancel.passes + 1]
    /\ UNCHANGED <<campaign, recipient, tick, health, faults, messages, cause>>

\* abandonPending: a page, its patch, and again until a page is empty.
ListUnsent ==
    /\ cancel.step = "list"
    /\ IF Unsent = {} THEN cancel' = [NoCancel EXCEPT !.step = "done"]
       ELSE IF cancel.passes = MaxPasses
       THEN cancel' = [NoCancel EXCEPT !.step = "gaveUp"]
       ELSE \E page \in Pages(Unsent, PageSize) :
               cancel' = [step |-> "skip", rows |-> page, passes |-> cancel.passes + 1]
    /\ UNCHANGED <<campaign, recipient, tick, health, faults, messages, cause>>

Skipped(rows) == [r \in Recipients |->
    IF r \in rows
    THEN [recipient[r] EXCEPT !.status = "SKIPPED", !.claimedAt = "null"]
    ELSE recipient[r]]

\* Mutant: one pass and no more.
SkipUnsentOnce ==
    /\ cancel.step = "skip"
    /\ recipient' = Skipped(cancel.rows)
    /\ cause' = [r \in Recipients |->
          IF r \in cancel.rows /\ Held(r)
          THEN cause[r] \union {"skipped"} ELSE cause[r]]
    /\ cancel' = [cancel EXCEPT !.step = "done", !.rows = {}]
    /\ UNCHANGED <<campaign, tick, health, faults, messages>>

SkipUnsent ==
    /\ cancel.step = "skip"
    /\ recipient' = Skipped(cancel.rows)
    /\ cause' = [r \in Recipients |->
          IF r \in cancel.rows /\ Held(r)
          THEN cause[r] \union {"skipped"} ELSE cause[r]]
    /\ cancel' = [cancel EXCEPT !.step = "list", !.rows = {}]
    /\ UNCHANGED <<campaign, tick, health, faults, messages>>

\* The request dies (60 s); the admin may press cancel again: CANCELLED to
\* CANCELLED is a no-op that still abandons.
CrashCancel ==
    /\ cancel.step \in {"loaded", "list", "skip"}
    /\ Fault
    /\ cancel' = NoCancel
    /\ UNCHANGED <<campaign, recipient, tick, health, messages, cause>>

-----------------------------------------------------------------------------
Init ==
    /\ campaign = "RUNNING"
    /\ recipient = [r \in Recipients |->
          [status |-> "PENDING", claimedAt |-> "null", linked |-> FALSE]]
    /\ tick = [t \in Ticks |-> NoTick]
    /\ health = {}
    /\ cancel = NoCancel
    /\ faults = 0
    /\ messages = [r \in Recipients |-> 0]
    /\ cause = [r \in Recipients |-> {}]

TickStep(t) ==
    \/ StartTick(t)
    \/ CountPending(t)
    \/ CountClaimed(t)
    \/ Complete(t)
    \/ SelectPending(t)
    \/ Claim(t)
    \/ \E r \in Recipients, made \in 0..2 : CreateMessage(t, r, made)
    \/ LinkMessage(t)
    \/ FailRow(t)
    \/ ListStaleClaims(t)
    \/ RevertClaims(t)

HealthStep == ListForHealth \/ RevertForHealth

CancelStep == LoadForCancel \/ CancelCampaign \/ ListUnsent \/ SkipUnsent

Next ==
    \/ \E t \in Ticks : TickStep(t) \/ StopCampaign(t) \/ CrashTick(t)
    \/ \E r \in Recipients : Age(r)
    \/ HealthStep
    \/ Pause
    \/ Resume
    \/ CancelStep
    \/ CrashCancel

Spec == Init /\ [][Next]_vars

(***************************************************************************)
(* The cron starts ticks and they run; time passes.  Nothing is assumed of *)
(* the health check or of the admin.                                       *)
(***************************************************************************)
Fairness ==
    /\ \A t \in Ticks : WF_vars(TickStep(t))
    /\ \A r \in Recipients : WF_vars(Age(r))

FairSpec == Spec /\ Fairness

-----------------------------------------------------------------------------
TypeOK ==
    /\ campaign \in CampaignStatus
    /\ recipient \in [Recipients -> RecipientRow]
    /\ tick \in [Ticks -> TickState]
    /\ health \subseteq Recipients
    /\ cancel \in CancelState
    /\ faults \in 0..MaxFaults
    /\ messages \in [Recipients -> Nat]
    /\ cause \in [Recipients -> SUBSET Causes]

(***************************************************************************)
(* "A second tick that selected the same ids is handed nothing" (AR-20,    *)
(* claimPendingRecipients): two ticks never hold one recipient, except one *)
(* that a sweep with an old list had put back.                             *)
(***************************************************************************)
ClaimsAreExclusive ==
    \A r \in Recipients : \A t, u \in Ticks :
        t # u /\ Holds(t, r) /\ Holds(u, r) => "reverted" \in cause[r]

(***************************************************************************)
(* No recipient is messaged twice (AR-20), however ticks, sweeps and       *)
(* cancels interleave, but for three faults: a tick that died between the  *)
(* message and its link, a create whose answer was lost, and a sweep that  *)
(* patched by an old list.                                                 *)
(***************************************************************************)
SecondMessageHasACause ==
    \A r \in Recipients : messages[r] > 1 =>
        cause[r] \intersect {"crash", "timeout", "reverted"} # {}

(***************************************************************************)
(* A campaign declared COMPLETED has no recipient left PENDING or CLAIMED  *)
(* (tickCampaign: "completion needs both halves"), except one that a sweep *)
(* moved while the two halves were being counted or later.                 *)
(***************************************************************************)
CompletedMeansDone ==
    campaign = "COMPLETED" =>
        \A r \in Unsent : "recount" \in cause[r]

(***************************************************************************)
(* A cancel that did not run out of passes has left nobody PENDING or      *)
(* CLAIMED, unless a sweep with an old list came after it.                 *)
(***************************************************************************)
CancelLeavesNobody ==
    cancel.step = "done" =>
        \A r \in Unsent : "reverted" \in cause[r]

(***************************************************************************)
(* SKIPPED, "cancelled before this message was sent", is true of the row:  *)
(* no message was created for it, except by a tick that was queueing it    *)
(* at that moment or one of the faults of SecondMessageHasACause.          *)
(***************************************************************************)
SkippedMeansUnsent ==
    \A r \in Recipients : recipient[r].status = "SKIPPED" /\ messages[r] > 0 =>
        cause[r] \intersect {"crash", "timeout", "reverted", "skipped"} # {}

(***************************************************************************)
(* A campaign that is over is over: COMPLETED reached everybody, and a     *)
(* cancel abandons everybody it did not reach, and nobody it did.          *)
(***************************************************************************)
OverMeansOver == CompletedMeansDone /\ CancelLeavesNobody /\ SkippedMeansUnsent

(***************************************************************************)
(* A claim is a lease (specs/07 section 6.1): a recipient does not stay    *)
(* PENDING or CLAIMED while the campaign runs, whatever ticks die.         *)
(***************************************************************************)
EveryoneIsReached ==
    \A r \in Recipients :
        r \in Unsent ~> (r \notin Unsent \/ campaign # "RUNNING")
=============================================================================
