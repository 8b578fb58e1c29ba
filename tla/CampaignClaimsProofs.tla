------------------------ MODULE CampaignClaimsProofs ------------------------
(***************************************************************************)
(* Proofs about CampaignClaims, for any sets of recipients and ticks.      *)
(***************************************************************************)
EXTENDS CampaignClaims, TLAPS

(***************************************************************************)
(* The inductive strengthenings.                                           *)
(***************************************************************************)
\* What an invocation and a cancel remember between two awaits.
WellFormed(s) ==
    /\ s.step \notin {"claim", "queue", "link", "fail", "revert"} => s.rows = {}
    /\ s.step \in {"link", "fail"} => s.current \in Recipients \ s.rows
    /\ s.step \notin {"link", "fail"} => s.current = None

StepsWellFormed ==
    /\ \A t \in Ticks : WellFormed(tick[t])
    /\ cancel.step # "skip" => cancel.rows = {}

Reverted(r) == "reverted" \in cause[r]

\* The faults that can produce a second message.
Excused(r) == cause[r] \intersect {"crash", "timeout", "reverted"} # {}

\* What the tick has still to queue, and what it is queueing.
Waits(t, r) == tick[t].step \in {"queue", "link", "fail"} /\ r \in tick[t].rows
Current(t, r) == tick[t].step \in {"link", "fail"} /\ r = tick[t].current

\* A held row is a fresh claim, or the cancel has taken it and noted so.
HoldersHoldClaims ==
    \A r \in Recipients : \A t \in Ticks : Holds(t, r) =>
        \/ Reverted(r)
        \/ recipient[r].status = "CLAIMED" /\ recipient[r].claimedAt = "fresh"
        \/ recipient[r].status = "SKIPPED" /\ "skipped" \in cause[r]

\* A row no fault has touched has no message, or one and is past its claim, or
\* one and a tick at work on it.
OneMessage ==
    \A r \in Recipients :
        \/ Excused(r)
        \/ messages[r] = 0
        \/ /\ messages[r] = 1
           /\ recipient[r].status # "PENDING"
           /\ recipient[r].status = "CLAIMED" => \E t \in Ticks : Current(t, r)
           /\ \A t \in Ticks : ~Waits(t, r)

\* What the cancel has listed is unsent still, or its move has been noted.
ListIsNoted ==
    \A r \in cancel.rows : r \in Unsent \/ "skipped" \in cause[r]

\* Between the two counts, and from the second one to the write, nobody comes
\* back unnoted.
CountsHold ==
    \A t \in Ticks :
        /\ tick[t].step = "claimed" => \A r \in Pending : "recount" \in cause[r]
        /\ tick[t].step = "complete" => \A r \in Unsent : "recount" \in cause[r]

-----------------------------------------------------------------------------
(***************************************************************************)
(* Type correctness.                                                       *)
(***************************************************************************)
\* A page is a set of the rows it was asked for.
LEMMA PageIsOfRows ==
    ASSUME NEW rows, NEW n, NEW page \in Pages(rows, n)
    PROVE  page \subseteq rows
  BY DEF Pages

\* A tick that moves to a well-formed state leaves all of them so.
LEMMA TickTyped ==
    ASSUME TypeOK, StepsWellFormed, NEW t \in Ticks,
           NEW s \in TickState, WellFormed(s), tick' = [tick EXCEPT ![t] = s]
    PROVE  tick' \in [Ticks -> TickState] /\ \A u \in Ticks : WellFormed(tick'[u])
  BY DEF TypeOK, StepsWellFormed

\* The resting states, and the sweep the runner ends with.
LEMMA RestTyped ==
    /\ NoTick \in TickState /\ WellFormed(NoTick)
    /\ [NoTick EXCEPT !.step = "sweep"] \in TickState
    /\ WellFormed([NoTick EXCEPT !.step = "sweep"])
  BY DEF NoTick, TickState, TickSteps, WellFormed

\* Leaving the campaign goes to the sweep (runTick).
LEMMA LeaveTyped ==
    ASSUME TypeOK, StepsWellFormed, NEW t \in Ticks, Leave(t)
    PROVE  tick' \in [Ticks -> TickState] /\ \A u \in Ticks : WellFormed(tick'[u])
  BY RestTyped, TickTyped DEF Leave

\* A tick that works on no row can go to any step that works on none.
LEMMA GotoTyped ==
    ASSUME TypeOK, StepsWellFormed, NEW t \in Ticks, NEW s,
           s \in {"pending", "sweep", "claimed", "complete", "select"},
           tick[t].step \notin {"claim", "queue", "link", "fail", "revert"},
           Goto(t, s)
    PROVE  tick' \in [Ticks -> TickState] /\ \A u \in Ticks : WellFormed(tick'[u])
<1>1. tick[t] \in TickState /\ WellFormed(tick[t])
  BY DEF TypeOK, StepsWellFormed
<1>2. [tick[t] EXCEPT !.step = s] \in TickState
  BY <1>1 DEF TickState, TickSteps
<1>3. WellFormed([tick[t] EXCEPT !.step = s])
  BY <1>1 DEF WellFormed, TickState
<1>4. tick' = [tick EXCEPT ![t] = [tick[t] EXCEPT !.step = s]]
  BY DEF Goto
<1> QED
  BY <1>2, <1>3, <1>4, TickTyped

\* After the last row the tick leaves, else it queues the next one.
LEMMA NextRowTyped ==
    ASSUME TypeOK, StepsWellFormed, NEW t \in Ticks,
           tick[t].step \in {"link", "fail"}, NextRow(t)
    PROVE  tick' \in [Ticks -> TickState] /\ \A u \in Ticks : WellFormed(tick'[u])
<1>1. CASE tick[t].rows = {}
  BY <1>1, LeaveTyped DEF NextRow
<1>2. CASE tick[t].rows # {}
  <2> DEFINE s == [tick[t] EXCEPT !.step = "queue", !.current = None]
  <2>1. tick[t] \in TickState
    BY DEF TypeOK
  <2>2. s \in TickState /\ WellFormed(s)
    BY <2>1 DEF TickState, TickSteps, WellFormed
  <2>3. tick' = [tick EXCEPT ![t] = s]
    BY <1>2 DEF NextRow
  <2> QED
    BY <2>2, <2>3, TickTyped
<1> QED
  BY <1>1, <1>2

\* Each write to a row leaves it a row, whichever id it is made for.
LEMMA RowTyped ==
    ASSUME recipient \in [Recipients -> RecipientRow], NEW r,
           NEW s \in RecipientStatus
    PROVE  /\ [recipient EXCEPT ![r].status = s] \in [Recipients -> RecipientRow]
           /\ [recipient EXCEPT ![r].status = s, ![r].linked = TRUE]
                 \in [Recipients -> RecipientRow]
<1>1. \A q \in RecipientRow : /\ [q EXCEPT !.status = s] \in RecipientRow
                              /\ [q EXCEPT !.linked = TRUE] \in RecipientRow
  BY DEF RecipientRow
<1> QED
  BY <1>1

\* A sweep puts rows back as rows, and notes causes.
LEMMA RevertTyped ==
    ASSUME TypeOK, NEW rows, Revert(rows)
    PROVE  /\ recipient' \in [Recipients -> RecipientRow]
           /\ cause' \in [Recipients -> SUBSET Causes]
<1>1. \A r \in Recipients :
         [recipient[r] EXCEPT !.status = "PENDING", !.claimedAt = "null"] \in RecipientRow
  BY DEF TypeOK, RecipientRow, RecipientStatus
<1>2. recipient' \in [Recipients -> RecipientRow]
  BY <1>1 DEF Revert, TypeOK
<1>3. \A r \in Recipients :
         cause[r] \union (IF r \in StaleClaims THEN {} ELSE {"reverted"})
                  \union (IF Completing THEN {"recount"} ELSE {}) \in SUBSET Causes
  BY DEF TypeOK, Causes
<1>4. cause' \in [Recipients -> SUBSET Causes]
  BY <1>3 DEF Revert, TypeOK
<1> QED
  BY <1>2, <1>4

\* Noting a cause keeps the history a set of causes.
LEMMA CauseTyped ==
    ASSUME cause \in [Recipients -> SUBSET Causes], NEW r, NEW c \in Causes
    PROVE  [cause EXCEPT ![r] = @ \union {c}] \in [Recipients -> SUBSET Causes]
  OBVIOUS

\* The shape of the state, with what an invocation remembers between awaits.
LEMMA TypeInvariant == Spec => [](TypeOK /\ StepsWellFormed)
<1>1. Init => TypeOK /\ StepsWellFormed
  BY CampaignClaimsAssumption DEF Init, TypeOK, StepsWellFormed, WellFormed,
     CampaignStatus, RecipientRow, RecipientStatus, TickState, TickSteps, NoTick,
     CancelState, CancelSteps, NoCancel
<1>2. ASSUME TypeOK, StepsWellFormed, [Next]_vars
      PROVE  TypeOK' /\ StepsWellFormed'
  <2> USE CampaignClaimsAssumption
  <2> DEFINE Ticking == /\ tick' \in [Ticks -> TickState]
                        /\ \A u \in Ticks : WellFormed(tick'[u])
             Goal == TypeOK' /\ StepsWellFormed'
  <2>1. ASSUME NEW t \in Ticks, StartTick(t) PROVE Goal
    <3>1. Ticking
      BY <1>2, <2>1, GotoTyped DEF StartTick
    <3> QED
      BY <1>2, <2>1, <3>1 DEF StartTick, TypeOK, StepsWellFormed
  <2>2. ASSUME NEW t \in Ticks, StopCampaign(t) PROVE Goal
    <3>1. Ticking
      BY <1>2, <2>2, LeaveTyped DEF StopCampaign
    <3> QED
      BY <1>2, <2>2, <3>1 DEF StopCampaign, TypeOK, StepsWellFormed, CampaignStatus
  <2>3. ASSUME NEW t \in Ticks, CountPending(t) PROVE Goal
    <3>1. Ticking
      BY <1>2, <2>3, GotoTyped DEF CountPending
    <3> QED
      BY <1>2, <2>3, <3>1 DEF CountPending, TypeOK, StepsWellFormed
  <2>4. ASSUME NEW t \in Ticks, CountClaimed(t) PROVE Goal
    <3>1. Ticking
      BY <1>2, <2>4, GotoTyped, LeaveTyped DEF CountClaimed
    <3> QED
      BY <1>2, <2>4, <3>1 DEF CountClaimed, TypeOK, StepsWellFormed
  <2>5. ASSUME NEW t \in Ticks, Complete(t) PROVE Goal
    <3>1. Ticking
      BY <1>2, <2>5, LeaveTyped DEF Complete
    <3> QED
      BY <1>2, <2>5, <3>1 DEF Complete, TypeOK, StepsWellFormed, CampaignStatus
  <2>6. ASSUME NEW t \in Ticks, SelectPending(t) PROVE Goal
    <3>1. Ticking
      <4>1. CASE Pending = {}
        BY <1>2, <2>6, <4>1, LeaveTyped DEF SelectPending
      <4>2. CASE Pending # {}
        <5>1. PICK page \in Pages(Pending, BatchSize) :
                 tick' = [tick EXCEPT ![t].step = "claim", ![t].rows = page]
          BY <2>6, <4>2 DEF SelectPending
        <5>2. page \subseteq Recipients
          BY <5>1, PageIsOfRows DEF Pending
        <5>3. tick[t] \in TickState /\ WellFormed(tick[t]) /\ tick[t].step = "select"
          BY <1>2, <2>6 DEF TypeOK, StepsWellFormed, SelectPending
        <5> DEFINE s == [tick[t] EXCEPT !.step = "claim", !.rows = page]
        <5>4. s \in TickState /\ WellFormed(s)
          BY <5>2, <5>3 DEF TickState, TickSteps, WellFormed
        <5>5. tick' = [tick EXCEPT ![t] = s]
          BY <5>1
        <5> QED
          BY <1>2, <5>4, <5>5, TickTyped
      <4> QED
        BY <4>1, <4>2
    <3> QED
      BY <1>2, <2>6, <3>1 DEF SelectPending, TypeOK, StepsWellFormed
  <2>7. ASSUME NEW t \in Ticks, Claim(t) PROVE Goal
    <3> DEFINE won == tick[t].rows \intersect Pending
    <3>1. Ticking
      <4>1. tick[t] \in TickState /\ WellFormed(tick[t]) /\ tick[t].step = "claim"
        BY <1>2, <2>7 DEF TypeOK, StepsWellFormed, Claim
      <4> DEFINE s == [tick[t] EXCEPT !.step = "queue", !.rows = won]
      <4>2. s \in TickState /\ WellFormed(s)
        BY <4>1 DEF TickState, TickSteps, WellFormed
      <4>3. CASE tick' = [tick EXCEPT ![t].step = "queue", ![t].rows = won]
        <5>1. tick' = [tick EXCEPT ![t] = s]
          BY <4>3
        <5> QED
          BY <1>2, <4>2, <5>1, TickTyped
      <4>4. CASE Leave(t)
        BY <1>2, <4>4, LeaveTyped
      <4> QED
        BY <2>7, <4>3, <4>4 DEF Claim
    <3>2. recipient' \in [Recipients -> RecipientRow]
      <4>1. \A r \in Recipients :
               [recipient[r] EXCEPT !.status = "CLAIMED", !.claimedAt = "fresh"]
                  \in RecipientRow
        BY ZenonT(30), <1>2 DEF TypeOK, RecipientRow, RecipientStatus
      <4> QED
        BY <1>2, <2>7, <4>1 DEF Claim, Claimed, TypeOK
    <3>3. faults' \in 0..MaxFaults
      BY <1>2, <2>7 DEF Claim, Fault, TypeOK
    <3> QED
      BY <1>2, <2>7, <3>1, <3>2, <3>3 DEF Claim, TypeOK, StepsWellFormed
  <2>8. ASSUME NEW t \in Ticks, NEW r \in Recipients, NEW made \in 0..2,
               CreateMessage(t, r, made)
        PROVE  Goal
    <3>1. PICK step \in {"link", "fail"} :
             /\ tick' = [tick EXCEPT ![t] = [step |-> step, rows |-> @.rows \ {r},
                                             current |-> r]]
             /\ IF made > (IF step = "link" THEN 1 ELSE 0)
                THEN Fault /\ cause' = [cause EXCEPT ![r] = @ \union {"timeout"}]
                ELSE UNCHANGED <<faults, cause>>
      BY <2>8 DEF CreateMessage
    <3>2. Ticking
      <4>1. tick[t] \in TickState
        BY <1>2 DEF TypeOK
      <4> DEFINE s == [step |-> step, rows |-> tick[t].rows \ {r}, current |-> r]
      <4>2. s \in TickState /\ WellFormed(s)
        BY <4>1 DEF TickState, TickSteps, WellFormed
      <4>3. tick' = [tick EXCEPT ![t] = s]
        BY <3>1
      <4> QED
        BY <1>2, <4>2, <4>3, TickTyped
    <3>3. faults' \in 0..MaxFaults /\ cause' \in [Recipients -> SUBSET Causes]
      BY <1>2, <3>1, CauseTyped DEF Fault, TypeOK, Causes
    <3>4. messages' \in [Recipients -> Nat]
      <4>1. messages[r] + made \in Nat
        BY <1>2 DEF TypeOK
      <4> QED
        BY <1>2, <2>8, <4>1 DEF CreateMessage, TypeOK
    <3> QED
      BY <1>2, <2>8, <3>2, <3>3, <3>4 DEF CreateMessage, TypeOK, StepsWellFormed
  <2>9. ASSUME NEW t \in Ticks, LinkMessage(t) PROVE Goal
    <3> DEFINE r == tick[t].current
    <3>1. CASE recipient' = recipient /\ cause' = cause /\ Goto(t, "fail")
      <4>1. tick[t] \in TickState /\ WellFormed(tick[t]) /\ tick[t].step = "link"
        BY <1>2, <2>9 DEF TypeOK, StepsWellFormed, LinkMessage
      <4> DEFINE s == [tick[t] EXCEPT !.step = "fail"]
      <4>2. s \in TickState /\ WellFormed(s)
        BY <4>1 DEF TickState, TickSteps, WellFormed
      <4>3. tick' = [tick EXCEPT ![t] = s]
        BY <3>1 DEF Goto
      <4>4. Ticking
        BY <1>2, <4>2, <4>3, TickTyped
      <4> QED
        BY <1>2, <2>9, <3>1, <4>4 DEF LinkMessage, TypeOK, StepsWellFormed
    <3>2. CASE /\ recipient' = [recipient EXCEPT ![r].status = "QUEUED",
                                                 ![r].linked = TRUE]
               /\ NextRow(t)
               /\ Listed(r)
      <4>1. Ticking
        BY <1>2, <2>9, <3>2, NextRowTyped DEF LinkMessage
      <4>2. recipient' \in [Recipients -> RecipientRow]
        BY <1>2, <3>2, RowTyped DEF TypeOK, RecipientStatus
      <4>3. cause' \in [Recipients -> SUBSET Causes]
        BY <1>2, <3>2, CauseTyped DEF Listed, TypeOK, Causes
      <4> QED
        BY <1>2, <2>9, <4>1, <4>2, <4>3 DEF LinkMessage, TypeOK, StepsWellFormed
    <3> QED
      BY <2>9, <3>1, <3>2 DEF LinkMessage
  <2>10. ASSUME NEW t \in Ticks, FailRow(t) PROVE Goal
    <3>1. Ticking
      BY <1>2, <2>10, NextRowTyped DEF FailRow
    <3>2. recipient' \in [Recipients -> RecipientRow]
      BY <1>2, <2>10, RowTyped DEF FailRow, TypeOK, RecipientStatus
    <3>3. cause' \in [Recipients -> SUBSET Causes]
      BY <1>2, <2>10, CauseTyped DEF FailRow, Listed, TypeOK, Causes
    <3> QED
      BY <1>2, <2>10, <3>1, <3>2, <3>3 DEF FailRow, TypeOK, StepsWellFormed
  <2>11. ASSUME NEW t \in Ticks, CrashTick(t) PROVE Goal
    <3>1. Ticking
      BY <1>2, <2>11, LeaveTyped, RestTyped, TickTyped DEF CrashTick
    <3>2. cause' \in [Recipients -> SUBSET Causes] /\ faults' \in 0..MaxFaults
      BY <1>2, <2>11, CauseTyped DEF CrashTick, Fault, TypeOK, Causes
    <3> QED
      BY <1>2, <2>11, <3>1, <3>2 DEF CrashTick, TypeOK, StepsWellFormed
  <2>12. ASSUME NEW r \in Recipients, Age(r) PROVE Goal
    <3>1. [recipient[r] EXCEPT !.claimedAt = "stale"] \in RecipientRow
      BY <1>2 DEF TypeOK, RecipientRow
    <3> QED
      BY <1>2, <2>12, <3>1 DEF Age, TypeOK, StepsWellFormed
  <2>13. ASSUME NEW t \in Ticks, ListStaleClaims(t) PROVE Goal
    <3> DEFINE stale == {r \in StaleClaims : ~recipient[r].linked}
               s == [NoTick EXCEPT !.step = "revert", !.rows = stale]
    <3>1. s \in TickState /\ WellFormed(s)
      BY DEF NoTick, TickState, TickSteps, WellFormed, StaleClaims
    <3>2. tick' = [tick EXCEPT ![t] = NoTick] \/ tick' = [tick EXCEPT ![t] = s]
      BY <2>13 DEF ListStaleClaims
    <3>3. Ticking
      BY <1>2, <3>1, <3>2, RestTyped, TickTyped
    <3> QED
      BY <1>2, <2>13, <3>3 DEF ListStaleClaims, TypeOK, StepsWellFormed
  <2>14. ASSUME NEW t \in Ticks, RevertClaims(t) PROVE Goal
    <3>1. Ticking
      BY <1>2, <2>14, RestTyped, TickTyped DEF RevertClaims
    <3> QED
      BY <1>2, <2>14, <3>1, RevertTyped DEF RevertClaims, TypeOK, StepsWellFormed
  <2>15. CASE ListForHealth
    BY <1>2, <2>15 DEF ListForHealth, StaleClaims, TypeOK, StepsWellFormed
  <2>16. CASE RevertForHealth
    BY <1>2, <2>16, RevertTyped DEF RevertForHealth, TypeOK, StepsWellFormed
  <2>17. CASE Pause \/ Resume
    BY <1>2, <2>17 DEF Pause, Resume, TypeOK, StepsWellFormed, CampaignStatus
  <2>18. CASE LoadForCancel
    BY <1>2, <2>18 DEF LoadForCancel, TypeOK, StepsWellFormed, CancelState, CancelSteps
  <2>19. CASE CancelCampaign
    BY <1>2, <2>19 DEF CancelCampaign, TypeOK, StepsWellFormed, CampaignStatus,
       CancelState, CancelSteps
  <2>20. CASE ListUnsent
    <3>1. cancel' \in CancelState /\ (cancel'.step # "skip" => cancel'.rows = {})
      <4>1. CASE cancel' \in {[NoCancel EXCEPT !.step = "done"],
                              [NoCancel EXCEPT !.step = "gaveUp"]}
        BY <4>1 DEF NoCancel, CancelState, CancelSteps
      <4>2. CASE /\ cancel.passes # MaxPasses
                 /\ \E page \in Pages(Unsent, PageSize) :
                      cancel' = [step |-> "skip", rows |-> page,
                                 passes |-> cancel.passes + 1]
        <5>1. PICK page \in Pages(Unsent, PageSize) :
                 cancel' = [step |-> "skip", rows |-> page, passes |-> cancel.passes + 1]
          BY <4>2
        <5>2. page \subseteq Recipients
          BY <5>1, PageIsOfRows DEF Unsent
        <5>3. cancel.passes + 1 \in 0..MaxPasses
          BY <1>2, <4>2 DEF TypeOK, CancelState
        <5> QED
          BY <5>1, <5>2, <5>3 DEF CancelState, CancelSteps
      <4> QED
        BY <2>20, <4>1, <4>2 DEF ListUnsent
    <3> QED
      BY <1>2, <2>20, <3>1 DEF ListUnsent, TypeOK, StepsWellFormed
  <2>21. CASE SkipUnsent
    <3>1. \A r \in Recipients :
             /\ [recipient[r] EXCEPT !.status = "SKIPPED", !.claimedAt = "null"]
                   \in RecipientRow
             /\ cause[r] \union {"skipped"} \in SUBSET Causes
      <4>1. ASSUME NEW r \in Recipients
            PROVE  [recipient[r] EXCEPT !.status = "SKIPPED", !.claimedAt = "null"]
                      \in RecipientRow
        <5>1. recipient[r] \in RecipientRow
          BY <1>2 DEF TypeOK
        <5> QED
          BY <5>1 DEF RecipientRow, RecipientStatus
      <4>2. ASSUME NEW r \in Recipients
            PROVE  cause[r] \union {"skipped"} \in SUBSET Causes
        <5>1. cause[r] \in SUBSET Causes
          BY <1>2 DEF TypeOK
        <5> QED
          BY <5>1 DEF Causes
      <4> QED
        BY <4>1, <4>2
    <3>2. recipient' \in [Recipients -> RecipientRow]
      BY <1>2, <2>21, <3>1 DEF SkipUnsent, Skipped, TypeOK
    <3>3. cause' \in [Recipients -> SUBSET Causes]
      BY <1>2, <2>21, <3>1 DEF SkipUnsent, TypeOK
    <3>4. cancel' \in CancelState /\ cancel'.rows = {}
      BY <1>2, <2>21 DEF SkipUnsent, TypeOK, CancelState, CancelSteps
    <3> QED
      BY <1>2, <2>21, <3>2, <3>3, <3>4 DEF SkipUnsent, TypeOK, StepsWellFormed
  <2>22. CASE CrashCancel
    BY <1>2, <2>22 DEF CrashCancel, Fault, NoCancel, TypeOK, StepsWellFormed,
       CancelState, CancelSteps
  <2>23. CASE UNCHANGED vars
    BY <1>2, <2>23 DEF vars, TypeOK, StepsWellFormed
  <2> QED
    BY <1>2, <2>1, <2>2, <2>3, <2>4, <2>5, <2>6, <2>7, <2>8, <2>9, <2>10, <2>11,
       <2>12, <2>13, <2>14, <2>15, <2>16, <2>17, <2>18, <2>19, <2>20, <2>21,
       <2>22, <2>23
       DEF Next, TickStep, HealthStep, CancelStep
<1> QED
  BY <1>1, <1>2, PTL DEF Spec

\* Every state of a run has the declared shape (wa-campaign-runner, the health
\* check and the cancel route).
THEOREM TypeCorrect == Spec => []TypeOK
  BY TypeInvariant, PTL

-----------------------------------------------------------------------------
(***************************************************************************)
(* What a step can do to a row, to a tick's hold on it and to its history. *)
(***************************************************************************)
\* The actions of a step, for the case distinctions below.
LEMMA StepCases ==
    ASSUME [Next]_vars
    PROVE  \/ \E t \in Ticks :
                 \/ StartTick(t) \/ StopCampaign(t) \/ CountPending(t)
                 \/ CountClaimed(t) \/ Complete(t) \/ SelectPending(t)
                 \/ Claim(t) \/ LinkMessage(t) \/ FailRow(t) \/ CrashTick(t)
                 \/ ListStaleClaims(t) \/ RevertClaims(t)
                 \/ \E r \in Recipients, made \in 0..2 : CreateMessage(t, r, made)
           \/ \E r \in Recipients : Age(r)
           \/ ListForHealth \/ RevertForHealth \/ Pause \/ Resume
           \/ LoadForCancel \/ CancelCampaign \/ ListUnsent \/ SkipUnsent
           \/ CrashCancel
           \/ UNCHANGED vars
  BY DEF Next, TickStep, HealthStep, CancelStep

\* The history of causes only grows.
LEMMA CauseGrows ==
    ASSUME TypeOK, [Next]_vars, NEW r \in Recipients
    PROVE  cause[r] \subseteq cause'[r]
<1> USE DEF TypeOK
<1>1. ASSUME NEW q, NEW c, cause' = [cause EXCEPT ![q] = @ \union {c}]
      PROVE  cause[r] \subseteq cause'[r]
  BY <1>1
<1>2. ASSUME NEW q, Listed(q) PROVE cause[r] \subseteq cause'[r]
  BY <1>1, <1>2 DEF Listed
<1>3. ASSUME NEW rows, Revert(rows) PROVE cause[r] \subseteq cause'[r]
  BY <1>3 DEF Revert
<1>4. ASSUME NEW t \in Ticks, CrashTick(t) PROVE cause[r] \subseteq cause'[r]
  BY <1>1, <1>4 DEF CrashTick
<1>5. ASSUME NEW t \in Ticks, LinkMessage(t) \/ FailRow(t)
      PROVE  cause[r] \subseteq cause'[r]
  BY <1>2, <1>5 DEF LinkMessage, FailRow
<1>6. ASSUME NEW t \in Ticks, NEW q \in Recipients, NEW made \in 0..2,
             CreateMessage(t, q, made)
      PROVE  cause[r] \subseteq cause'[r]
  BY <1>1, <1>6 DEF CreateMessage
<1>7. CASE SkipUnsent
  BY <1>7 DEF SkipUnsent
<1> QED
  BY <1>3, <1>4, <1>5, <1>6, <1>7, StepCases
     DEF StartTick, StopCampaign, CountPending, CountClaimed, Complete,
         SelectPending, Claim, ListStaleClaims, RevertClaims, Age, ListForHealth,
         RevertForHealth, Pause, Resume, LoadForCancel, CancelCampaign,
         ListUnsent, CrashCancel, vars

\* The moves of a row.
ClaimedNow(r) ==
    /\ recipient[r].status = "PENDING"
    /\ recipient'[r].status = "CLAIMED"
    /\ recipient'[r].claimedAt = "fresh"
    /\ messages' = messages

SettledNow(r) ==
    /\ recipient'[r].status \in {"QUEUED", "FAILED"}
    /\ messages' = messages
    /\ r \in cancel.rows => "skipped" \in cause'[r]
    /\ \E t \in Ticks : Current(t, r) /\ ~Holds(t, r)'

AgedNow(r) ==
    /\ recipient[r].status = "CLAIMED"
    /\ recipient'[r].status = "CLAIMED"
    /\ ~Held(r)
    /\ messages' = messages /\ tick' = tick

RevertedNow(r) ==
    /\ recipient'[r].status = "PENDING"
    /\ \/ Reverted(r)'
       \/ recipient[r].status = "CLAIMED" /\ recipient[r].claimedAt = "stale"
    /\ Completing => "recount" \in cause'[r]
    /\ messages' = messages

SkippedNow(r) ==
    /\ recipient'[r].status = "SKIPPED"
    /\ r \in cancel.rows /\ cancel'.rows = {}
    /\ Held(r) => "skipped" \in cause'[r]
    /\ messages' = messages /\ tick' = tick

\* A step changes a row in one of these ways only, whoever takes it.
LEMMA RowStep ==
    ASSUME TypeOK, StepsWellFormed, [Next]_vars, NEW r \in Recipients
    PROVE  \/ recipient'[r] = recipient[r]
           \/ ClaimedNow(r) \/ SettledNow(r) \/ AgedNow(r)
           \/ RevertedNow(r) \/ SkippedNow(r)
<1> DEFINE Goal == \/ recipient'[r] = recipient[r]
                   \/ ClaimedNow(r) \/ SettledNow(r) \/ AgedNow(r)
                   \/ RevertedNow(r) \/ SkippedNow(r)
<1> USE DEF TypeOK
<1>1. ASSUME NEW t \in Ticks, Claim(t) PROVE Goal
  <2>1. CASE r \in tick[t].rows \intersect Pending
    <3>1. recipient'[r] = [recipient[r] EXCEPT !.status = "CLAIMED",
                                               !.claimedAt = "fresh"]
      BY <1>1, <2>1 DEF Claim, Claimed
    <3>2. recipient[r] \in RecipientRow
      OBVIOUS
    <3> QED
      BY <1>1, <2>1, <3>1, <3>2 DEF ClaimedNow, Claim, Pending, RecipientRow
  <2>2. CASE r \notin tick[t].rows \intersect Pending
    BY <1>1, <2>2 DEF Claim, Claimed
  <2> QED
    BY <2>1, <2>2
<1>2. ASSUME NEW t \in Ticks, tick[t].step \in {"link", "fail"}, NextRow(t),
             NEW s \in {"QUEUED", "FAILED"}, NEW rec,
             recipient' = rec,
             rec \in {[recipient EXCEPT ![tick[t].current].status = s],
                      [recipient EXCEPT ![tick[t].current].status = s,
                                        ![tick[t].current].linked = TRUE]},
             Listed(tick[t].current), messages' = messages
      PROVE  Goal
  <2>1. tick[t] \in TickState /\ WellFormed(tick[t])
    BY DEF StepsWellFormed
  <2>2. CASE r = tick[t].current
    <3>1. recipient'[r].status = s
      BY <1>2, <2>2 DEF RecipientRow
    <3>2. r \in cancel.rows => "skipped" \in cause'[r]
      BY <1>2, <2>2 DEF Listed
    <3>3. Current(t, r)
      BY <1>2, <2>2 DEF Current
    <3>4. ~Holds(t, r)'
      <4>1. r \notin tick[t].rows
        BY <1>2, <2>1, <2>2 DEF WellFormed
      <4>2. CASE tick[t].rows = {}
        BY <1>2, <4>2 DEF NextRow, Leave, NoTick, Holds
      <4>3. CASE tick[t].rows # {}
        <5>1. tick'[t] = [tick[t] EXCEPT !.step = "queue", !.current = None]
          BY <1>2, <4>3 DEF NextRow
        <5>2. tick'[t].rows = tick[t].rows /\ tick'[t].current = None
          BY <2>1, <5>1 DEF TickState
        <5> QED
          BY <4>1, <5>2, CampaignClaimsAssumption DEF Holds
      <4> QED
        BY <4>2, <4>3
    <3> QED
      BY <1>2, <3>1, <3>2, <3>3, <3>4 DEF SettledNow
  <2>3. CASE r # tick[t].current
    BY <1>2, <2>3
  <2> QED
    BY <2>2, <2>3
<1>3. ASSUME NEW t \in Ticks, LinkMessage(t) PROVE Goal
  BY <1>2, <1>3 DEF LinkMessage
<1>4. ASSUME NEW t \in Ticks, FailRow(t) PROVE Goal
  BY <1>2, <1>4 DEF FailRow
<1>5. ASSUME NEW rows, Revert(rows), messages' = messages PROVE Goal
  <2>1. CASE r \in rows
    <3>1. /\ recipient'[r] = [recipient[r] EXCEPT !.status = "PENDING",
                                                  !.claimedAt = "null"]
          /\ cause'[r] = cause[r]
                \union (IF r \in StaleClaims THEN {} ELSE {"reverted"})
                \union (IF Completing THEN {"recount"} ELSE {})
      BY <1>5, <2>1 DEF Revert
    <3>2. recipient[r] \in RecipientRow
      OBVIOUS
    <3>3. r \in StaleClaims => /\ recipient[r].status = "CLAIMED"
                               /\ recipient[r].claimedAt = "stale"
      BY DEF StaleClaims
    <3> QED
      BY <1>5, <3>1, <3>2, <3>3 DEF RevertedNow, Reverted, RecipientRow
  <2>2. CASE r \notin rows
    BY <1>5, <2>2 DEF Revert
  <2> QED
    BY <2>1, <2>2
<1>6. ASSUME NEW q \in Recipients, Age(q) PROVE Goal
  <2>1. CASE q = r
    <3>1. recipient'[r] = [recipient[r] EXCEPT !.claimedAt = "stale"]
      BY <1>6, <2>1 DEF Age
    <3>2. recipient[r] \in RecipientRow
      OBVIOUS
    <3>3. recipient'[r].status = recipient[r].status
      BY <3>1, <3>2 DEF RecipientRow
    <3> QED
      BY <1>6, <2>1, <3>3 DEF Age, AgedNow
  <2>2. CASE q # r
    BY <1>6, <2>2 DEF Age
  <2> QED
    BY <2>1, <2>2
<1>7. CASE SkipUnsent
  <2>1. CASE r \in cancel.rows
    <3>1. recipient'[r] = [recipient[r] EXCEPT !.status = "SKIPPED",
                                               !.claimedAt = "null"]
      BY <1>7, <2>1 DEF SkipUnsent, Skipped
    <3>2. recipient[r] \in RecipientRow
      OBVIOUS
    <3>3. Held(r) => "skipped" \in cause'[r]
      BY <1>7, <2>1 DEF SkipUnsent
    <3>4. cancel'.rows = {}
      BY <1>7 DEF SkipUnsent, CancelState
    <3> QED
      BY <1>7, <2>1, <3>1, <3>2, <3>3, <3>4 DEF SkipUnsent, SkippedNow, RecipientRow
  <2>2. CASE r \notin cancel.rows
    BY <1>7, <2>2 DEF SkipUnsent, Skipped
  <2> QED
    BY <2>1, <2>2
<1>8. ASSUME NEW t \in Ticks, CrashTick(t) PROVE Goal
  BY <1>8 DEF CrashTick
<1>9. ASSUME NEW t \in Ticks, RevertClaims(t) PROVE Goal
  BY <1>5, <1>9 DEF RevertClaims
<1>10. CASE RevertForHealth
  BY <1>5, <1>10 DEF RevertForHealth
<1> HIDE DEF Goal
<1>11. CASE recipient' = recipient
  BY <1>11 DEF Goal
<1> QED
  BY <1>1, <1>3, <1>4, <1>6, <1>7, <1>8, <1>9, <1>10, <1>11, StepCases
     DEF StartTick, StopCampaign, CountPending, CountClaimed, Complete,
         SelectPending, ListStaleClaims, CreateMessage, ListForHealth,
         Pause, Resume, LoadForCancel, CancelCampaign,
         ListUnsent, CrashCancel, vars, Goal

\* What a tick does to its hold on a row: only a claim takes one up.
NewHold(t, r) ==
    /\ ClaimedNow(r)
    /\ \A u \in Ticks \ {t} : tick'[u] = tick[u]
    /\ tick'[t].step = "queue"
    /\ cause' = cause

\* A tick holds no row it did not hold, unless it has just claimed it
\* (claimPendingRecipients).
LEMMA HoldStep ==
    ASSUME TypeOK, StepsWellFormed, [Next]_vars,
           NEW r \in Recipients, NEW t \in Ticks
    PROVE  /\ Waits(t, r)' => Waits(t, r) \/ NewHold(t, r)
           /\ Holds(t, r)' => Holds(t, r) \/ NewHold(t, r)
<1> DEFINE Goal == /\ Waits(t, r)' => Waits(t, r) \/ NewHold(t, r)
                   /\ Holds(t, r)' => Holds(t, r) \/ NewHold(t, r)
<1> USE DEF TypeOK
<1>t. tick[t] \in TickState /\ WellFormed(tick[t])
  BY DEF StepsWellFormed
<1>1. CASE tick'[t] = tick[t]
  BY <1>1 DEF Waits, Holds
<1>2. CASE tick'[t].step \notin {"queue", "link", "fail"}
  BY <1>2 DEF Waits, Holds
<1>3. CASE NextRow(t) /\ tick[t].step \in {"link", "fail"}
  <2>1. CASE tick[t].rows = {}
    BY <1>2, <1>3, <2>1 DEF NextRow, Leave, NoTick
  <2>2. CASE tick[t].rows # {}
    <3>1. tick'[t] = [tick[t] EXCEPT !.step = "queue", !.current = None]
      BY <1>3, <2>2 DEF NextRow
    <3>2. tick'[t].rows = tick[t].rows /\ tick'[t].current = None
      BY <1>t, <3>1 DEF TickState
    <3> QED
      BY <1>3, <3>2, CampaignClaimsAssumption DEF Waits, Holds
  <2> QED
    BY <2>1, <2>2
<1>4. CASE Claim(t)
  <2>1. CASE /\ tick' = [tick EXCEPT ![t].step = "queue",
                                     ![t].rows = tick[t].rows \intersect Pending]
    <3>1. tick'[t] = [tick[t] EXCEPT !.step = "queue",
                                     !.rows = tick[t].rows \intersect Pending]
      BY <2>1
    <3>2. /\ tick'[t].step = "queue"
          /\ tick'[t].rows = tick[t].rows \intersect Pending
          /\ tick'[t].current = None
      BY <1>t, <1>4, <3>1 DEF TickState, WellFormed, Claim
    <3>3. Holds(t, r)' \/ Waits(t, r)' => r \in tick[t].rows \intersect Pending
      BY <3>2, CampaignClaimsAssumption DEF Holds, Waits
    <3>4. ASSUME r \in tick[t].rows \intersect Pending PROVE ClaimedNow(r)
      <4>1. recipient'[r] = [recipient[r] EXCEPT !.status = "CLAIMED",
                                                 !.claimedAt = "fresh"]
        BY <1>4, <3>4 DEF Claim, Claimed
      <4>2. recipient[r] \in RecipientRow
        OBVIOUS
      <4> QED
        BY <1>4, <3>4, <4>1, <4>2 DEF ClaimedNow, Claim, Pending, RecipientRow
    <3>5. \A u \in Ticks \ {t} : tick'[u] = tick[u]
      BY <2>1
    <3> QED
      BY <1>4, <3>2, <3>3, <3>4, <3>5 DEF NewHold, Claim
  <2>2. CASE Leave(t)
    BY <1>2, <2>2 DEF Leave, NoTick
  <2> QED
    BY <1>4, <2>1, <2>2 DEF Claim
<1>5. ASSUME NEW q \in Recipients, NEW made \in 0..2, CreateMessage(t, q, made)
      PROVE  Goal
  <2>1. PICK step \in {"link", "fail"} :
           tick' = [tick EXCEPT ![t] = [step |-> step, rows |-> @.rows \ {q},
                                        current |-> q]]
    BY <1>5 DEF CreateMessage
  <2>2. tick'[t] = [step |-> step, rows |-> tick[t].rows \ {q}, current |-> q]
    BY <2>1
  <2> QED
    BY <1>5, <2>2 DEF CreateMessage, Waits, Holds
<1>6. CASE LinkMessage(t)
  <2>1. CASE Goto(t, "fail")
    <3>1. tick'[t] = [tick[t] EXCEPT !.step = "fail"]
      BY <2>1 DEF Goto
    <3>2. tick'[t].rows = tick[t].rows /\ tick'[t].current = tick[t].current
      BY <1>t, <3>1 DEF TickState
    <3> QED
      BY <1>6, <3>2 DEF LinkMessage, Waits, Holds
  <2> QED
    BY <1>3, <1>6, <2>1 DEF LinkMessage
<1>7. CASE FailRow(t)
  BY <1>3, <1>7 DEF FailRow
<1>8. ASSUME NEW s \in {"pending", "sweep", "claimed", "complete", "select"}, Goto(t, s)
      PROVE  Goal
  <2>1. tick'[t] = [tick[t] EXCEPT !.step = s]
    BY <1>8 DEF Goto
  <2>2. tick'[t].step = s
    BY <1>t, <2>1 DEF TickState
  <2> QED
    BY <1>2, <2>2
<1>9. CASE Leave(t) \/ tick' = [tick EXCEPT ![t] = NoTick]
  BY <1>2, <1>9 DEF Leave, NoTick
<1>10. CASE StartTick(t) \/ CountPending(t)
  BY <1>8, <1>10 DEF StartTick, CountPending
<1>11. CASE CountClaimed(t)
  BY <1>8, <1>9, <1>11 DEF CountClaimed
<1>12. CASE SelectPending(t)
  <2>1. CASE Pending = {}
    BY <1>9, <1>12, <2>1 DEF SelectPending
  <2>2. CASE Pending # {}
    <3>1. PICK page :
             tick' = [tick EXCEPT ![t].step = "claim", ![t].rows = page]
      BY <1>12, <2>2 DEF SelectPending
    <3>2. tick'[t] = [tick[t] EXCEPT !.step = "claim", !.rows = page]
      BY <3>1
    <3>3. tick'[t].step = "claim"
      BY <1>t, <3>2 DEF TickState
    <3> QED
      BY <1>2, <3>3
  <2> QED
    BY <2>1, <2>2
<1>13. CASE ListStaleClaims(t)
  <2>1. tick'[t].step \notin {"queue", "link", "fail"}
    BY <1>13 DEF ListStaleClaims, NoTick
  <2> QED
    BY <1>2, <2>1
<1>14. CASE StopCampaign(t) \/ Complete(t) \/ CrashTick(t) \/ RevertClaims(t)
  BY <1>9, <1>14 DEF StopCampaign, Complete, CrashTick, RevertClaims
<1>15. ASSUME NEW x \in Ticks, x # t,
              \/ StartTick(x) \/ StopCampaign(x) \/ CountPending(x)
              \/ CountClaimed(x) \/ Complete(x) \/ SelectPending(x)
              \/ Claim(x) \/ LinkMessage(x) \/ FailRow(x) \/ CrashTick(x)
              \/ ListStaleClaims(x) \/ RevertClaims(x)
              \/ \E q \in Recipients, made \in 0..2 : CreateMessage(x, q, made)
       PROVE  tick'[t] = tick[t]
  BY <1>15 DEF StartTick, StopCampaign, CountPending, CountClaimed, Complete,
     SelectPending, Claim, LinkMessage, FailRow, CrashTick, ListStaleClaims,
     RevertClaims, CreateMessage, Goto, Leave, NextRow
<1>16. CASE tick' = tick
  BY <1>1, <1>16
<1> HIDE DEF Goal
<1> QED
  BY <1>1, <1>4, <1>5, <1>6, <1>7, <1>10, <1>11, <1>12, <1>13, <1>14, <1>15,
     <1>16, StepCases
     DEF Age, ListForHealth, RevertForHealth, Pause, Resume, LoadForCancel,
         CancelCampaign, ListUnsent, SkipUnsent, CrashCancel, vars, Goal

\* A tick leaves the row it is queueing by settling it, or by dying.
LEMMA CurrentStep ==
    ASSUME TypeOK, StepsWellFormed, [Next]_vars,
           NEW r \in Recipients, NEW t \in Ticks, Current(t, r)
    PROVE  \/ Current(t, r)'
           \/ Excused(r)'
           \/ recipient'[r].status \in {"QUEUED", "FAILED"}
<1> DEFINE Goal == \/ Current(t, r)'
                   \/ Excused(r)'
                   \/ recipient'[r].status \in {"QUEUED", "FAILED"}
<1> USE DEF TypeOK
<1>t. /\ tick[t] \in TickState
      /\ tick[t].step \in {"link", "fail"}
      /\ r = tick[t].current
  BY DEF Current
<1>1. CASE tick'[t] = tick[t]
  BY <1>1 DEF Current
<1>2. CASE LinkMessage(t)
  <2>1. CASE Goto(t, "fail")
    <3>1. tick'[t] = [tick[t] EXCEPT !.step = "fail"]
      BY <2>1 DEF Goto
    <3>2. tick'[t].step = "fail" /\ tick'[t].current = r
      BY <1>t, <3>1 DEF TickState
    <3> QED
      BY <3>2 DEF Current
  <2>2. CASE recipient' = [recipient EXCEPT ![r].status = "QUEUED", ![r].linked = TRUE]
    BY <2>2 DEF RecipientRow
  <2> QED
    BY <1>t, <1>2, <2>1, <2>2 DEF LinkMessage
<1>3. CASE FailRow(t)
  BY <1>t, <1>3 DEF FailRow, RecipientRow
<1>4. CASE CrashTick(t)
  <2>1. "crash" \in cause'[r]
    BY <1>t, <1>4 DEF CrashTick
  <2> QED
    BY <2>1 DEF Excused
<1>5. ASSUME NEW x \in Ticks,
             \/ StartTick(x) \/ StopCampaign(x) \/ CountPending(x)
             \/ CountClaimed(x) \/ Complete(x) \/ SelectPending(x)
             \/ Claim(x) \/ ListStaleClaims(x) \/ RevertClaims(x)
             \/ \E q \in Recipients, made \in 0..2 : CreateMessage(x, q, made)
      PROVE  tick'[t] = tick[t]
  <2>1. x # t
    BY <1>t, <1>5 DEF StartTick, StopCampaign, CountPending, CountClaimed, Complete,
       SelectPending, Claim, ListStaleClaims, RevertClaims, CreateMessage
  <2> QED
    BY <1>5, <2>1 DEF StartTick, StopCampaign, CountPending, CountClaimed, Complete,
       SelectPending, Claim, ListStaleClaims, RevertClaims, CreateMessage, Goto, Leave
<1>6. ASSUME NEW x \in Ticks, x # t, LinkMessage(x) \/ FailRow(x) \/ CrashTick(x)
      PROVE  tick'[t] = tick[t]
  BY <1>6 DEF LinkMessage, FailRow, CrashTick, Goto, Leave, NextRow
<1>7. CASE tick' = tick
  BY <1>1, <1>7
<1> HIDE DEF Goal
<1> QED
  BY <1>1, <1>2, <1>3, <1>4, <1>5, <1>6, <1>7, StepCases
     DEF Age, ListForHealth, RevertForHealth, Pause, Resume, LoadForCancel,
         CancelCampaign, ListUnsent, SkipUnsent, CrashCancel, vars, Goal

\* A message is created for a row a tick was waiting to queue, which it then is
\* queueing; a second one at once has the timeout for its cause.
CreatedNow(t, r) ==
    /\ Waits(t, r)
    /\ Current(t, r)' /\ ~Waits(t, r)'
    /\ \A u \in Ticks \ {t} : tick'[u] = tick[u]
    /\ messages'[r] = messages[r] + 1 \/ Excused(r)'
    /\ recipient' = recipient

\* queueOutbound is the only write that creates messages.
LEMMA MessageStep ==
    ASSUME TypeOK, [Next]_vars, NEW r \in Recipients
    PROVE  messages'[r] = messages[r] \/ \E t \in Ticks : CreatedNow(t, r)
<1> USE DEF TypeOK
<1>1. ASSUME NEW t \in Ticks, NEW q \in Recipients, NEW made \in 0..2,
             CreateMessage(t, q, made)
      PROVE  messages'[r] = messages[r] \/ CreatedNow(t, r)
  <2>1. PICK step \in {"link", "fail"} :
           /\ step = "link" => made > 0
           /\ tick' = [tick EXCEPT ![t] = [step |-> step, rows |-> @.rows \ {q},
                                           current |-> q]]
           /\ IF made > (IF step = "link" THEN 1 ELSE 0)
              THEN Fault /\ cause' = [cause EXCEPT ![q] = @ \union {"timeout"}]
              ELSE UNCHANGED <<faults, cause>>
    BY <1>1 DEF CreateMessage
  <2>2. tick'[t] = [step |-> step, rows |-> tick[t].rows \ {q}, current |-> q]
    BY <2>1
  <2>3. CASE r = q
    <3>1. Waits(t, r) /\ Current(t, r)' /\ ~Waits(t, r)'
      BY <1>1, <2>2, <2>3 DEF CreateMessage, Waits, Current
    <3>2. messages'[r] = messages[r] + made
      BY <1>1, <2>3 DEF CreateMessage
    <3>3. CASE made = 0
      BY <3>2, <3>3
    <3>4. CASE made = 1
      BY <1>1, <2>1, <3>1, <3>2, <3>4 DEF CreateMessage, CreatedNow
    <3>5. CASE made = 2
      <4>1. cause'[r] = cause[r] \union {"timeout"}
        BY <2>1, <2>3, <3>5
      <4> QED
        BY <1>1, <2>1, <3>1, <4>1 DEF CreateMessage, CreatedNow, Excused
    <3> QED
      BY <3>3, <3>4, <3>5
  <2>4. CASE r # q
    BY <1>1, <2>4 DEF CreateMessage
  <2> QED
    BY <2>3, <2>4
<1>2. CASE messages' = messages
  BY <1>2
<1> QED
  BY <1>1, <1>2, StepCases
     DEF StartTick, StopCampaign, CountPending, CountClaimed, Complete,
         SelectPending, Claim, LinkMessage, FailRow, CrashTick, ListStaleClaims,
         RevertClaims, Age, ListForHealth, RevertForHealth, Pause, Resume,
         LoadForCancel, CancelCampaign, ListUnsent, SkipUnsent, CrashCancel, vars

-----------------------------------------------------------------------------
(***************************************************************************)
(* The claim.                                                              *)
(***************************************************************************)
\* A tick that takes up a hold takes it up of a PENDING row: had another tick
\* held that row, a sweep with an old list had put it back.
LEMMA ClaimInvariant ==
    Spec => [](HoldersHoldClaims /\ ClaimsAreExclusive)
<1>1. Init => HoldersHoldClaims /\ ClaimsAreExclusive
  BY DEF Init, HoldersHoldClaims, ClaimsAreExclusive, Holds, NoTick
<1>2. ASSUME TypeOK, StepsWellFormed, HoldersHoldClaims, ClaimsAreExclusive,
             [Next]_vars
      PROVE  HoldersHoldClaims' /\ ClaimsAreExclusive'
  <2>1. ASSUME NEW r \in Recipients, Reverted(r) PROVE Reverted(r)'
    BY <1>2, <2>1, CauseGrows DEF Reverted
  <2>2. ASSUME NEW r \in Recipients, NEW t \in Ticks, Holds(t, r)', ~Reverted(r)'
        PROVE  \/ recipient'[r].status = "CLAIMED" /\ recipient'[r].claimedAt = "fresh"
               \/ recipient'[r].status = "SKIPPED" /\ "skipped" \in cause'[r]
    <3> DEFINE Goal ==
            \/ recipient'[r].status = "CLAIMED" /\ recipient'[r].claimedAt = "fresh"
            \/ recipient'[r].status = "SKIPPED" /\ "skipped" \in cause'[r]
    <3>1. CASE NewHold(t, r)
      BY <3>1 DEF NewHold, ClaimedNow
    <3>2. CASE Holds(t, r)
      <4>1. \/ recipient[r].status = "CLAIMED" /\ recipient[r].claimedAt = "fresh"
            \/ recipient[r].status = "SKIPPED" /\ "skipped" \in cause[r]
        BY <1>2, <2>1, <2>2, <3>2 DEF HoldersHoldClaims
      <4>2. CASE recipient'[r] = recipient[r]
        BY <1>2, <4>1, <4>2, CauseGrows
      <4>3. CASE ClaimedNow(r)
        BY <4>1, <4>3 DEF ClaimedNow
      <4>4. CASE SettledNow(r)
        <5>1. PICK u \in Ticks : Current(u, r) /\ ~Holds(u, r)'
          BY <4>4 DEF SettledNow
        <5>2. Holds(u, r) /\ u # t
          BY <2>2, <5>1 DEF Current, Holds
        <5> QED
          BY <1>2, <2>1, <2>2, <3>2, <5>2 DEF ClaimsAreExclusive, Reverted
      <4>5. CASE AgedNow(r)
        BY <3>2, <4>5 DEF AgedNow, Held
      <4>6. CASE RevertedNow(r)
        BY <2>2, <4>1, <4>6 DEF RevertedNow
      <4>7. CASE SkippedNow(r)
        BY <3>2, <4>7 DEF SkippedNow, Held
      <4> QED
        BY <1>2, <4>2, <4>3, <4>4, <4>5, <4>6, <4>7, RowStep
    <3> QED
      BY <1>2, <2>2, <3>1, <3>2, HoldStep
  <2>3. ASSUME NEW r \in Recipients, NEW t \in Ticks, NEW u \in Ticks, t # u,
               Holds(t, r)', Holds(u, r)', ~Reverted(r)'
        PROVE  FALSE
    <3>1. ASSUME NEW x \in Ticks, NEW y \in Ticks, x # y, NewHold(x, r), Holds(y, r)'
          PROVE  FALSE
      <4>1. Holds(y, r)
        BY <3>1 DEF NewHold, Holds
      <4> QED
        BY <1>2, <2>1, <2>3, <3>1, <4>1 DEF HoldersHoldClaims, NewHold, ClaimedNow
    <3>2. Holds(t, r) /\ Holds(u, r)
      BY <1>2, <2>3, <3>1, HoldStep
    <3> QED
      BY <1>2, <2>1, <2>3, <3>2 DEF ClaimsAreExclusive, Reverted
  <2> QED
    BY <2>2, <2>3 DEF HoldersHoldClaims, ClaimsAreExclusive, Reverted
<1> QED
  BY <1>1, <1>2, TypeInvariant, PTL DEF Spec

\* Two overlapping ticks never hold one recipient, except one that a sweep with
\* an old list had put back (claimPendingRecipients).
THEOREM ClaimsCorrect == Spec => []ClaimsAreExclusive
  BY ClaimInvariant, PTL

-----------------------------------------------------------------------------
(***************************************************************************)
(* The messages.                                                           *)
(***************************************************************************)
\* A row that no crash, timeout or stale list has touched gets one message at
\* most, since its tick alone holds it until it is past its claim.
LEMMA MessageInvariant == Spec => []OneMessage
<1>1. Init => OneMessage
  BY DEF Init, OneMessage
<1>2. ASSUME TypeOK, StepsWellFormed, HoldersHoldClaims, ClaimsAreExclusive,
             OneMessage, [Next]_vars
      PROVE  OneMessage'
  <2> SUFFICES ASSUME NEW r \in Recipients, ~Excused(r)', messages'[r] # 0
               PROVE  /\ messages'[r] = 1
                      /\ recipient'[r].status # "PENDING"
                      /\ recipient'[r].status = "CLAIMED" =>
                            \E t \in Ticks : Current(t, r)'
                      /\ \A t \in Ticks : ~Waits(t, r)'
    BY DEF OneMessage
  <2>1. ~Excused(r) /\ ~Reverted(r) /\ ~Reverted(r)'
    BY <1>2, CauseGrows DEF Excused, Reverted
  <2>2. CASE messages'[r] = messages[r]
    <3>1. /\ messages[r] = 1
          /\ recipient[r].status # "PENDING"
          /\ recipient[r].status = "CLAIMED" => \E t \in Ticks : Current(t, r)
          /\ \A t \in Ticks : ~Waits(t, r)
      BY <1>2, <2>1, <2>2 DEF OneMessage
    <3>2. \A t \in Ticks : ~Waits(t, r)'
      BY <1>2, <3>1, HoldStep DEF NewHold, ClaimedNow
    <3>3. recipient'[r].status # "PENDING"
      <4>1. ASSUME RevertedNow(r) PROVE FALSE
        <5>1. recipient[r].status = "CLAIMED" /\ recipient[r].claimedAt = "stale"
          BY <2>1, <4>1 DEF RevertedNow
        <5>2. PICK t \in Ticks : Holds(t, r)
          BY <3>1, <5>1 DEF Current, Holds
        <5> QED
          BY <1>2, <2>1, <5>1, <5>2 DEF HoldersHoldClaims
      <4> QED
        BY <1>2, <3>1, <4>1, RowStep
           DEF ClaimedNow, SettledNow, AgedNow, SkippedNow
    <3>4. ASSUME recipient'[r].status = "CLAIMED"
          PROVE  \E t \in Ticks : Current(t, r)'
      <4>1. recipient[r].status = "CLAIMED"
        BY <1>2, <3>1, <3>4, RowStep
           DEF ClaimedNow, SettledNow, AgedNow, RevertedNow, SkippedNow
      <4>2. PICK t \in Ticks : Current(t, r)
        BY <3>1, <4>1
      <4>3. Current(t, r)'
        BY <1>2, <2>1, <3>4, <4>2, CurrentStep
      <4> QED
        BY <4>3
    <3> QED
      BY <2>2, <3>1, <3>2, <3>3, <3>4
  <2>3. CASE messages'[r] # messages[r]
    <3>1. PICK t \in Ticks : CreatedNow(t, r)
      BY <1>2, <2>3, MessageStep
    <3>2. Holds(t, r) /\ messages[r] = 0
      BY <1>2, <2>1, <3>1 DEF CreatedNow, OneMessage, Waits, Holds
    <3>3. messages'[r] = 1
      BY <2>1, <3>1, <3>2 DEF CreatedNow
    <3>4. recipient'[r].status # "PENDING"
      BY <1>2, <2>1, <3>1, <3>2 DEF CreatedNow, HoldersHoldClaims
    <3>5. ASSUME NEW u \in Ticks, Waits(u, r)' PROVE FALSE
      <4>1. u # t /\ Holds(u, r)
        BY <3>1, <3>5 DEF CreatedNow, Waits, Holds
      <4> QED
        BY <1>2, <2>1, <3>2, <4>1 DEF ClaimsAreExclusive, Reverted
    <3> QED
      BY <3>1, <3>3, <3>4, <3>5 DEF CreatedNow
  <2> QED
    BY <2>2, <2>3
<1> QED
  BY <1>1, <1>2, TypeInvariant, ClaimInvariant, PTL DEF Spec

\* No recipient is messaged twice, but for a tick that died, a lost answer and
\* a sweep that patched by an old list (queueOne, withRetry, sweepStaleClaims).
THEOREM MessagesCorrect == Spec => []SecondMessageHasACause
<1>1. TypeOK /\ OneMessage => SecondMessageHasACause
  BY DEF TypeOK, OneMessage, SecondMessageHasACause, Excused
<1> QED
  BY <1>1, MessageInvariant, TypeCorrect, PTL

-----------------------------------------------------------------------------
(***************************************************************************)
(* The ends of a campaign.                                                 *)
(***************************************************************************)
\* The cancel's list changes under it only with a note of it.
LEMMA ListInvariant == Spec => []ListIsNoted
<1>1. Init => ListIsNoted
  BY DEF Init, ListIsNoted, NoCancel
<1>2. ASSUME TypeOK, StepsWellFormed, ListIsNoted, [Next]_vars
      PROVE  ListIsNoted'
  <2> SUFFICES ASSUME NEW r \in cancel'.rows PROVE (r \in Unsent \/ "skipped" \in cause[r])'
    BY DEF ListIsNoted
  <2>1. CASE ListUnsent /\ cancel'.rows # cancel.rows
    <3>1. PICK page \in Pages(Unsent, PageSize) : cancel'.rows = page
      BY <1>2, <2>1 DEF ListUnsent, NoCancel, StepsWellFormed
    <3>2. r \in Unsent
      BY <3>1, PageIsOfRows
    <3> QED
      BY <2>1, <3>2 DEF ListUnsent, Unsent
  <2>2. CASE cancel'.rows = cancel.rows
    <3>1. r \in Recipients
      BY <1>2, <2>2 DEF TypeOK, CancelState
    <3>2. r \in Unsent \/ "skipped" \in cause[r]
      BY <1>2, <2>2 DEF ListIsNoted
    <3>3. CASE "skipped" \in cause[r]
      BY <1>2, <3>1, <3>3, CauseGrows
    <3>4. CASE r \in Unsent
      <4>1. ~SkippedNow(r)
        BY <2>2 DEF SkippedNow
      <4> QED
        BY <1>2, <2>2, <3>1, <3>4, <4>1, RowStep
           DEF ClaimedNow, SettledNow, AgedNow, RevertedNow, Unsent
    <3> QED
      BY <3>2, <3>3, <3>4
  <2>3. cancel'.rows = cancel.rows \/ cancel'.rows = {} \/ ListUnsent
    <3>1. SkipUnsent => cancel'.rows = {}
      BY <1>2 DEF SkipUnsent, TypeOK, CancelState
    <3>2. LoadForCancel \/ CancelCampaign => cancel'.rows = cancel.rows
      BY <1>2 DEF LoadForCancel, CancelCampaign, TypeOK, CancelState
    <3>3. CrashCancel => cancel'.rows = {}
      BY DEF CrashCancel, NoCancel
    <3> QED
      BY <1>2, <3>1, <3>2, <3>3, StepCases
         DEF StartTick, StopCampaign, CountPending, CountClaimed, Complete,
             SelectPending, Claim, LinkMessage, FailRow, CrashTick,
             ListStaleClaims, RevertClaims, CreateMessage, Age, ListForHealth,
             RevertForHealth, Pause, Resume, vars
  <2> QED
    BY <2>1, <2>2, <2>3
<1> QED
  BY <1>1, <1>2, TypeInvariant, PTL DEF Spec

\* A tick reaches the second count, and the write, by the count before it.
LEMMA CountStep ==
    ASSUME TypeOK, [Next]_vars, NEW t \in Ticks
    PROVE  /\ tick'[t].step = "claimed" =>
                 \/ tick[t].step = "claimed"
                 \/ Pending = {} /\ recipient' = recipient
           /\ tick'[t].step = "complete" =>
                 \/ tick[t].step = "complete"
                 \/ /\ tick[t].step = "claimed"
                    /\ ~\E r \in Recipients : recipient[r].status = "CLAIMED"
                    /\ recipient' = recipient /\ cause' = cause
<1> DEFINE Goal == /\ tick'[t].step = "claimed" =>
                         \/ tick[t].step = "claimed"
                         \/ Pending = {} /\ recipient' = recipient
                   /\ tick'[t].step = "complete" =>
                         \/ tick[t].step = "complete"
                         \/ /\ tick[t].step = "claimed"
                            /\ ~\E r \in Recipients : recipient[r].status = "CLAIMED"
                            /\ recipient' = recipient /\ cause' = cause
<1> USE DEF TypeOK
<1>t. tick[t] \in TickState
  OBVIOUS
<1>1. CASE tick'[t] = tick[t]
  BY <1>1
<1>2. CASE tick'[t].step \notin {"claimed", "complete"}
  BY <1>2
<1>3. CASE CountPending(t)
  BY <1>t, <1>3 DEF CountPending, Goto, TickState
<1>4. CASE CountClaimed(t)
  BY <1>t, <1>4 DEF CountClaimed, Goto, Leave, NoTick, TickState
<1>5. ASSUME NEW s \in {"pending", "sweep", "select", "fail"}, Goto(t, s) PROVE Goal
  BY <1>t, <1>5 DEF Goto, TickState
<1>6. CASE StartTick(t)
  BY <1>5, <1>6 DEF StartTick
<1>7. CASE Leave(t) \/ tick' = [tick EXCEPT ![t] = NoTick]
  BY <1>2, <1>7 DEF Leave, NoTick
<1>8. ASSUME NEW s \in {"claim", "queue"}, NEW rows,
             tick' = [tick EXCEPT ![t].step = s, ![t].rows = rows]
      PROVE  Goal
  <2>1. tick'[t].step = s
    BY <1>t, <1>8 DEF TickState
  <2> QED
    BY <1>2, <2>1
<1>9. CASE SelectPending(t)
  BY <1>7, <1>8, <1>9 DEF SelectPending
<1>10. CASE Claim(t)
  BY <1>7, <1>8, <1>10 DEF Claim
<1>11. CASE NextRow(t)
  <2>1. CASE tick[t].rows # {}
    <3>1. tick'[t].step = "queue"
      BY <1>t, <1>11, <2>1 DEF NextRow, TickState
    <3> QED
      BY <1>2, <3>1
  <2> QED
    BY <1>7, <1>11, <2>1 DEF NextRow
<1>12. CASE LinkMessage(t) \/ FailRow(t)
  BY <1>5, <1>11, <1>12 DEF LinkMessage, FailRow
<1>13. ASSUME NEW q \in Recipients, NEW made \in 0..2, CreateMessage(t, q, made)
       PROVE  Goal
  BY <1>2, <1>13 DEF CreateMessage
<1>14. CASE ListStaleClaims(t)
  <2>1. tick'[t].step \in {"idle", "revert"}
    BY <1>14 DEF ListStaleClaims, NoTick
  <2> QED
    BY <1>2, <2>1
<1>15. CASE StopCampaign(t) \/ Complete(t) \/ CrashTick(t) \/ RevertClaims(t)
  BY <1>7, <1>15 DEF StopCampaign, Complete, CrashTick, RevertClaims
<1>16. ASSUME NEW x \in Ticks, x # t,
              \/ StartTick(x) \/ StopCampaign(x) \/ CountPending(x)
              \/ CountClaimed(x) \/ Complete(x) \/ SelectPending(x)
              \/ Claim(x) \/ LinkMessage(x) \/ FailRow(x) \/ CrashTick(x)
              \/ ListStaleClaims(x) \/ RevertClaims(x)
              \/ \E q \in Recipients, made \in 0..2 : CreateMessage(x, q, made)
       PROVE  tick'[t] = tick[t]
  BY <1>16 DEF StartTick, StopCampaign, CountPending, CountClaimed, Complete,
     SelectPending, Claim, LinkMessage, FailRow, CrashTick, ListStaleClaims,
     RevertClaims, CreateMessage, Goto, Leave, NextRow
<1>17. CASE tick' = tick
  BY <1>1, <1>17
<1> HIDE DEF Goal
<1> QED
  BY <1>1, <1>3, <1>4, <1>6, <1>9, <1>10, <1>12, <1>13, <1>14, <1>15,
     <1>16, <1>17, StepCases
     DEF Age, ListForHealth, RevertForHealth, Pause, Resume, LoadForCancel,
         CancelCampaign, ListUnsent, SkipUnsent, CrashCancel, vars, Goal

\* Nobody comes back to a campaign that is being or has been completed, unless
\* a sweep moved the row and noted it.
LEMMA CompletionInvariant == Spec => [](CountsHold /\ CompletedMeansDone)
<1>1. Init => CountsHold /\ CompletedMeansDone
  BY DEF Init, CountsHold, CompletedMeansDone, NoTick
<1>2. ASSUME TypeOK, StepsWellFormed, CountsHold, CompletedMeansDone, [Next]_vars
      PROVE  CountsHold' /\ CompletedMeansDone'
  <2>1. \A r \in Recipients : cause[r] \subseteq cause'[r]
    BY <1>2, CauseGrows
  <2>2. \A r \in Recipients : r \in Pending' \ Pending => RevertedNow(r)
    BY <1>2, RowStep DEF Pending, ClaimedNow, SettledNow, AgedNow, SkippedNow
  <2>3. \A r \in Recipients : r \in Unsent' \ Unsent => RevertedNow(r)
    BY <1>2, RowStep DEF Unsent, ClaimedNow, SettledNow, AgedNow, SkippedNow
  <2>4. Pending' \subseteq Recipients /\ Unsent' \subseteq Recipients
    BY DEF Pending, Unsent
  <2>5. ASSUME NEW t \in Ticks, tick'[t].step = "claimed", NEW r \in Pending'
        PROVE  "recount" \in cause'[r]
    <3>1. CASE tick[t].step = "claimed"
      BY <1>2, <2>1, <2>2, <2>4, <2>5, <3>1 DEF CountsHold, RevertedNow, Completing
    <3>2. CASE Pending = {} /\ recipient' = recipient
      BY <2>5, <3>2 DEF Pending
    <3> QED
      BY <1>2, <2>5, <3>1, <3>2, CountStep
  <2>6. ASSUME NEW t \in Ticks, tick'[t].step = "complete", NEW r \in Unsent'
        PROVE  "recount" \in cause'[r]
    <3>1. CASE tick[t].step = "complete"
      BY <1>2, <2>1, <2>3, <2>4, <2>6, <3>1 DEF CountsHold, RevertedNow, Completing
    <3>2. CASE /\ tick[t].step = "claimed"
               /\ ~\E q \in Recipients : recipient[q].status = "CLAIMED"
               /\ recipient' = recipient /\ cause' = cause
      <4>1. r \in Pending
        BY <2>6, <3>2 DEF Unsent, Pending
      <4> QED
        BY <1>2, <3>2, <4>1 DEF CountsHold
    <3> QED
      BY <1>2, <2>6, <3>1, <3>2, CountStep
  <2>7. ASSUME campaign' = "COMPLETED", NEW r \in Unsent'
        PROVE  "recount" \in cause'[r]
    <3>1. CASE campaign = "COMPLETED"
      BY <1>2, <2>1, <2>3, <2>4, <2>7, <3>1
         DEF CompletedMeansDone, RevertedNow, Completing
    <3>2. CASE \E t \in Ticks : Complete(t)
      <4>1. r \in Unsent /\ cause' = cause
        BY <2>7, <3>2 DEF Complete, Unsent
      <4> QED
        BY <1>2, <3>2, <4>1 DEF Complete, CountsHold
    <3>3. campaign' = "COMPLETED" =>
             campaign = "COMPLETED" \/ \E t \in Ticks : Complete(t)
      BY <1>2, StepCases
         DEF StartTick, StopCampaign, CountPending, CountClaimed, SelectPending,
             Claim, LinkMessage, FailRow, CrashTick, ListStaleClaims,
             RevertClaims, CreateMessage, Age, ListForHealth, RevertForHealth,
             Pause, Resume, LoadForCancel, CancelCampaign, ListUnsent,
             SkipUnsent, CrashCancel, vars
    <3> QED
      BY <2>7, <3>1, <3>2, <3>3
  <2> QED
    BY <2>5, <2>6, <2>7 DEF CountsHold, CompletedMeansDone
<1> QED
  BY <1>1, <1>2, TypeInvariant, PTL DEF Spec

\* Once a page of the cancel has come back empty, only a sweep with an old list
\* makes a row unsent again.
LEMMA CancelInvariant == Spec => []CancelLeavesNobody
<1>1. Init => CancelLeavesNobody
  BY DEF Init, CancelLeavesNobody, NoCancel
<1>2. ASSUME TypeOK, StepsWellFormed, CancelLeavesNobody, [Next]_vars
      PROVE  CancelLeavesNobody'
  <2> SUFFICES ASSUME cancel'.step = "done", NEW r \in Unsent'
               PROVE  Reverted(r)'
    BY DEF CancelLeavesNobody, Reverted
  <2>1. r \in Recipients
    BY DEF Unsent
  <2>2. CASE cancel.step = "done"
    <3>1. r \in Unsent => Reverted(r)
      BY <1>2, <2>2 DEF CancelLeavesNobody, Reverted
    <3>2. Reverted(r) => Reverted(r)'
      BY <1>2, <2>1, CauseGrows DEF Reverted
    <3> QED
      BY <1>2, <2>1, <3>1, <3>2, RowStep
         DEF Unsent, ClaimedNow, SettledNow, AgedNow, RevertedNow, SkippedNow
  <2>3. CASE cancel.step # "done" /\ ListUnsent
    <3>1. Unsent = {}
      BY <2>3 DEF ListUnsent, NoCancel
    <3> QED
      BY <2>3, <3>1 DEF ListUnsent, Unsent
  <2>4. CASE cancel.step # "done" /\ cancel' # cancel /\ ~ListUnsent
    <3>1. LoadForCancel => cancel'.step = "loaded"
      BY <1>2 DEF LoadForCancel, TypeOK, CancelState
    <3>2. CancelCampaign \/ SkipUnsent => cancel'.step = "list"
      BY <1>2 DEF CancelCampaign, SkipUnsent, TypeOK, CancelState
    <3>3. CrashCancel => cancel'.step = "none"
      BY DEF CrashCancel, NoCancel
    <3> QED
      BY <1>2, <2>4, <3>1, <3>2, <3>3, StepCases
         DEF StartTick, StopCampaign, CountPending, CountClaimed, Complete,
             SelectPending, Claim, LinkMessage, FailRow, CrashTick,
             ListStaleClaims, RevertClaims, CreateMessage, Age, ListForHealth,
             RevertForHealth, Pause, Resume, vars
  <2> QED
    BY <2>2, <2>3, <2>4
<1> QED
  BY <1>1, <1>2, TypeInvariant, PTL DEF Spec

\* What a skip can be excused by: a fault, or a move noted on the row.
SkipExcused(r) == Excused(r) \/ "skipped" \in cause[r]

\* A SKIPPED row has no message, or a note of why it has.
LEMMA SkipInvariant == Spec => []SkippedMeansUnsent
<1>1. Init => SkippedMeansUnsent
  BY DEF Init, SkippedMeansUnsent
<1>2. ASSUME TypeOK, StepsWellFormed, HoldersHoldClaims, OneMessage, ListIsNoted,
             SkippedMeansUnsent, [Next]_vars
      PROVE  SkippedMeansUnsent'
  <2> SUFFICES ASSUME NEW r \in Recipients, recipient'[r].status = "SKIPPED",
                      messages'[r] > 0
               PROVE  SkipExcused(r)'
    BY DEF SkippedMeansUnsent, SkipExcused, Excused
  <2>1. SkipExcused(r) => SkipExcused(r)'
    BY <1>2, CauseGrows DEF SkipExcused, Excused
  <2>2. CASE messages'[r] # messages[r]
    <3>1. PICK t \in Ticks : CreatedNow(t, r)
      BY <1>2, <2>2, MessageStep
    <3>2. Holds(t, r) /\ recipient[r].status = "SKIPPED"
      BY <3>1 DEF CreatedNow, Waits, Holds
    <3> QED
      BY <1>2, <2>1, <3>2 DEF HoldersHoldClaims, SkipExcused, Excused, Reverted
  <2>3. CASE messages'[r] = messages[r] /\ recipient[r].status = "SKIPPED"
    BY <1>2, <2>1, <2>3 DEF SkippedMeansUnsent, SkipExcused, Excused
  <2>4. CASE messages'[r] = messages[r] /\ recipient[r].status # "SKIPPED"
    <3>1. SkippedNow(r)
      BY <1>2, <2>4, RowStep DEF ClaimedNow, SettledNow, AgedNow, RevertedNow
    <3>2. r \in Unsent \/ "skipped" \in cause[r]
      BY <1>2, <3>1 DEF ListIsNoted, SkippedNow
    <3>3. CASE "skipped" \in cause[r]
      BY <2>1, <3>3 DEF SkipExcused
    <3>4. CASE r \in Unsent /\ ~Excused(r)
      <4>1. PICK t \in Ticks : Current(t, r)
        BY <1>2, <2>4, <3>4 DEF OneMessage, Unsent, TypeOK
      <4>2. Held(r)
        BY <4>1 DEF Current, Held, Holds
      <4> QED
        BY <3>1, <4>2 DEF SkippedNow, SkipExcused
    <3> QED
      BY <2>1, <3>2, <3>3, <3>4 DEF SkipExcused
  <2> QED
    BY <2>2, <2>3, <2>4
<1> QED
  BY <1>1, <1>2, TypeInvariant, ClaimInvariant, MessageInvariant, ListInvariant,
     PTL DEF Spec

\* A COMPLETED campaign has reached everybody, and a cancel abandons everybody
\* it has not reached and nobody it has, but for the moves a sweep or a tick
\* makes at that moment (tickCampaign, abandonPending, sweepStaleClaims).
THEOREM EndsCorrect == Spec => []OverMeansOver
<1>1. CompletedMeansDone /\ CancelLeavesNobody /\ SkippedMeansUnsent => OverMeansOver
  BY DEF OverMeansOver
<1> QED
  BY <1>1, CompletionInvariant, CancelInvariant, SkipInvariant, PTL

=============================================================================
