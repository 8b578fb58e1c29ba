-------------------------- MODULE CampaignLifecycle --------------------------
(***************************************************************************)
(* The status of one campaign and everybody who moves it: the admin's      *)
(* requests (wa-campaign-control), the runner, the sender that stops a     *)
(* campaign on a content error, and the snapshot jobs that build its       *)
(* audience page by page.                                                  *)
(*                                                                         *)
(* All of them go through transitionCampaign, which validates the edge     *)
(* against the copy the caller read and then patches the row by id.  A     *)
(* request the copy refuses (409) changes nothing and is no step here;     *)
(* the account, the template and the audience definition only decide       *)
(* whether a step is taken.  The audience is never empty.                  *)
(***************************************************************************)
EXTENDS Integers, FiniteSets

CONSTANTS
    Actors,         \* invocations that can be running at once
    LastPage,       \* pages of the audience
    MaxBuilds,      \* bound: build requests
    MaxRetries      \* bound: snapshot jobs the queue runs again

ASSUME CampaignLifecycleAssumption ==
    /\ LastPage \in Nat \ {0}
    /\ MaxBuilds \in Nat
    /\ MaxRetries \in Nat

Pages == 1..LastPage

VARIABLES
    row,        \* the campaign row
    written,    \* the audience pages whose recipient rows are live
    jobs,       \* snapshot jobs queued, by page
    actor,      \* the running invocations
    builds,     \* build requests so far
    retries,    \* snapshot jobs run again so far
    cause       \* history: what has happened to the campaign

vars == <<row, written, jobs, actor, builds, retries, cause>>

Statuses == {"DRAFT", "SNAPSHOTTING", "READY", "SCHEDULED", "RUNNING", "PAUSED",
             "TIER_WAITING", "COMPLETED", "CANCELLED", "FAILED"}

\* statusReason by family: "guard" stands for every guardrail's reason.
Reasons == {"none", "edited", "building", "snapshot", "guard", "tier", "paused",
            "resumed", "cancelled", "completed"}

CampaignRow == [status : Statuses, reason : Reasons, archived : BOOLEAN,
                started : BOOLEAN, exists : BOOLEAN]

Roles == {"update", "build", "launch", "pause", "resume", "cancel", "delete",
          "archive", "unarchive", "due", "tier", "tick", "sender", "snapshot"}

ActorSteps == {"open", "retire", "enqueue", "fail", "row", "next", "note"}

\* What an invocation still uses of the row it read.
Copy == [status : Statuses, archived : BOOLEAN, reason : Reasons, started : BOOLEAN]

ActorState == [role : Roles, step : ActorSteps, copy : Copy, page : 0..LastPage]

Idle == [role |-> "idle"]

Causes == {"raced",        \* a transition from a status that was no longer the row's
           "mislabelled",  \* the same, and a no-op: it wrote only its reason
           "hidden",       \* archived, or not unarchived, on an old copy
           "deleted",      \* deleted on a copy from before the start
           "rebuilt",      \* a build asked for while one was under way
           "retried",      \* a snapshot job that ran again
           "recovered",    \* a failed build put back to PAUSED
           "emptied"}      \* a delete that removed the recipients

-----------------------------------------------------------------------------
(***************************************************************************)
(* domain/campaign/transitions                                             *)
(***************************************************************************)
AllowedTransitions == [s \in Statuses |->
    CASE s = "DRAFT" -> {"SNAPSHOTTING", "CANCELLED"}
      [] s = "SNAPSHOTTING" -> {"READY", "FAILED", "CANCELLED"}
      [] s = "READY" -> {"SCHEDULED", "RUNNING", "SNAPSHOTTING", "DRAFT", "CANCELLED"}
      [] s = "SCHEDULED" -> {"RUNNING", "PAUSED", "CANCELLED"}
      [] s = "RUNNING" -> {"PAUSED", "TIER_WAITING", "COMPLETED", "FAILED", "CANCELLED"}
      [] s = "PAUSED" -> {"RUNNING", "CANCELLED", "FAILED"}
      [] s = "TIER_WAITING" -> {"RUNNING", "PAUSED", "CANCELLED", "FAILED"}
      [] s = "FAILED" -> {"PAUSED", "CANCELLED"}
      [] OTHER -> {}]

\* A transition to the state the campaign is in is a permitted no-op.
CanTransition(from, to) == from = to \/ to \in AllowedTransitions[from]

\* Mutant: what the campaign says about itself is enough.
CanDeleteByStatus(c) == c.status \in {"DRAFT", "SNAPSHOTTING", "READY"}

CanDeleteCampaign(c) == c.status \in {"DRAFT", "SNAPSHOTTING", "READY"} /\ ~c.started

CanArchiveCampaign(c) == c.status \in {"COMPLETED", "CANCELLED", "FAILED"}

(***************************************************************************)
(* transitionCampaign: validated on the caller's copy, written by id.      *)
(***************************************************************************)
\* Mutant: a transition does not unarchive.
TransitionHidden(c, to, reason, starts) ==
    /\ CanTransition(c.status, to)
    /\ row' = IF ~row.exists THEN row
              ELSE [row EXCEPT !.status = IF to = c.status THEN @ ELSE to,
                               !.reason = reason,
                               !.started = @ \/ starts]

\* A patch of a deleted row fails and changes nothing.
Transition(c, to, reason, starts) ==
    /\ CanTransition(c.status, to)
    /\ row' = IF ~row.exists THEN row
              ELSE [row EXCEPT !.status = IF to = c.status THEN @ ELSE to,
                               !.reason = reason,
                               !.started = @ \/ starts,
                               !.archived = @ /\ ~(c.archived /\ to # c.status)]

\* History: what was wrong with the copy behind a transition.
Because(c, to, more) ==
    cause' = cause \union more
        \union (IF c.status # row.status THEN {"raced"} ELSE {})
        \union (IF c.status # row.status /\ c.status = to THEN {"mislabelled"} ELSE {})
        \union (IF c.archived # row.archived THEN {"hidden"} ELSE {})

Holds(a, role, step) ==
    actor[a] # Idle /\ actor[a].role = role /\ actor[a].step = step

Goto(a, step) == actor' = [actor EXCEPT ![a].step = step]
Done(a) == actor' = [actor EXCEPT ![a] = Idle]

-----------------------------------------------------------------------------
(***************************************************************************)
(* Every request and every step of the runner begins with a copy of the    *)
(* row: the route's load, the runner's list, its re-read, the sender's.    *)
(***************************************************************************)
MayOpen(role) ==
    CASE role = "update" -> row.status = "READY"
      [] role = "build" -> CanTransition(row.status, "SNAPSHOTTING") /\ builds < MaxBuilds
      [] role = "launch" -> \/ CanTransition(row.status, "RUNNING")
                            \/ CanTransition(row.status, "SCHEDULED")
      [] role = "pause" -> CanTransition(row.status, "PAUSED")
      [] role = "resume" -> CanTransition(row.status, "RUNNING")
      [] role = "cancel" -> CanTransition(row.status, "CANCELLED")
      [] role = "delete" -> CanDeleteCampaign(row)
      [] role = "archive" -> CanArchiveCampaign(row) /\ ~row.archived
      [] role = "unarchive" -> row.archived
      [] role = "due" -> row.status = "SCHEDULED"
      [] role = "tier" -> row.status = "TIER_WAITING"
      [] role = "tick" -> row.status = "RUNNING"
      [] role = "sender" -> /\ row.started \/ row.status = "RUNNING"
                            /\ CanTransition(row.status, "PAUSED")
      [] OTHER -> FALSE

CopyFor(role) ==
    [status |-> row.status, archived |-> row.archived,
     reason |-> IF role = "tick" THEN row.reason ELSE "none",
     started |-> role = "delete" /\ row.started]

Open(a, role) ==
    /\ actor[a] = Idle
    /\ row.exists
    /\ MayOpen(role)
    /\ actor' = [actor EXCEPT ![a] =
                    [role |-> role, step |-> "open", copy |-> CopyFor(role), page |-> 0]]
    /\ builds' = IF role = "build" THEN builds + 1 ELSE builds
    /\ UNCHANGED <<row, written, jobs, retries, cause>>

\* The invocation ends before its next write: refused further on, timed out
\* or thrown.
Drop(a) ==
    /\ actor[a] # Idle
    /\ actor[a].role # "snapshot"
    /\ Done(a)
    /\ UNCHANGED <<row, written, jobs, builds, retries, cause>>

\* One transition, and the invocation is over.
MoveWith(a, role, to, reason, starts, more) ==
    /\ Holds(a, role, "open")
    /\ Transition(actor[a].copy, to, reason, starts)
    /\ Because(actor[a].copy, to, more)
    /\ Done(a)
    /\ UNCHANGED <<written, jobs, builds, retries>>

Move(a, role, to, reason) == MoveWith(a, role, to, reason, FALSE, {})

(***************************************************************************)
(* The admin's requests                                                    *)
(***************************************************************************)
\* An edit of a snapshot-defining field of a READY campaign reopens it.  (An
\* edit of anything else, or of a DRAFT, moves no status.)
Update(a) == Move(a, "update", "DRAFT", "edited")

\* build, first await: the transition.
StartBuild(a) ==
    /\ Holds(a, "build", "open")
    /\ Transition(actor[a].copy, "SNAPSHOTTING", "building", FALSE)
    /\ Because(actor[a].copy, "SNAPSHOTTING",
               IF actor[a].copy.status = "SNAPSHOTTING" THEN {"rebuilt"} ELSE {})
    /\ Goto(a, "retire")
    /\ UNCHANGED <<written, jobs, builds, retries>>

RetirePreviousSnapshot(a) ==
    /\ Holds(a, "build", "retire")
    /\ written' = {}
    /\ Goto(a, "enqueue")
    /\ UNCHANGED <<row, jobs, builds, retries, cause>>

EnqueueBuild(a) ==
    /\ Holds(a, "build", "enqueue")
    /\ \/ jobs' = [jobs EXCEPT ![1] = @ + 1] /\ Done(a)
       \/ Goto(a, "fail") /\ UNCHANGED jobs
    /\ UNCHANGED <<row, written, builds, retries, cause>>

\* The copy this one passes is made up: the loaded row, SNAPSHOTTING.
FailBuild(a) ==
    LET c == [actor[a].copy EXCEPT !.status = "SNAPSHOTTING"] IN
    /\ Holds(a, "build", "fail")
    /\ Transition(c, "FAILED", "snapshot", FALSE)
    /\ Because(c, "FAILED", {})
    /\ Done(a)
    /\ UNCHANGED <<written, jobs, builds, retries>>

\* scheduledAt in the future, or none.
Launch(a) ==
    \/ Move(a, "launch", "SCHEDULED", "none")
    \/ MoveWith(a, "launch", "RUNNING", "none", TRUE, {})

Recovers(a) == IF actor[a].copy.status = "FAILED" /\ written # Pages
               THEN {"recovered"} ELSE {}

Pause(a) == MoveWith(a, "pause", "PAUSED", "paused", FALSE, Recovers(a))
Resume(a) == Move(a, "resume", "RUNNING", "resumed")
Cancel(a) == Move(a, "cancel", "CANCELLED", "cancelled")

\* delete: the recipients first, then the row.
DeleteRecipients(a) ==
    /\ Holds(a, "delete", "open")
    /\ written' = {}
    /\ cause' = cause \union {"emptied"}
    /\ Goto(a, "row")
    /\ UNCHANGED <<row, jobs, builds, retries>>

DeleteCampaign(a) ==
    /\ Holds(a, "delete", "row")
    /\ row' = [row EXCEPT !.exists = FALSE]
    /\ cause' = IF row.started /\ ~actor[a].copy.started THEN cause \union {"deleted"}
                ELSE cause
    /\ Done(a)
    /\ UNCHANGED <<written, jobs, builds, retries>>

\* archive and unarchive write one column, by id.
Archive(a) ==
    \E archiving \in BOOLEAN :
        /\ Holds(a, IF archiving THEN "archive" ELSE "unarchive", "open")
        /\ row' = IF row.exists THEN [row EXCEPT !.archived = archiving] ELSE row
        /\ cause' = IF actor[a].copy.status = row.status THEN cause
                    ELSE cause \union {"hidden"}
        /\ Done(a)
        /\ UNCHANGED <<written, jobs, builds, retries>>

(***************************************************************************)
(* The runner and the sender                                               *)
(***************************************************************************)
StartDue(a) == MoveWith(a, "due", "RUNNING", "none", TRUE, {})

\* Mutant: the transition leaves the reason that is there.
EndTierWaitSilent(a) == Move(a, "tier", "RUNNING", "tier")

EndTierWait(a) == Move(a, "tier", "RUNNING", "none")

\* Mutant: the status is written where the reason goes.
TickSwapped(a) ==
    \/ Move(a, "tick", "PAUSED", "guard")
    \/ Move(a, "tick", "COMPLETED", "COMPLETED")
    \/ MoveWith(a, "tick", "RUNNING", actor[a].copy.reason, TRUE, {})

\* A guard that trips, an audience that is finished, an allowance that is
\* spent, or a batch: a no-op that still writes the copy's reason back.
Tick(a) ==
    \/ Move(a, "tick", "PAUSED", "guard")
    \/ Move(a, "tick", "FAILED", "guard")
    \/ Move(a, "tick", "COMPLETED", "completed")
    \/ Move(a, "tick", "TIER_WAITING", "tier")
    \/ MoveWith(a, "tick", "RUNNING", actor[a].copy.reason, TRUE, {})

\* applyEffects: a content error pauses the campaign of the message.
SenderPause(a) == MoveWith(a, "sender", "PAUSED", "guard", FALSE, Recovers(a))

-----------------------------------------------------------------------------
(***************************************************************************)
(* wa-campaign-snapshot: one job per page                                  *)
(***************************************************************************)
StartPage(a, p) ==
    /\ actor[a] = Idle
    /\ jobs[p] > 0
    /\ jobs' = [jobs EXCEPT ![p] = @ - 1]
    /\ actor' = IF row.exists /\ row.status = "SNAPSHOTTING"
                THEN [actor EXCEPT ![a] = [role |-> "snapshot", step |-> "open",
                                           copy |-> CopyFor("snapshot"), page |-> p]]
                ELSE actor
    /\ UNCHANGED <<row, written, builds, retries, cause>>

WritePage(a) ==
    /\ Holds(a, "snapshot", "open")
    /\ written' = written \union {actor[a].page}
    /\ Goto(a, "next")
    /\ UNCHANGED <<row, jobs, builds, retries, cause>>

\* No number, no template, an audience that cannot be read, too many pages.
FailPage(a) == \/ Move(a, "snapshot", "FAILED", "snapshot")
               \/ /\ Holds(a, "snapshot", "fail")
                  /\ Transition(actor[a].copy, "FAILED", "snapshot", FALSE)
                  /\ Because(actor[a].copy, "FAILED", {})
                  /\ Done(a)
                  /\ UNCHANGED <<written, jobs, builds, retries>>

\* Mutant: a continuation that is refused is not looked at.
ContinueAnyway(a) ==
    /\ Holds(a, "snapshot", "next")
    /\ actor[a].page < LastPage
    /\ Transition(actor[a].copy, "READY", "none", FALSE)
    /\ Because(actor[a].copy, "READY", {})
    /\ Done(a)
    /\ UNCHANGED <<written, jobs, builds, retries>>

\* There is a next page: it is queued, and a refusal fails the campaign.
Continue(a) ==
    /\ Holds(a, "snapshot", "next")
    /\ actor[a].page < LastPage
    /\ \/ jobs' = [jobs EXCEPT ![actor[a].page + 1] = @ + 1] /\ Goto(a, "note")
       \/ Goto(a, "fail") /\ UNCHANGED jobs
    /\ UNCHANGED <<row, written, builds, retries, cause>>

\* The progress line: a no-op transition that writes its reason.
NoteProgress(a) ==
    /\ Holds(a, "snapshot", "note")
    /\ Transition(actor[a].copy, "SNAPSHOTTING", "building", FALSE)
    /\ Because(actor[a].copy, "SNAPSHOTTING", {})
    /\ Done(a)
    /\ UNCHANGED <<written, jobs, builds, retries>>

FinishSnapshot(a) ==
    /\ Holds(a, "snapshot", "next")
    /\ actor[a].page = LastPage
    /\ Transition(actor[a].copy, "READY", "none", FALSE)
    /\ Because(actor[a].copy, "READY", {})
    /\ Done(a)
    /\ UNCHANGED <<written, jobs, builds, retries>>

\* The job throws or dies: the queue runs it again, or gives it up.
ThrowPage(a) ==
    /\ actor[a] # Idle
    /\ actor[a].role = "snapshot"
    /\ Done(a)
    /\ \/ /\ retries < MaxRetries
          /\ retries' = retries + 1
          /\ jobs' = [jobs EXCEPT ![actor[a].page] = @ + 1]
          /\ cause' = cause \union {"retried"}
       \/ UNCHANGED <<retries, jobs, cause>>
    /\ UNCHANGED <<row, written, builds>>

-----------------------------------------------------------------------------
\* create makes a DRAFT.
Init ==
    /\ row = [status |-> "DRAFT", reason |-> "none", archived |-> FALSE,
              started |-> FALSE, exists |-> TRUE]
    /\ written = {}
    /\ jobs = [p \in Pages |-> 0]
    /\ actor = [a \in Actors |-> Idle]
    /\ builds = 0
    /\ retries = 0
    /\ cause = {}

ControlStep(a) ==
    \/ Update(a)
    \/ StartBuild(a)
    \/ RetirePreviousSnapshot(a)
    \/ EnqueueBuild(a)
    \/ FailBuild(a)
    \/ Launch(a)
    \/ Pause(a)
    \/ Resume(a)
    \/ Cancel(a)
    \/ DeleteRecipients(a)
    \/ DeleteCampaign(a)
    \/ Archive(a)

RunnerStep(a) == StartDue(a) \/ EndTierWait(a) \/ Tick(a)

SnapshotStep(a) ==
    \/ \E p \in Pages : StartPage(a, p)
    \/ WritePage(a)
    \/ FailPage(a)
    \/ Continue(a)
    \/ NoteProgress(a)
    \/ FinishSnapshot(a)
    \/ ThrowPage(a)

Next ==
    \E a \in Actors :
        \/ \E role \in Roles : Open(a, role)
        \/ Drop(a)
        \/ ControlStep(a)
        \/ RunnerStep(a)
        \/ SenderPause(a)
        \/ SnapshotStep(a)

Spec == Init /\ [][Next]_vars

-----------------------------------------------------------------------------
TypeOK ==
    /\ row \in CampaignRow
    /\ written \subseteq Pages
    /\ jobs \in [Pages -> Nat]
    /\ actor \in [Actors -> ActorState \union {Idle}]
    /\ builds \in 0..MaxBuilds
    /\ retries \in 0..MaxRetries
    /\ cause \in SUBSET Causes

(***************************************************************************)
(* A campaign that is READY or going has the recipient rows of the whole   *)
(* audience (wa-campaign-snapshot: never "a partial audience that reports  *)
(* itself ready"), but for the five ways that cause names.                 *)
(***************************************************************************)
AudienceIsWhole ==
    row.exists /\ row.status \in {"READY", "SCHEDULED", "RUNNING", "TIER_WAITING"}
        => \/ written = Pages
           \/ cause \intersect {"raced", "rebuilt", "retried", "recovered", "emptied"} # {}

(***************************************************************************)
(* A campaign that has started is not deleted, whatever status a race has  *)
(* written back to it (canDeleteCampaign: "the status is what a campaign   *)
(* says about itself; startedAt is what happened"), unless it started      *)
(* while it was being deleted.                                             *)
(***************************************************************************)
StartedIsKept == row.started => row.exists \/ "deleted" \in cause

(***************************************************************************)
(* Only a campaign that has stopped is hidden (FR-CAM-10), races of        *)
(* statuses included: recovering an archived campaign brings it back into  *)
(* view, unless the archiving itself, or its reading, was out of date.     *)
(***************************************************************************)
ArchivedHasStopped ==
    row.archived => CanArchiveCampaign(row) \/ "hidden" \in cause

(***************************************************************************)
(* statusReason explains the status that is there (D-43): a stop keeps its *)
(* reason, a campaign that runs again has lost it, however transitions     *)
(* race, unless a no-op from an old copy wrote its reason alone.           *)
(***************************************************************************)
ReasonsFor == [s \in Statuses |->
    CASE s = "DRAFT" -> {"none", "edited"}
      [] s = "SNAPSHOTTING" -> {"building"}
      [] s \in {"READY", "SCHEDULED"} -> {"none"}
      [] s = "RUNNING" -> {"none", "resumed"}
      [] s = "PAUSED" -> {"paused", "guard"}
      [] s = "TIER_WAITING" -> {"tier"}
      [] s = "FAILED" -> {"guard", "snapshot"}
      [] s = "CANCELLED" -> {"cancelled"}
      [] OTHER -> {"completed"}]

ReasonFitsStatus == row.reason \in ReasonsFor[row.status] \/ "mislabelled" \in cause

(***************************************************************************)
(* What the row says happened did: it started, it stopped, and why.        *)
(***************************************************************************)
RowIsTrue == StartedIsKept /\ ArchivedHasStopped /\ ReasonFitsStatus

(***************************************************************************)
(* The claim of wa-campaign-snapshot.ts:96-101, against "a partial         *)
(* audience that reports itself ready".  (A delete that has removed the    *)
(* recipients and not yet the row is no audience that was built.)          *)
(***************************************************************************)
ReadyMeansWhole ==
    row.status = "READY" /\ "emptied" \notin cause => written = Pages
=============================================================================
