----------------------- MODULE CampaignLifecycleProofs -----------------------
(***************************************************************************)
(* Proofs about CampaignLifecycle, for any number of invocations and pages, *)
(* about Consent, for any people, keywords, reps, window and bounds, and   *)
(* about MCConduct, of which both are part.                                *)
(***************************************************************************)
EXTENDS MCConduct, FiniteSetTheorems, TLAPS

(***************************************************************************)
(* The inductive strengthenings.                                           *)
(***************************************************************************)
Stopped == {"COMPLETED", "CANCELLED", "FAILED"}

\* Whose audience is built.
Built == {"READY", "SCHEDULED", "RUNNING", "TIER_WAITING", "PAUSED"}

\* The status an invocation of the role read.
ReadBy == [role \in Roles |->
    CASE role = "due" -> {"SCHEDULED"}
      [] role = "tier" -> {"TIER_WAITING"}
      [] role = "tick" -> {"RUNNING"}
      [] role = "snapshot" -> {"SNAPSHOTTING"}
      [] role = "archive" -> Stopped
      [] OTHER -> Statuses]

\* What a copy still says of the row it was read from.
CopyHolds(s) ==
    /\ s.copy.status \in ReadBy[s.role]
    /\ s.role = "delete" => ~s.copy.started /\ (s.step = "row" => "emptied" \in cause)
    /\ s.role = "tick" =>
          s.copy.reason \in ReasonsFor["RUNNING"] \/ "mislabelled" \in cause

CopiesHold ==
    /\ \A a \in Actors : actor[a] # Idle => CopyHolds(actor[a])
    /\ ~row.exists => "emptied" \in cause

\* A snapshot job is for a page of the audience.
PagesKnown ==
    \A a \in Actors : actor[a] # Idle /\ actor[a].role = "snapshot" =>
        actor[a].page \in Pages

\* The build is at one place at most: an invocation, or a queued page.
Builds(a) == \/ \E step \in {"retire", "enqueue", "fail"} : Holds(a, "build", step)
             \/ \E step \in {"open", "next", "fail"} : Holds(a, "snapshot", step)

Unexcused ==
    cause \intersect {"raced", "rebuilt", "retried", "recovered", "emptied"} = {}

OneBuild ==
    /\ \A a, b \in Actors : Builds(a) /\ Builds(b) => a = b
    /\ \A p \in Pages : jobs[p] <= 1
    /\ \A p, q \in Pages : jobs[p] > 0 /\ jobs[q] > 0 => p = q
    /\ \A a \in Actors, p \in Pages : ~(Builds(a) /\ jobs[p] > 0)

\* The pages written are those before the place the build is at.
BuildHolds ==
    /\ \A a \in Actors :
          /\ Builds(a) => row.status \in {"SNAPSHOTTING", "CANCELLED"}
          /\ Holds(a, "build", "enqueue") => written = {}
          /\ Holds(a, "snapshot", "open") => written = 1..(actor[a].page - 1)
          /\ Holds(a, "snapshot", "next") => written = 1..actor[a].page
    /\ \A p \in Pages : jobs[p] > 0 =>
          row.status \in {"SNAPSHOTTING", "CANCELLED"} /\ written = 1..(p - 1)
    /\ row.status \in Built => written = Pages

SnapshotInv == Unexcused => OneBuild /\ BuildHolds

-----------------------------------------------------------------------------
(***************************************************************************)
(* Type correctness.                                                       *)
(***************************************************************************)
\* An invocation at work has the whole state of one.
LEMMA ActorTyped ==
    ASSUME TypeOK, NEW a \in Actors, actor[a] # Idle
    PROVE  actor[a] \in ActorState
  BY DEF TypeOK

\* An invocation that has ended is none.
LEMMA IdleIsNoActor == Idle \notin ActorState
<1> SUFFICES ASSUME Idle \in ActorState PROVE FALSE
  OBVIOUS
<1>1. Idle.role \in Roles
  BY DEF ActorState
<1>2. Idle.role = "idle"
  BY DEF Idle
<1> QED
  BY <1>1, <1>2 DEF Roles

\* Goto moves an invocation to another step; Done ends it.
LEMMA GotoTyped ==
    ASSUME TypeOK, NEW a \in Actors, actor[a] # Idle, NEW s \in ActorSteps, Goto(a, s)
    PROVE  /\ actor' \in [Actors -> ActorState \union {Idle}]
           /\ actor'[a] \in ActorState /\ actor'[a] # Idle
           /\ actor'[a].step = s /\ actor'[a].role = actor[a].role
           /\ actor'[a].copy = actor[a].copy /\ actor'[a].page = actor[a].page
           /\ \A b \in Actors \ {a} : actor'[b] = actor[b]
<1>1. actor[a] \in ActorState
  BY ActorTyped
<1>2. actor'[a] = [actor[a] EXCEPT !.step = s]
  BY DEF Goto, TypeOK
<1>3. /\ actor'[a] \in ActorState
      /\ actor'[a].step = s /\ actor'[a].role = actor[a].role
      /\ actor'[a].copy = actor[a].copy /\ actor'[a].page = actor[a].page
  BY <1>1, <1>2 DEF ActorState
<1> QED
  BY <1>3, IdleIsNoActor DEF Goto, TypeOK

\* An invocation that is done leaves the others alone.
LEMMA DoneTyped ==
    ASSUME TypeOK, NEW a \in Actors, Done(a)
    PROVE  /\ actor' \in [Actors -> ActorState \union {Idle}]
           /\ actor'[a] = Idle
           /\ \A b \in Actors \ {a} : actor'[b] = actor[b]
  BY DEF TypeOK, Done

\* What a transition writes (transitionCampaign).
LEMMA TransitionRow ==
    ASSUME row \in CampaignRow, NEW c \in Copy, NEW to \in Statuses,
           NEW reason \in Reasons, NEW starts \in BOOLEAN,
           Transition(c, to, reason, starts)
    PROVE  /\ row' \in CampaignRow
           /\ ~row.exists => row' = row
           /\ row'.exists <=> row.exists
           /\ row.exists =>
                /\ row'.status = IF to = c.status THEN row.status ELSE to
                /\ row'.reason = reason
                /\ row'.started <=> row.started \/ starts
                /\ row'.archived <=> row.archived /\ ~(c.archived /\ to # c.status)
<1>1. CASE ~row.exists
  BY <1>1 DEF Transition
<1>2. CASE row.exists
  <2> DEFINE st == IF to = c.status THEN row.status ELSE to
             b1 == row.started \/ starts
             b2 == row.archived /\ ~(c.archived /\ to # c.status)
  <2>1. row' = [row EXCEPT !.status = st, !.reason = reason, !.started = b1,
                           !.archived = b2]
    BY <1>2 DEF Transition
  <2>2. st \in Statuses /\ b1 \in BOOLEAN /\ b2 \in BOOLEAN
    BY DEF CampaignRow
  <2> HIDE DEF st, b1, b2
  <2>3. \A r \in CampaignRow :
           [r EXCEPT !.status = st, !.reason = reason, !.started = b1, !.archived = b2]
              \in CampaignRow
    BY <2>2 DEF CampaignRow
  <2>4. /\ row'.status = st /\ row'.reason = reason
        /\ row'.started = b1 /\ row'.archived = b2 /\ row'.exists = row.exists
    BY <2>1 DEF CampaignRow
  <2>5. row' \in CampaignRow
    BY <2>1, <2>3
  <2> QED
    BY <1>2, <2>4, <2>5 DEF st, b1, b2
<1> QED
  BY <1>1, <1>2

\* A transition adds to the causes, and names the race it lost.
LEMMA BecauseNotes ==
    ASSUME cause \in SUBSET Causes, NEW c, NEW to, NEW more \in SUBSET Causes,
           Because(c, to, more)
    PROVE  /\ cause' \in SUBSET Causes
           /\ cause \subseteq cause' /\ more \subseteq cause'
           /\ c.status # row.status => "raced" \in cause'
           /\ c.status # row.status /\ c.status = to => "mislabelled" \in cause'
           /\ c.archived # row.archived => "hidden" \in cause'
  BY DEF Because, Causes

\* The copy an invocation takes is a copy.
LEMMA CopyTyped ==
    ASSUME TypeOK, NEW role \in Roles
    PROVE  /\ CopyFor(role) \in Copy
           /\ CopyFor(role).status = row.status
           /\ CopyFor(role).reason = IF role = "tick" THEN row.reason ELSE "none"
           /\ CopyFor(role).started <=> role = "delete" /\ row.started
<1> DEFINE st == row.status
           re == IF role = "tick" THEN row.reason ELSE "none"
           ar == row.archived
           b == role = "delete" /\ row.started
<1>1. st \in Statuses /\ re \in Reasons /\ ar \in BOOLEAN /\ b \in BOOLEAN
  BY DEF TypeOK, CampaignRow, Reasons
<1>2. CopyFor(role) = [status |-> st, archived |-> ar, reason |-> re, started |-> b]
  BY DEF CopyFor
<1> HIDE DEF st, re, ar, b
<1>3. CopyFor(role) \in Copy
  BY <1>1, <1>2 DEF Copy
<1>4. /\ CopyFor(role).status = st /\ CopyFor(role).reason = re
      /\ CopyFor(role).started = b
  BY <1>2
<1> QED
  BY <1>3, <1>4 DEF st, re, b

\* Opening takes a copy for a role.
LEMMA OpenTyped ==
    ASSUME TypeOK, NEW a \in Actors, NEW role \in Roles, NEW p \in 0..LastPage,
           actor' = [actor EXCEPT ![a] =
              [role |-> role, step |-> "open", copy |-> CopyFor(role), page |-> p]]
    PROVE  /\ actor' \in [Actors -> ActorState \union {Idle}]
           /\ actor'[a] \in ActorState /\ actor'[a] # Idle
           /\ actor'[a].role = role /\ actor'[a].step = "open"
           /\ actor'[a].copy = CopyFor(role) /\ actor'[a].page = p
           /\ \A b \in Actors \ {a} : actor'[b] = actor[b]
<1> DEFINE s == [role |-> role, step |-> "open", copy |-> CopyFor(role), page |-> p]
<1>1. s \in ActorState
  BY CopyTyped DEF ActorState, ActorSteps
<1>2. s # Idle
  BY <1>1, IdleIsNoActor
<1> QED
  BY <1>1, <1>2 DEF TypeOK

\* A transition and the end of its invocation keep the shape of the state.
LEMMA MoveTyped ==
    ASSUME TypeOK, NEW a \in Actors, NEW role, NEW to \in Statuses,
           NEW reason \in Reasons, NEW starts \in BOOLEAN, NEW more \in SUBSET Causes,
           MoveWith(a, role, to, reason, starts, more)
    PROVE  TypeOK'
<1>1. actor[a].copy \in Copy
  BY ActorTyped DEF MoveWith, Holds, ActorState
<1>2. row' \in CampaignRow
  BY <1>1, TransitionRow DEF MoveWith, TypeOK
<1>3. cause' \in SUBSET Causes
  BY BecauseNotes DEF MoveWith, TypeOK
<1> QED
  BY <1>2, <1>3, DoneTyped DEF MoveWith, TypeOK

\* The actions of a step, for the case distinctions below.
LEMMA StepCases ==
    ASSUME [Next]_vars
    PROVE  \/ \E a \in Actors :
                 \/ \E role \in Roles : Open(a, role)
                 \/ Drop(a)
                 \/ Update(a) \/ StartBuild(a) \/ RetirePreviousSnapshot(a)
                 \/ EnqueueBuild(a) \/ FailBuild(a) \/ Launch(a) \/ Pause(a)
                 \/ Resume(a) \/ Cancel(a) \/ DeleteRecipients(a)
                 \/ DeleteCampaign(a) \/ Archive(a)
                 \/ StartDue(a) \/ EndTierWait(a) \/ Tick(a) \/ SenderPause(a)
                 \/ \E p \in Pages : StartPage(a, p)
                 \/ WritePage(a) \/ FailPage(a) \/ Continue(a) \/ NoteProgress(a)
                 \/ FinishSnapshot(a) \/ ThrowPage(a)
           \/ UNCHANGED vars
  BY DEF Next, ControlStep, RunnerStep, SnapshotStep

\* An invocation begins, by a copy of the row or with a page; it goes on to the
\* step after the one it was at; or it ends.
OpensNow(b) ==
    \/ \E role \in Roles : Open(b, role)
    \/ \E p \in Pages : StartPage(b, p)

AdvancesNow(b) ==
    /\ actor[b] # Idle /\ actor'[b] # Idle
    /\ actor'[b].role = actor[b].role /\ actor'[b].copy = actor[b].copy
    /\ actor'[b].page = actor[b].page
    /\ \/ StartBuild(b) /\ actor'[b].step = "retire"
       \/ RetirePreviousSnapshot(b) /\ actor'[b].step = "enqueue"
       \/ EnqueueBuild(b) /\ actor'[b].step = "fail" /\ jobs' = jobs
       \/ DeleteRecipients(b) /\ actor'[b].step = "row"
       \/ WritePage(b) /\ actor'[b].step = "next"
       \/ Continue(b) /\ actor'[b].step \in {"note", "fail"}

\* What a step does to one invocation.
LEMMA ActorStep ==
    ASSUME TypeOK, [Next]_vars, NEW b \in Actors
    PROVE  \/ actor'[b] = actor[b]
           \/ actor'[b] = Idle
           \/ OpensNow(b)
           \/ AdvancesNow(b)
<1> DEFINE Goal == actor'[b] = actor[b] \/ actor'[b] = Idle \/ OpensNow(b) \/ AdvancesNow(b)
<1>1. ASSUME NEW a \in Actors, Done(a) PROVE Goal
  BY <1>1, DoneTyped
<1>2. ASSUME NEW a \in Actors, NEW role \in Roles, Open(a, role) PROVE Goal
  BY <1>2 DEF Open, OpensNow, TypeOK
<1>3. ASSUME NEW a \in Actors, NEW p \in Pages, StartPage(a, p) PROVE Goal
  BY <1>3 DEF StartPage, OpensNow, TypeOK
<1>4. ASSUME NEW a \in Actors, NEW s \in ActorSteps, actor[a] # Idle, Goto(a, s)
      PROVE  /\ a # b => actor'[b] = actor[b]
             /\ a = b => /\ actor'[b] # Idle /\ actor'[b].step = s
                         /\ actor'[b].role = actor[b].role
                         /\ actor'[b].copy = actor[b].copy
                         /\ actor'[b].page = actor[b].page
  BY <1>4, GotoTyped
<1>5. ASSUME NEW a \in Actors, StartBuild(a) PROVE Goal
  BY <1>4, <1>5 DEF StartBuild, Holds, ActorSteps, AdvancesNow
<1>6. ASSUME NEW a \in Actors, RetirePreviousSnapshot(a) PROVE Goal
  BY <1>4, <1>6 DEF RetirePreviousSnapshot, Holds, ActorSteps, AdvancesNow
<1>7. ASSUME NEW a \in Actors, EnqueueBuild(a) PROVE Goal
  BY <1>1, <1>4, <1>7 DEF EnqueueBuild, Holds, ActorSteps, AdvancesNow
<1>8. ASSUME NEW a \in Actors, DeleteRecipients(a) PROVE Goal
  BY <1>4, <1>8 DEF DeleteRecipients, Holds, ActorSteps, AdvancesNow
<1>9. ASSUME NEW a \in Actors, WritePage(a) PROVE Goal
  BY <1>4, <1>9 DEF WritePage, Holds, ActorSteps, AdvancesNow
<1>10. ASSUME NEW a \in Actors, Continue(a) PROVE Goal
  BY <1>4, <1>10 DEF Continue, Holds, ActorSteps, AdvancesNow
<1>11. CASE UNCHANGED vars
  BY <1>11 DEF vars
<1> HIDE DEF Goal
<1>12. ASSUME NEW a \in Actors,
              \/ Drop(a) \/ Update(a) \/ FailBuild(a) \/ Launch(a) \/ Pause(a)
              \/ Resume(a) \/ Cancel(a) \/ DeleteCampaign(a) \/ Archive(a)
              \/ StartDue(a) \/ EndTierWait(a) \/ Tick(a) \/ SenderPause(a)
              \/ FailPage(a) \/ NoteProgress(a) \/ FinishSnapshot(a) \/ ThrowPage(a)
       PROVE  Goal
  BY <1>1, <1>12 DEF Drop, Update, FailBuild, Launch, Pause, Resume, Cancel,
     DeleteCampaign, Archive, StartDue, EndTierWait, Tick, SenderPause, FailPage,
     NoteProgress, FinishSnapshot, ThrowPage, Move, MoveWith
<1> QED
  BY <1>2, <1>3, <1>5, <1>6, <1>7, <1>8, <1>9, <1>10, <1>11, <1>12, StepCases DEF Goal

\* The shape of the state, with the pages of the snapshot jobs.
LEMMA TypeInvariant == Spec => [](TypeOK /\ PagesKnown)
<1>1. Init => TypeOK /\ PagesKnown
  BY CampaignLifecycleAssumption
     DEF Init, TypeOK, PagesKnown, CampaignRow, Statuses, Reasons
<1>2. ASSUME TypeOK, PagesKnown, [Next]_vars PROVE TypeOK'
  <2> USE CampaignLifecycleAssumption
  <2>r. {} \in SUBSET Causes /\ TRUE \in BOOLEAN /\ FALSE \in BOOLEAN
    OBVIOUS
  <2>s. /\ "DRAFT" \in Statuses /\ "SNAPSHOTTING" \in Statuses /\ "READY" \in Statuses
        /\ "SCHEDULED" \in Statuses /\ "RUNNING" \in Statuses /\ "PAUSED" \in Statuses
        /\ "TIER_WAITING" \in Statuses /\ "COMPLETED" \in Statuses
        /\ "CANCELLED" \in Statuses /\ "FAILED" \in Statuses
    BY DEF Statuses
  <2>w. /\ "none" \in Reasons /\ "edited" \in Reasons /\ "building" \in Reasons
        /\ "snapshot" \in Reasons /\ "guard" \in Reasons /\ "tier" \in Reasons
        /\ "paused" \in Reasons /\ "resumed" \in Reasons /\ "cancelled" \in Reasons
        /\ "completed" \in Reasons
    BY DEF Reasons
  <2>t. ASSUME NEW a \in Actors, NEW role, NEW to \in Statuses, NEW reason \in Reasons,
               MoveWith(a, role, to, reason, TRUE, {})
        PROVE  TypeOK'
    <3> DEFINE starts == TRUE
    <3>1. starts \in BOOLEAN /\ MoveWith(a, role, to, reason, starts, {})
      BY <2>t
    <3> HIDE DEF starts
    <3> QED
      BY <1>2, <2>r, <3>1, MoveTyped
  <2>f. ASSUME NEW a \in Actors, NEW role, NEW to \in Statuses, NEW reason \in Reasons,
               NEW more \in SUBSET Causes, MoveWith(a, role, to, reason, FALSE, more)
        PROVE  TypeOK'
    <3> DEFINE starts == FALSE
    <3>1. starts \in BOOLEAN /\ MoveWith(a, role, to, reason, starts, more)
      BY <2>f
    <3> HIDE DEF starts
    <3> QED
      BY <1>2, <3>1, MoveTyped
  <2>m. ASSUME NEW a \in Actors, NEW role, NEW to \in Statuses, NEW reason \in Reasons,
               Move(a, role, to, reason)
        PROVE  TypeOK'
    BY <2>f, <2>r, <2>m DEF Move
  <2>c. ASSUME NEW a \in Actors, actor[a] # Idle
        PROVE  actor[a] \in ActorState /\ actor[a].copy \in Copy
               /\ actor[a].page \in 0..LastPage
    BY <1>2, <2>c, ActorTyped DEF ActorState
  <2>g. ASSUME NEW a \in Actors, NEW s \in ActorSteps, actor[a] # Idle, Goto(a, s)
        PROVE  actor' \in [Actors -> ActorState \union {Idle}]
    BY <1>2, <2>g, GotoTyped
  <2>d. ASSUME NEW a \in Actors, Done(a)
        PROVE  actor' \in [Actors -> ActorState \union {Idle}]
    BY <1>2, <2>d, DoneTyped
  <2>j. ASSUME NEW p \in Pages, NEW n \in Nat
        PROVE  [jobs EXCEPT ![p] = n] \in [Pages -> Nat]
    BY <1>2 DEF TypeOK
  <2>1. ASSUME NEW a \in Actors, NEW role \in Roles, Open(a, role) PROVE TypeOK'
    <3>0. 0 \in 0..LastPage
      OBVIOUS
    <3>1. actor' \in [Actors -> ActorState \union {Idle}]
      BY <1>2, <2>1, <3>0, OpenTyped DEF Open
    <3>2. builds' \in 0..MaxBuilds
      BY <1>2, <2>1 DEF Open, MayOpen, TypeOK
    <3> QED
      BY <1>2, <2>1, <3>1, <3>2 DEF Open, TypeOK
  <2>2. ASSUME NEW a \in Actors, Drop(a) PROVE TypeOK'
    BY <1>2, <2>2, <2>d DEF Drop, TypeOK
  <2>3. ASSUME NEW a \in Actors, Update(a) PROVE TypeOK'
    BY <2>3, <2>m, <2>s, <2>w DEF Update
  <2>4. ASSUME NEW a \in Actors, StartBuild(a) PROVE TypeOK'
    <3>1. actor[a] # Idle
      BY <2>4 DEF StartBuild, Holds
    <3>2. row' \in CampaignRow
      BY <1>2, <2>4, <2>c, <2>r, <3>1, TransitionRow
         DEF StartBuild, TypeOK, Statuses, Reasons
    <3>3. cause' \in SUBSET Causes
      BY <1>2, <2>4, BecauseNotes DEF StartBuild, TypeOK, Causes
    <3>4. actor' \in [Actors -> ActorState \union {Idle}]
      BY <2>4, <2>g, <3>1 DEF StartBuild, ActorSteps
    <3> QED
      BY <1>2, <2>4, <3>2, <3>3, <3>4 DEF StartBuild, TypeOK
  <2>5. ASSUME NEW a \in Actors, RetirePreviousSnapshot(a) PROVE TypeOK'
    BY <1>2, <2>5, <2>g DEF RetirePreviousSnapshot, Holds, ActorSteps, TypeOK
  <2>6. ASSUME NEW a \in Actors, EnqueueBuild(a) PROVE TypeOK'
    <3>1. 1 \in Pages /\ jobs[1] + 1 \in Nat
      BY <1>2 DEF Pages, TypeOK
    <3>2. jobs' \in [Pages -> Nat]
      BY <1>2, <2>6, <2>j, <3>1 DEF EnqueueBuild, TypeOK
    <3>3. actor' \in [Actors -> ActorState \union {Idle}]
      BY <2>6, <2>d, <2>g DEF EnqueueBuild, Holds, ActorSteps
    <3> QED
      BY <1>2, <2>6, <3>2, <3>3 DEF EnqueueBuild, TypeOK
  <2>7. ASSUME NEW a \in Actors, FailBuild(a) PROVE TypeOK'
    <3>1. [actor[a].copy EXCEPT !.status = "SNAPSHOTTING"] \in Copy
      BY <2>7, <2>c DEF FailBuild, Holds, Copy, Statuses
    <3>2. row' \in CampaignRow
      BY <1>2, <2>7, <2>r, <3>1, TransitionRow DEF FailBuild, TypeOK, Statuses, Reasons
    <3>3. cause' \in SUBSET Causes
      BY <1>2, <2>7, <2>r, BecauseNotes DEF FailBuild, TypeOK
    <3> QED
      BY <1>2, <2>7, <2>d, <3>2, <3>3 DEF FailBuild, TypeOK
  <2>8. ASSUME NEW a \in Actors, Launch(a) PROVE TypeOK'
    <3>1. CASE Move(a, "launch", "SCHEDULED", "none")
      BY <2>m, <2>s, <2>w, <3>1
    <3>2. CASE MoveWith(a, "launch", "RUNNING", "none", TRUE, {})
      BY <2>t, <2>s, <2>w, <3>2
    <3> QED
      BY <2>8, <3>1, <3>2 DEF Launch
  <2>9. ASSUME NEW a \in Actors, Pause(a) \/ SenderPause(a) PROVE TypeOK'
    <3>1. Recovers(a) \in SUBSET Causes
      BY DEF Recovers, Causes
    <3>2. CASE Pause(a)
      BY <2>f, <2>s, <2>w, <3>1, <3>2 DEF Pause
    <3>3. CASE SenderPause(a)
      BY <2>f, <2>s, <2>w, <3>1, <3>3 DEF SenderPause
    <3> QED
      BY <2>9, <3>2, <3>3
  <2>10. ASSUME NEW a \in Actors, Resume(a) PROVE TypeOK'
    BY <2>10, <2>m, <2>s, <2>w DEF Resume
  <2>11. ASSUME NEW a \in Actors, Cancel(a) PROVE TypeOK'
    BY <2>11, <2>m, <2>s, <2>w DEF Cancel
  <2>12. ASSUME NEW a \in Actors, DeleteRecipients(a) PROVE TypeOK'
    BY <1>2, <2>12, <2>g DEF DeleteRecipients, Holds, ActorSteps, Causes, TypeOK
  <2>13. ASSUME NEW a \in Actors, DeleteCampaign(a) PROVE TypeOK'
    <3>1. row' \in CampaignRow
      BY <1>2, <2>13 DEF DeleteCampaign, TypeOK, CampaignRow
    <3> QED
      BY <1>2, <2>13, <2>d, <3>1 DEF DeleteCampaign, Causes, TypeOK
  <2>14. ASSUME NEW a \in Actors, Archive(a) PROVE TypeOK'
    <3>1. \A b \in BOOLEAN : [row EXCEPT !.archived = b] \in CampaignRow
      BY <1>2 DEF TypeOK, CampaignRow
    <3>2. row' \in CampaignRow
      BY <1>2, <2>14, <3>1 DEF Archive, TypeOK
    <3>3. cause' \in SUBSET Causes
      BY <1>2, <2>14 DEF Archive, TypeOK, Causes
    <3> QED
      BY <1>2, <2>14, <2>d, <3>2, <3>3 DEF Archive, TypeOK
  <2>15. ASSUME NEW a \in Actors, StartDue(a) PROVE TypeOK'
    BY <2>15, <2>t, <2>s, <2>w DEF StartDue
  <2>16. ASSUME NEW a \in Actors, EndTierWait(a) PROVE TypeOK'
    BY <2>16, <2>m, <2>s, <2>w DEF EndTierWait
  <2>17. ASSUME NEW a \in Actors, Tick(a) PROVE TypeOK'
    <3>1. CASE MoveWith(a, "tick", "RUNNING", actor[a].copy.reason, TRUE, {})
      <4>1. actor[a].copy.reason \in Reasons
        BY <2>c, <3>1 DEF MoveWith, Holds, Copy
      <4> QED
        BY <2>s, <2>t, <3>1, <4>1
    <3>2. CASE \/ Move(a, "tick", "PAUSED", "guard")
               \/ Move(a, "tick", "FAILED", "guard")
               \/ Move(a, "tick", "COMPLETED", "completed")
               \/ Move(a, "tick", "TIER_WAITING", "tier")
      BY <2>m, <2>s, <2>w, <3>2
    <3> QED
      BY <2>17, <3>1, <3>2 DEF Tick
  <2>18. ASSUME NEW a \in Actors, NEW p \in Pages, StartPage(a, p) PROVE TypeOK'
    <3>1. jobs[p] - 1 \in Nat /\ p \in 0..LastPage
      BY <1>2, <2>18 DEF StartPage, TypeOK, Pages
    <3>2. jobs' \in [Pages -> Nat]
      BY <1>2, <2>18, <2>j, <3>1 DEF StartPage, TypeOK
    <3>3. "snapshot" \in Roles
      BY DEF Roles
    <3>4. actor' \in [Actors -> ActorState \union {Idle}]
      BY <1>2, <2>18, <3>1, <3>3, OpenTyped DEF StartPage, TypeOK
    <3> QED
      BY <1>2, <2>18, <3>2, <3>4 DEF StartPage, TypeOK
  <2>19. ASSUME NEW a \in Actors, WritePage(a) PROVE TypeOK'
    <3>1. actor[a].page \in Pages
      BY <1>2, <2>19 DEF WritePage, Holds, PagesKnown
    <3> QED
      BY <1>2, <2>19, <2>g, <3>1 DEF WritePage, Holds, ActorSteps, TypeOK
  <2>20. ASSUME NEW a \in Actors, NEW c, c = actor[a].copy, actor[a] # Idle,
                NEW to \in Statuses, NEW reason \in Reasons,
                Transition(c, to, reason, FALSE), Because(c, to, {}), Done(a),
                UNCHANGED <<written, jobs, builds, retries>>
         PROVE  TypeOK'
    <3>1. row' \in CampaignRow
      BY <1>2, <2>20, <2>c, <2>r, TransitionRow DEF TypeOK
    <3>2. cause' \in SUBSET Causes
      BY <1>2, <2>20, <2>r, BecauseNotes DEF TypeOK
    <3> QED
      BY <1>2, <2>20, <2>d, <3>1, <3>2 DEF TypeOK
  <2>21. ASSUME NEW a \in Actors, FailPage(a) PROVE TypeOK'
    <3>1. CASE Move(a, "snapshot", "FAILED", "snapshot")
      BY <2>m, <2>s, <2>w, <3>1
    <3>2. CASE ~Move(a, "snapshot", "FAILED", "snapshot")
      BY <2>20, <2>21, <2>s, <2>w, <3>2 DEF FailPage, Holds
    <3> QED
      BY <3>1, <3>2
  <2>22. ASSUME NEW a \in Actors, Continue(a) PROVE TypeOK'
    <3>1. actor[a].page \in Pages /\ actor[a].page + 1 \in Pages
      BY <1>2, <2>22 DEF Continue, Holds, PagesKnown, Pages
    <3>2. jobs[actor[a].page + 1] + 1 \in Nat
      BY <1>2, <3>1 DEF TypeOK
    <3>3. jobs' \in [Pages -> Nat]
      BY <1>2, <2>22, <2>j, <3>1, <3>2 DEF Continue, TypeOK
    <3>4. actor' \in [Actors -> ActorState \union {Idle}]
      BY <2>22, <2>g DEF Continue, Holds, ActorSteps
    <3> QED
      BY <1>2, <2>22, <3>3, <3>4 DEF Continue, TypeOK
  <2>23. ASSUME NEW a \in Actors, NoteProgress(a) \/ FinishSnapshot(a) PROVE TypeOK'
    BY <2>20, <2>23, <2>s, <2>w DEF NoteProgress, FinishSnapshot, Holds
  <2>24. ASSUME NEW a \in Actors, ThrowPage(a) PROVE TypeOK'
    <3>1. jobs' \in [Pages -> Nat]
      <4>1. actor[a].page \in Pages
        BY <1>2, <2>24 DEF ThrowPage, PagesKnown
      <4>2. jobs[actor[a].page] + 1 \in Nat
        BY <1>2, <4>1 DEF TypeOK
      <4> QED
        BY <1>2, <2>24, <2>j, <4>1, <4>2 DEF ThrowPage, TypeOK
    <3>2. retries' \in 0..MaxRetries
      BY <1>2, <2>24 DEF ThrowPage, TypeOK
    <3>3. cause' \in SUBSET Causes
      <4>1. cause' = cause \/ cause' = cause \union {"retried"}
        BY <2>24 DEF ThrowPage
      <4> QED
        BY <1>2, <4>1 DEF TypeOK, Causes
    <3> QED
      BY <1>2, <2>24, <2>d, <3>1, <3>2, <3>3 DEF ThrowPage, TypeOK
  <2>25. CASE UNCHANGED vars
    BY <1>2, <2>25 DEF vars, TypeOK
  <2> QED
    BY <1>2, <2>1, <2>2, <2>3, <2>4, <2>5, <2>6, <2>7, <2>8, <2>9, <2>10, <2>11,
       <2>12, <2>13, <2>14, <2>15, <2>16, <2>17, <2>18, <2>19, <2>21, <2>22,
       <2>23, <2>24, <2>25
       DEF Next, ControlStep, RunnerStep, SnapshotStep
<1>3. ASSUME TypeOK, PagesKnown, [Next]_vars PROVE PagesKnown'
  <2> SUFFICES ASSUME NEW a \in Actors, actor'[a] # Idle,
                      actor'[a].role = "snapshot"
               PROVE  actor'[a].page \in Pages
    BY DEF PagesKnown
  <2>1. ASSUME NEW role \in Roles, Open(a, role) PROVE FALSE
    <3>1. actor'[a].role = role /\ MayOpen(role)
      BY <1>3, <2>1 DEF Open, TypeOK
    <3> QED
      BY <3>1 DEF MayOpen
  <2>2. ASSUME NEW p \in Pages, StartPage(a, p) PROVE actor'[a].page \in Pages
    <3>1. actor'[a] # Idle => actor'[a].page = p
      BY <1>3, <2>2 DEF StartPage, TypeOK
    <3> QED
      BY <3>1
  <2>3. CASE actor'[a] = actor[a] \/ AdvancesNow(a)
    BY <1>3, <2>3 DEF PagesKnown, AdvancesNow
  <2> QED
    BY <1>3, <2>1, <2>2, <2>3, ActorStep DEF OpensNow
<1> QED
  BY <1>1, <1>2, <1>3, PTL DEF Spec

\* Every state of a run has the declared shape (wa-campaign-control, the
\* runner, the sender and wa-campaign-snapshot).
THEOREM TypeCorrect == Spec => []TypeOK
  BY TypeInvariant, PTL

-----------------------------------------------------------------------------
(***************************************************************************)
(* What the row says.                                                      *)
(***************************************************************************)
\* A transition of the row from a copy that an invocation has, and what it notes.
RowMoves(a, c, to, reason) ==
    /\ actor[a] # Idle
    /\ CanTransition(c.status, to)
    /\ reason \in ReasonsFor[to] \/ "mislabelled" \in cause
    /\ ~row.exists => row' = row
    /\ row'.exists <=> row.exists
    /\ row.exists =>
         /\ row'.status = IF to = c.status THEN row.status ELSE to
         /\ row'.reason = reason
         /\ row'.archived <=> row.archived /\ ~(c.archived /\ to # c.status)
    /\ c.status # row.status => "raced" \in cause'
    /\ c.status # row.status /\ c.status = to => "mislabelled" \in cause'
    /\ c.archived # row.archived => "hidden" \in cause'
    /\ to = "READY" => FinishSnapshot(a)
    /\ to = "SNAPSHOTTING" => StartBuild(a) \/ NoteProgress(a)
    /\ to = "FAILED" => Builds(a) \/ c.status = "RUNNING"
    /\ to = "PAUSED" /\ c.status = "FAILED" => written = Pages \/ "recovered" \in cause'
    /\ UNCHANGED <<written, jobs>>
    /\ Done(a) \/ StartBuild(a)

\* The part of RowMoves every transition has.
LEMMA MoveFacts ==
    ASSUME TypeOK, NEW a \in Actors, actor[a] # Idle, NEW c \in Copy, NEW to \in Statuses,
           NEW reason \in Reasons, NEW starts \in BOOLEAN, NEW more \in SUBSET Causes,
           Transition(c, to, reason, starts), Because(c, to, more),
           reason \in ReasonsFor[to] \/ "mislabelled" \in cause,
           to = "READY" => FinishSnapshot(a),
           to = "SNAPSHOTTING" => StartBuild(a) \/ NoteProgress(a),
           to = "FAILED" => Builds(a) \/ c.status = "RUNNING",
           to = "PAUSED" /\ c.status = "FAILED" => written = Pages \/ "recovered" \in more,
           UNCHANGED <<written, jobs>>, Done(a) \/ StartBuild(a)
    PROVE  \E k \in Copy : RowMoves(a, k, to, reason)
<1>1. row \in CampaignRow /\ cause \in SUBSET Causes
  BY DEF TypeOK
<1>2. /\ ~row.exists => row' = row
      /\ row'.exists <=> row.exists
      /\ row.exists =>
           /\ row'.status = IF to = c.status THEN row.status ELSE to
           /\ row'.reason = reason
           /\ row'.archived <=> row.archived /\ ~(c.archived /\ to # c.status)
  BY <1>1, TransitionRow
<1>3. /\ more \subseteq cause'
      /\ c.status # row.status => "raced" \in cause'
      /\ c.status # row.status /\ c.status = to => "mislabelled" \in cause'
      /\ c.archived # row.archived => "hidden" \in cause'
  BY <1>1, BecauseNotes
<1>4. CanTransition(c.status, to)
  BY DEF Transition
<1>5. RowMoves(a, c, to, reason)
  BY <1>2, <1>3, <1>4 DEF RowMoves
<1> QED
  BY <1>5

WritesNoRow ==
    \/ \E a \in Actors :
          \/ \E role \in Roles : Open(a, role)
          \/ Drop(a) \/ RetirePreviousSnapshot(a) \/ EnqueueBuild(a)
          \/ DeleteRecipients(a) \/ \E p \in Pages : StartPage(a, p)
          \/ WritePage(a) \/ Continue(a) \/ ThrowPage(a)
    \/ UNCHANGED vars

\* Every step that writes the row is a transition from a copy, the delete, or the
\* archiving.
LEMMA RowStep ==
    ASSUME TypeOK, CopiesHold, [Next]_vars
    PROVE  \/ row' = row /\ WritesNoRow
           \/ \E a \in Actors, c \in Copy, to \in Statuses, reason \in Reasons :
                 RowMoves(a, c, to, reason)
           \/ \E a \in Actors : DeleteCampaign(a) \/ Archive(a)
<1> DEFINE Moved == \E a \in Actors, c \in Copy, to \in Statuses, reason \in Reasons :
                       RowMoves(a, c, to, reason)
<1>s. /\ "DRAFT" \in Statuses /\ "SNAPSHOTTING" \in Statuses /\ "READY" \in Statuses
      /\ "SCHEDULED" \in Statuses /\ "RUNNING" \in Statuses /\ "PAUSED" \in Statuses
      /\ "TIER_WAITING" \in Statuses /\ "COMPLETED" \in Statuses
      /\ "CANCELLED" \in Statuses /\ "FAILED" \in Statuses
  BY DEF Statuses
<1>w. /\ "none" \in Reasons /\ "edited" \in Reasons /\ "building" \in Reasons
      /\ "snapshot" \in Reasons /\ "guard" \in Reasons /\ "tier" \in Reasons
      /\ "paused" \in Reasons /\ "resumed" \in Reasons /\ "cancelled" \in Reasons
      /\ "completed" \in Reasons
  BY DEF Reasons
<1>f. /\ "edited" \in ReasonsFor["DRAFT"] /\ "building" \in ReasonsFor["SNAPSHOTTING"]
      /\ "none" \in ReasonsFor["READY"] /\ "none" \in ReasonsFor["SCHEDULED"]
      /\ "none" \in ReasonsFor["RUNNING"] /\ "resumed" \in ReasonsFor["RUNNING"]
      /\ "paused" \in ReasonsFor["PAUSED"] /\ "guard" \in ReasonsFor["PAUSED"]
      /\ "tier" \in ReasonsFor["TIER_WAITING"] /\ "guard" \in ReasonsFor["FAILED"]
      /\ "snapshot" \in ReasonsFor["FAILED"] /\ "cancelled" \in ReasonsFor["CANCELLED"]
      /\ "completed" \in ReasonsFor["COMPLETED"]
  BY <1>s DEF ReasonsFor
<1>c. ASSUME NEW a \in Actors, actor[a] # Idle PROVE actor[a].copy \in Copy
  BY <1>c, ActorTyped DEF ActorState
<1>t. ASSUME NEW a \in Actors, NEW role, NEW to \in Statuses, NEW reason \in Reasons,
             NEW starts \in BOOLEAN, NEW more \in SUBSET Causes,
             MoveWith(a, role, to, reason, starts, more),
             reason \in ReasonsFor[to] \/ "mislabelled" \in cause,
             to \notin {"READY", "SNAPSHOTTING"},
             to = "FAILED" => Builds(a) \/ actor[a].copy.status = "RUNNING",
             to = "PAUSED" /\ actor[a].copy.status = "FAILED" =>
                 written = Pages \/ "recovered" \in more
      PROVE  Moved
  <2>1. actor[a] # Idle /\ actor[a].copy \in Copy
    BY <1>c, <1>t DEF MoveWith, Holds
  <2>2. \E k \in Copy : RowMoves(a, k, to, reason)
    BY <1>t, <2>1, MoveFacts DEF MoveWith
  <2> QED
    BY <2>2
<1>0. ASSUME NEW a \in Actors, NEW role, NEW to \in Statuses, NEW reason \in Reasons,
             Move(a, role, to, reason),
             reason \in ReasonsFor[to] \/ "mislabelled" \in cause,
             to \notin {"READY", "SNAPSHOTTING"},
             to = "FAILED" => Builds(a) \/ actor[a].copy.status = "RUNNING",
             to = "PAUSED" => actor[a].copy.status # "FAILED"
      PROVE  Moved
  <2> DEFINE starts == FALSE
  <2>1. starts \in BOOLEAN /\ MoveWith(a, role, to, reason, starts, {})
    BY <1>0 DEF Move
  <2> HIDE DEF starts, Moved
  <2>2. {} \in SUBSET Causes
    OBVIOUS
  <2> QED
    BY <1>0, <1>t, <2>1, <2>2
<1>h. ASSUME NEW a \in Actors, NEW reason \in Reasons, NEW role,
             MoveWith(a, role, "RUNNING", reason, TRUE, {}),
             reason \in ReasonsFor["RUNNING"] \/ "mislabelled" \in cause
      PROVE  Moved
  <2> DEFINE starts == TRUE
  <2>1. starts \in BOOLEAN /\ MoveWith(a, role, "RUNNING", reason, starts, {})
    BY <1>h
  <2> HIDE DEF starts, Moved
  <2>2. {} \in SUBSET Causes
    OBVIOUS
  <2> QED
    BY <1>h, <1>s, <1>t, <2>1, <2>2
<1> HIDE DEF Moved
<1>1. ASSUME NEW a \in Actors, Update(a) PROVE Moved
  BY <1>0, <1>1, <1>f, <1>s, <1>w DEF Update
<1>2. ASSUME NEW a \in Actors, NEW c \in Copy, NEW to \in Statuses, NEW reason \in Reasons,
             actor[a] # Idle, Transition(c, to, reason, FALSE),
             NEW more \in SUBSET Causes, Because(c, to, more),
             reason \in ReasonsFor[to], to # "PAUSED",
             to = "READY" => FinishSnapshot(a),
             to = "SNAPSHOTTING" => StartBuild(a) \/ NoteProgress(a),
             to = "FAILED" => Builds(a),
             UNCHANGED <<written, jobs>>, Done(a) \/ StartBuild(a)
      PROVE  Moved
  <2> DEFINE starts == FALSE
  <2>1. starts \in BOOLEAN /\ Transition(c, to, reason, starts)
    BY <1>2
  <2> HIDE DEF starts
  <2>2. \E k \in Copy : RowMoves(a, k, to, reason)
    BY <1>2, <2>1, MoveFacts
  <2> QED
    BY <2>2 DEF Moved
<1>3. ASSUME NEW a \in Actors, StartBuild(a) PROVE Moved
  <2> DEFINE more == IF actor[a].copy.status = "SNAPSHOTTING" THEN {"rebuilt"} ELSE {}
             c == actor[a].copy
  <2>1. more \in SUBSET Causes
    BY DEF Causes
  <2>2. actor[a] # Idle /\ c \in Copy
    BY <1>3, <1>c DEF StartBuild, Holds
  <2>3. /\ Transition(c, "SNAPSHOTTING", "building", FALSE)
        /\ Because(c, "SNAPSHOTTING", more) /\ UNCHANGED <<written, jobs>>
    BY <1>3 DEF StartBuild
  <2> HIDE DEF more, c
  <2> QED
    BY <1>2, <1>3, <1>f, <1>s, <1>w, <2>1, <2>2, <2>3
<1>4. ASSUME NEW a \in Actors, FailBuild(a) PROVE Moved
  <2>1. [actor[a].copy EXCEPT !.status = "SNAPSHOTTING"] \in Copy
    BY <1>4, <1>c, <1>s DEF FailBuild, Holds, Copy
  <2>2. Builds(a)
    BY <1>4 DEF FailBuild, Builds
  <2>3. {} \in SUBSET Causes /\ actor[a] # Idle
    BY <1>4 DEF FailBuild, Holds
  <2> QED
    BY <1>2, <1>4, <1>f, <1>s, <1>w, <2>1, <2>2, <2>3 DEF FailBuild
<1>5. ASSUME NEW a \in Actors, Launch(a) PROVE Moved
  <2>1. CASE Move(a, "launch", "SCHEDULED", "none")
    BY <1>0, <1>f, <1>s, <1>w, <2>1
  <2>2. CASE MoveWith(a, "launch", "RUNNING", "none", TRUE, {})
    BY <1>h, <1>f, <1>w, <2>2
  <2> QED
    BY <1>5, <2>1, <2>2 DEF Launch
<1>6. ASSUME NEW a \in Actors, Pause(a) \/ SenderPause(a) PROVE Moved
  <2> DEFINE starts == FALSE
             more == Recovers(a)
  <2>1. starts \in BOOLEAN /\ more \in SUBSET Causes
    BY DEF Recovers, Causes
  <2>2. actor[a].copy.status = "FAILED" => written = Pages \/ "recovered" \in more
    BY DEF Recovers
  <2>3. CASE Pause(a)
    <3>1. MoveWith(a, "pause", "PAUSED", "paused", starts, more)
      BY <2>3 DEF Pause
    <3> HIDE DEF starts, more
    <3> QED
      BY <1>t, <1>f, <1>s, <1>w, <2>1, <2>2, <3>1
  <2>4. CASE SenderPause(a)
    <3>1. MoveWith(a, "sender", "PAUSED", "guard", starts, more)
      BY <2>4 DEF SenderPause
    <3> HIDE DEF starts, more
    <3> QED
      BY <1>t, <1>f, <1>s, <1>w, <2>1, <2>2, <3>1
  <2> QED
    BY <1>6, <2>3, <2>4
<1>7. ASSUME NEW a \in Actors, Resume(a) \/ Cancel(a) \/ EndTierWait(a) PROVE Moved
  <2>1. CASE Resume(a)
    BY <1>0, <1>f, <1>s, <1>w, <2>1 DEF Resume
  <2>2. CASE Cancel(a)
    BY <1>0, <1>f, <1>s, <1>w, <2>2 DEF Cancel
  <2>3. CASE EndTierWait(a)
    BY <1>0, <1>f, <1>s, <1>w, <2>3 DEF EndTierWait
  <2> QED
    BY <1>7, <2>1, <2>2, <2>3
<1>8. ASSUME NEW a \in Actors, StartDue(a) PROVE Moved
  BY <1>8, <1>h, <1>f, <1>w DEF StartDue
<1>9. ASSUME NEW a \in Actors, Tick(a) PROVE Moved
  <2>1. Holds(a, "tick", "open")
    BY <1>9 DEF Tick, Move, MoveWith
  <2>2. /\ actor[a].copy.status = "RUNNING"
        /\ actor[a].copy.reason \in ReasonsFor["RUNNING"] \/ "mislabelled" \in cause
    <3>1. CopyHolds(actor[a]) /\ actor[a].role = "tick"
      BY <2>1 DEF CopiesHold, Holds
    <3>2. ReadBy["tick"] = {"RUNNING"}
      BY DEF ReadBy, Roles
    <3> QED
      BY <3>1, <3>2 DEF CopyHolds
  <2>3. CASE MoveWith(a, "tick", "RUNNING", actor[a].copy.reason, TRUE, {})
    <3>1. actor[a].copy.reason \in Reasons
      BY <1>c, <2>1 DEF Holds, Copy
    <3> QED
      BY <1>h, <2>2, <2>3, <3>1
  <2>4. CASE Move(a, "tick", "PAUSED", "guard") \/ Move(a, "tick", "FAILED", "guard")
    BY <1>0, <1>f, <1>s, <1>w, <2>2, <2>4
  <2>5. CASE \/ Move(a, "tick", "COMPLETED", "completed")
             \/ Move(a, "tick", "TIER_WAITING", "tier")
    BY <1>0, <1>f, <1>s, <1>w, <2>5
  <2> QED
    BY <1>9, <2>3, <2>4, <2>5 DEF Tick
<1>10. ASSUME NEW a \in Actors, FailPage(a) PROVE Moved
  <2>1. Builds(a) /\ actor[a] # Idle /\ {} \in SUBSET Causes
    BY <1>10 DEF FailPage, Move, MoveWith, Builds, Holds
  <2>2. /\ Transition(actor[a].copy, "FAILED", "snapshot", FALSE)
        /\ Because(actor[a].copy, "FAILED", {}) /\ Done(a) /\ UNCHANGED <<written, jobs>>
    BY <1>10 DEF FailPage, Move, MoveWith
  <2> QED
    BY <1>2, <1>c, <1>f, <1>s, <1>w, <2>1, <2>2
<1>11. ASSUME NEW a \in Actors, NoteProgress(a) PROVE Moved
  <2>1. actor[a] # Idle /\ {} \in SUBSET Causes
    BY <1>11 DEF NoteProgress, Holds
  <2> QED
    BY <1>2, <1>c, <1>f, <1>s, <1>w, <1>11, <2>1 DEF NoteProgress
<1>12. ASSUME NEW a \in Actors, FinishSnapshot(a) PROVE Moved
  <2>1. actor[a] # Idle /\ {} \in SUBSET Causes
    BY <1>12 DEF FinishSnapshot, Holds
  <2> QED
    BY <1>2, <1>c, <1>f, <1>s, <1>w, <1>12, <2>1 DEF FinishSnapshot
<1>13. ASSUME NEW a \in Actors,
              \/ \E role \in Roles : Open(a, role)
              \/ Drop(a) \/ RetirePreviousSnapshot(a) \/ EnqueueBuild(a)
              \/ DeleteRecipients(a) \/ \E p \in Pages : StartPage(a, p)
              \/ WritePage(a) \/ Continue(a) \/ ThrowPage(a)
       PROVE  row' = row /\ WritesNoRow
  BY <1>13 DEF WritesNoRow, Open, Drop, RetirePreviousSnapshot, EnqueueBuild, DeleteRecipients,
     StartPage, WritePage, Continue, ThrowPage
<1>14. CASE UNCHANGED vars
  <2>1. row' = row /\ WritesNoRow
    BY <1>14 DEF vars, WritesNoRow
  <2> QED
    BY <2>1
<1> QED
  BY <1>1, <1>3, <1>4, <1>5, <1>6, <1>7, <1>8, <1>9, <1>10, <1>11, <1>12, <1>13,
     <1>14, StepCases DEF Moved

\* The causes only grow.
LEMMA CauseGrows ==
    ASSUME TypeOK, [Next]_vars
    PROVE  cause \subseteq cause'
<1>1. ASSUME NEW c, NEW to, NEW more, Because(c, to, more) PROVE cause \subseteq cause'
  BY <1>1 DEF Because
<1>2. ASSUME NEW a, NEW role, NEW to, NEW reason, NEW starts, NEW more,
             MoveWith(a, role, to, reason, starts, more)
      PROVE  cause \subseteq cause'
  BY <1>1, <1>2 DEF MoveWith
<1>3. ASSUME NEW a, NEW role, NEW to, NEW reason, Move(a, role, to, reason)
      PROVE  cause \subseteq cause'
  BY <1>2, <1>3 DEF Move
<1>4. ASSUME NEW a \in Actors,
             \/ Update(a) \/ Launch(a) \/ Pause(a) \/ Resume(a) \/ Cancel(a)
             \/ StartDue(a) \/ EndTierWait(a) \/ Tick(a) \/ SenderPause(a)
      PROVE  cause \subseteq cause'
  BY <1>2, <1>3, <1>4 DEF Update, Launch, Pause, Resume, Cancel, StartDue, EndTierWait,
     Tick, SenderPause
<1>5. ASSUME NEW a \in Actors,
             \/ StartBuild(a) \/ FailBuild(a) \/ FailPage(a) \/ NoteProgress(a)
             \/ FinishSnapshot(a)
      PROVE  cause \subseteq cause'
  BY <1>1, <1>3, <1>5 DEF StartBuild, FailBuild, FailPage, NoteProgress, FinishSnapshot
<1>6. ASSUME NEW a \in Actors,
             \/ \E role \in Roles : Open(a, role)
             \/ Drop(a) \/ RetirePreviousSnapshot(a) \/ EnqueueBuild(a)
             \/ DeleteRecipients(a) \/ DeleteCampaign(a) \/ Archive(a)
             \/ \E p \in Pages : StartPage(a, p)
             \/ WritePage(a) \/ Continue(a) \/ ThrowPage(a)
      PROVE  cause \subseteq cause'
  BY <1>6 DEF Open, Drop, RetirePreviousSnapshot, EnqueueBuild, DeleteRecipients,
     DeleteCampaign, Archive, StartPage, WritePage, Continue, ThrowPage
<1>7. CASE UNCHANGED vars
  BY <1>7 DEF vars
<1> QED
  BY <1>4, <1>5, <1>6, <1>7, StepCases

\* A copy keeps saying what it said, and says what the row said when it was taken.
LEMMA CopiesKept ==
    ASSUME TypeOK, CopiesHold, ReasonFitsStatus, [Next]_vars
    PROVE  CopiesHold'
<1>1. ASSUME NEW b \in Actors, actor'[b] # Idle PROVE CopyHolds(actor[b])' 
  <2>c. cause \subseteq cause'
    BY CauseGrows
  <2>1. CASE actor'[b] = actor[b]
    BY <1>1, <2>1, <2>c DEF CopiesHold, CopyHolds
  <2>2. CASE AdvancesNow(b)
    <3>1. CopyHolds(actor[b])
      BY <2>2 DEF AdvancesNow, CopiesHold
    <3>2. actor'[b].role = actor[b].role /\ actor'[b].copy = actor[b].copy
      BY <2>2 DEF AdvancesNow
    <3>3. actor'[b].role = "delete" /\ actor'[b].step = "row" => "emptied" \in cause'
      BY <2>2, <2>c DEF AdvancesNow, StartBuild, RetirePreviousSnapshot, EnqueueBuild,
         DeleteRecipients, WritePage, Continue, Holds
    <3> QED
      BY <2>c, <3>1, <3>2, <3>3 DEF CopyHolds
  <2>3. ASSUME NEW role \in Roles, Open(b, role) PROVE CopyHolds(actor[b])'
    <3>0. 0 \in 0..LastPage
      BY CampaignLifecycleAssumption
    <3>1. /\ actor'[b].role = role /\ actor'[b].step = "open"
          /\ actor'[b].copy = CopyFor(role)
      BY <2>3, <3>0, OpenTyped DEF Open
    <3>2. /\ actor'[b].copy.status = row.status
          /\ actor'[b].copy.reason = IF role = "tick" THEN row.reason ELSE "none"
          /\ actor'[b].copy.started <=> role = "delete" /\ row.started
      BY <3>1, CopyTyped
    <3>3. MayOpen(role) /\ row.status \in Statuses
      BY <2>3 DEF Open, TypeOK, CampaignRow
    <3>4. actor'[b].copy.status \in ReadBy[role]
      BY <3>2, <3>3 DEF MayOpen, ReadBy, CanArchiveCampaign, Stopped, Roles
    <3>5. role = "delete" => ~actor'[b].copy.started
      BY <3>2, <3>3 DEF MayOpen, CanDeleteCampaign
    <3>6. role = "tick" => /\ row.status = "RUNNING"
                           /\ actor'[b].copy.reason = row.reason
      BY <3>2, <3>3 DEF MayOpen
    <3> QED
      BY <2>c, <3>1, <3>4, <3>5, <3>6 DEF CopyHolds, ReasonFitsStatus
  <2>4. ASSUME NEW p \in Pages, StartPage(b, p) PROVE CopyHolds(actor[b])'
    <3>1. CASE row.exists /\ row.status = "SNAPSHOTTING"
      <4>1. actor' = [actor EXCEPT ![b] = [role |-> "snapshot", step |-> "open",
                                           copy |-> CopyFor("snapshot"), page |-> p]]
        BY <2>4, <3>1 DEF StartPage
      <4>2. p \in 0..LastPage /\ "snapshot" \in Roles
        BY CampaignLifecycleAssumption DEF Pages, Roles
      <4>3. actor'[b].role = "snapshot" /\ actor'[b].copy.status = "SNAPSHOTTING"
        <5>1. actor'[b].role = "snapshot" /\ actor'[b].copy = CopyFor("snapshot")
          BY <4>1, <4>2, OpenTyped
        <5>2. CopyFor("snapshot").status = row.status
          BY <4>2, CopyTyped
        <5> QED
          BY <3>1, <5>1, <5>2
      <4>4. ReadBy["snapshot"] = {"SNAPSHOTTING"}
        BY DEF ReadBy, Roles
      <4> QED
        BY <4>3, <4>4 DEF CopyHolds
    <3>2. CASE ~(row.exists /\ row.status = "SNAPSHOTTING")
      BY <2>1, <2>4, <3>2 DEF StartPage
    <3> QED
      BY <3>1, <3>2
  <2> QED
    BY <1>1, <2>1, <2>2, <2>3, <2>4, ActorStep DEF OpensNow
<1>2. ~row'.exists => "emptied" \in cause'
  <2>c. cause \subseteq cause'
    BY CauseGrows
  <2>1. CASE row' = row
    BY <2>1, <2>c DEF CopiesHold
  <2>2. ASSUME NEW a \in Actors, NEW c \in Copy, NEW to \in Statuses,
               NEW reason \in Reasons, RowMoves(a, c, to, reason)
        PROVE  ~row'.exists => "emptied" \in cause'
    BY <2>2, <2>c DEF RowMoves, CopiesHold
  <2>3. ASSUME NEW a \in Actors, DeleteCampaign(a) PROVE "emptied" \in cause'
    <3>1. CopyHolds(actor[a]) /\ actor[a].role = "delete" /\ actor[a].step = "row"
      BY <2>3 DEF DeleteCampaign, Holds, CopiesHold
    <3> QED
      BY <2>c, <3>1 DEF CopyHolds
  <2>4. ASSUME NEW a \in Actors, Archive(a) PROVE ~row'.exists => "emptied" \in cause'
    <3>1. row'.exists = row.exists
      BY <2>4 DEF Archive, TypeOK, CampaignRow
    <3> QED
      BY <2>c, <3>1 DEF CopiesHold
  <2> QED
    BY <2>1, <2>2, <2>3, <2>4, RowStep
<1> QED
  BY <1>1, <1>2 DEF CopiesHold

\* What the row says happened did, with what the copies still say.
LEMMA RowInvariant == Spec => [](TypeOK /\ RowIsTrue /\ CopiesHold)
<1>1. Init => RowIsTrue /\ CopiesHold
  BY DEF Init, RowIsTrue, StartedIsKept, ArchivedHasStopped, ReasonFitsStatus, ReasonsFor,
     Statuses, CopiesHold
<1>2. ASSUME TypeOK, RowIsTrue, CopiesHold, [Next]_vars PROVE RowIsTrue'
  <2>c. cause \subseteq cause'
    BY <1>2, CauseGrows
  <2>0. StartedIsKept /\ ArchivedHasStopped /\ ReasonFitsStatus
    BY <1>2 DEF RowIsTrue
  <2>1. CASE row' = row
    BY <2>0, <2>1, <2>c DEF RowIsTrue, StartedIsKept, ArchivedHasStopped,
       ReasonFitsStatus, CanArchiveCampaign
  <2>2. ASSUME NEW a \in Actors, NEW c \in Copy, NEW to \in Statuses,
               NEW reason \in Reasons, RowMoves(a, c, to, reason), row' # row
        PROVE  RowIsTrue'
    <3>1. row.exists /\ row'.exists
      BY <2>2 DEF RowMoves
    <3>2. StartedIsKept'
      BY <3>1 DEF StartedIsKept
    <3>3. ArchivedHasStopped'
      <4> SUFFICES ASSUME row'.archived, "hidden" \notin cause'
                   PROVE  row'.status \in {"COMPLETED", "CANCELLED", "FAILED"}
        BY DEF ArchivedHasStopped, CanArchiveCampaign
      <4>1. row.archived /\ (c.archived => to = c.status) /\ c.archived = row.archived
        BY <2>2, <3>1 DEF RowMoves
      <4>2. row'.status = row.status
        BY <2>2, <3>1, <4>1 DEF RowMoves
      <4> QED
        BY <2>0, <2>c, <4>1, <4>2 DEF ArchivedHasStopped, CanArchiveCampaign
    <3>4. ReasonFitsStatus'
      <4>1. row'.reason = reason
        BY <2>2, <3>1 DEF RowMoves
      <4>2. row'.status = to \/ "mislabelled" \in cause'
        BY <2>2, <3>1 DEF RowMoves
      <4> QED
        BY <2>2, <2>c, <4>1, <4>2 DEF RowMoves, ReasonFitsStatus
    <3> QED
      BY <3>2, <3>3, <3>4 DEF RowIsTrue
  <2>3. ASSUME NEW a \in Actors, DeleteCampaign(a) PROVE RowIsTrue'
    <3>1. ~actor[a].copy.started
      BY <1>2, <2>3 DEF DeleteCampaign, Holds, CopiesHold, CopyHolds
    <3>2. /\ row'.status = row.status /\ row'.reason = row.reason
          /\ row'.archived = row.archived /\ row'.started = row.started
      BY <1>2, <2>3 DEF DeleteCampaign, TypeOK, CampaignRow
    <3>3. row.started => "deleted" \in cause'
      BY <2>3, <3>1 DEF DeleteCampaign
    <3> QED
      BY <2>0, <2>c, <3>2, <3>3 DEF RowIsTrue, StartedIsKept, ArchivedHasStopped,
         ReasonFitsStatus, CanArchiveCampaign
  <2>4. ASSUME NEW a \in Actors, Archive(a), row' # row PROVE RowIsTrue'
    <3>1. PICK archiving \in BOOLEAN :
             /\ Holds(a, IF archiving THEN "archive" ELSE "unarchive", "open")
             /\ row' = IF row.exists THEN [row EXCEPT !.archived = archiving] ELSE row
             /\ cause' = IF actor[a].copy.status = row.status THEN cause
                         ELSE cause \union {"hidden"}
      BY <2>4 DEF Archive
    <3>2. /\ row'.status = row.status /\ row'.reason = row.reason
          /\ row'.exists = row.exists /\ row'.started = row.started
          /\ row'.archived = archiving
      BY <1>2, <2>4, <3>1 DEF TypeOK, CampaignRow
    <3>3. archiving => actor[a].copy.status \in Stopped
      <4> SUFFICES ASSUME archiving PROVE actor[a].copy.status \in Stopped
        OBVIOUS
      <4>1. CopyHolds(actor[a]) /\ actor[a].role = "archive"
        BY <1>2, <3>1 DEF Holds, CopiesHold
      <4> QED
        BY <4>1 DEF CopyHolds, ReadBy, Roles
    <3>4. archiving => CanArchiveCampaign(row) \/ "hidden" \in cause'
      BY <3>1, <3>3 DEF CanArchiveCampaign, Stopped
    <3> QED
      BY <2>0, <2>c, <3>2, <3>4 DEF RowIsTrue, StartedIsKept, ArchivedHasStopped,
         ReasonFitsStatus, CanArchiveCampaign
  <2> QED
    BY <1>2, <2>1, <2>2, <2>3, <2>4, RowStep
<1>3. ASSUME TypeOK, RowIsTrue, CopiesHold, [Next]_vars PROVE CopiesHold'
  BY <1>3, CopiesKept DEF RowIsTrue
<1> QED
  BY <1>1, <1>2, <1>3, TypeCorrect, PTL DEF Spec

\* A campaign that has started is not deleted, only one that has stopped is hidden,
\* and its reason explains the status that is there, however requests, runner and
\* snapshot jobs race (transitionCampaign, canDeleteCampaign, canArchiveCampaign).
THEOREM RowCorrect == Spec => []RowIsTrue
  BY RowInvariant, PTL

-----------------------------------------------------------------------------
(***************************************************************************)
(* The audience.                                                           *)
(***************************************************************************)
\* An invocation that leaves, or that goes to a step that builds nothing, leaves the
\* build where it was, as long as the status allows for it.
LEMMA BuildFrame ==
    ASSUME OneBuild, BuildHolds, written' = written, jobs' = jobs,
           \A b \in Actors : actor'[b] = actor[b] \/ ~Builds(b)',
           (\E b \in Actors : Builds(b)') \/ (\E p \in Pages : jobs[p] > 0) =>
               row'.status \in {"SNAPSHOTTING", "CANCELLED"},
           row'.status \in Built => written = Pages
    PROVE  OneBuild' /\ BuildHolds'
<1>1. ASSUME NEW b \in Actors, Builds(b)'
      PROVE  Builds(b) /\ actor'[b] = actor[b]
  BY <1>1 DEF Builds, Holds
<1>2. OneBuild'
  BY <1>1 DEF OneBuild
<1>3. ASSUME NEW b \in Actors
      PROVE  /\ Builds(b)' => row'.status \in {"SNAPSHOTTING", "CANCELLED"}
             /\ Holds(b, "build", "enqueue")' => written' = {}
             /\ Holds(b, "snapshot", "open")' => written' = 1..(actor'[b].page - 1)
             /\ Holds(b, "snapshot", "next")' => written' = 1..actor'[b].page
  <2>1. CASE Builds(b)'
    <3>1. actor'[b] = actor[b]
      BY <1>1, <2>1
    <3> QED
      BY <2>1, <3>1 DEF BuildHolds, Holds
  <2>2. CASE ~Builds(b)'
    BY <2>2 DEF Builds
  <2> QED
    BY <2>1, <2>2
<1> QED
  BY <1>2, <1>3 DEF BuildHolds

\* One invocation takes up the build, hands it to a job or goes on with it: it is the
\* only place the build is at.
LEMMA BuildMoves ==
    ASSUME TypeOK, NEW a \in Actors,
           \A b \in Actors \ {a} : ~Builds(b)',
           \A b \in Actors \ {a} : actor'[b] = actor[b],
           (\A p \in Pages : jobs'[p] = 0)
             \/ (~Builds(a)' /\ \E q \in Pages :
                    /\ jobs'[q] = 1 /\ written' = 1..(q - 1)
                    /\ \A p \in Pages \ {q} : jobs'[p] = 0),
           row'.status \in {"SNAPSHOTTING", "CANCELLED"},
           Holds(a, "build", "enqueue")' => written' = {},
           Holds(a, "snapshot", "open")' => written' = 1..(actor'[a].page - 1),
           Holds(a, "snapshot", "next")' => written' = 1..actor'[a].page
    PROVE  OneBuild' /\ BuildHolds'
<1>1. \A b \in Actors \ {a} :
         /\ ~Holds(b, "build", "enqueue")'
         /\ ~Holds(b, "snapshot", "open")' /\ ~Holds(b, "snapshot", "next")'
  BY DEF Builds
<1>2. row'.status \notin Built
  BY DEF Built
<1>3. CASE \A p \in Pages : jobs'[p] = 0
  <2>1. OneBuild'
    BY <1>3 DEF OneBuild
  <2> QED
    BY <1>1, <1>2, <1>3, <2>1 DEF BuildHolds
<1>4. ASSUME NEW q \in Pages, ~Builds(a)', jobs'[q] = 1, written' = 1..(q - 1),
             \A p \in Pages \ {q} : jobs'[p] = 0
      PROVE  OneBuild' /\ BuildHolds'
  <2>1. \A b \in Actors : ~Builds(b)'
    BY <1>4
  <2>2. \A p \in Pages : jobs'[p] > 0 => p = q
    BY <1>4
  <2>3. OneBuild'
    BY <1>4, <2>1, <2>2 DEF OneBuild
  <2>4. BuildHolds'
    BY <1>1, <1>2, <1>4, <2>1, <2>2 DEF BuildHolds
  <2> QED
    BY <2>3, <2>4
<1> QED
  BY <1>3, <1>4

\* The one that builds is the only place the build is at.
LEMMA OnlyPlace ==
    ASSUME TypeOK, OneBuild, NEW a \in Actors, Builds(a)
    PROVE  /\ \A b \in Actors \ {a} : ~Builds(b)
           /\ \A p \in Pages : jobs[p] = 0
<1>1. \A p \in Pages : jobs[p] \in Nat /\ ~(jobs[p] > 0)
  BY DEF OneBuild, TypeOK
<1> QED
  BY <1>1 DEF OneBuild

\* As long as nothing excuses it, the build stays at one place and its pages stay whole.
LEMMA BuildStep ==
    ASSUME TypeOK, PagesKnown, CopiesHold, CopiesHold', SnapshotInv, [Next]_vars
    PROVE  SnapshotInv'
<1> SUFFICES ASSUME Unexcused' PROVE OneBuild' /\ BuildHolds'
  BY DEF SnapshotInv
<1>c. cause \subseteq cause'
  BY CauseGrows
<1>0. Unexcused /\ OneBuild /\ BuildHolds
  BY <1>c DEF Unexcused, SnapshotInv
<1>e. /\ "raced" \notin cause' /\ "rebuilt" \notin cause' /\ "retried" \notin cause'
      /\ "recovered" \notin cause' /\ "emptied" \notin cause'
  BY DEF Unexcused
<1>x. row.exists /\ row'.exists
  BY <1>c, <1>e DEF CopiesHold
<1>s. /\ (\E b \in Actors : Builds(b)) \/ (\E p \in Pages : jobs[p] > 0) =>
             row.status \in {"SNAPSHOTTING", "CANCELLED"}
      /\ row.status \in Built => written = Pages
  BY <1>0 DEF BuildHolds
\* Nothing of the build changes.
<1>q. ASSUME row'.status = row.status, written' = written, jobs' = jobs,
             \A b \in Actors : actor'[b] = actor[b] \/ ~Builds(b)'
      PROVE  OneBuild' /\ BuildHolds'
  <2>1. (\E b \in Actors : Builds(b)') => (\E b \in Actors : Builds(b))
    BY <1>q DEF Builds, Holds
  <2> QED
    BY <1>0, <1>q, <1>s, <2>1, BuildFrame
<1>d. ASSUME NEW a \in Actors, Done(a)
      PROVE  /\ \A b \in Actors : actor'[b] = actor[b] \/ ~Builds(b)'
             /\ ~Builds(a)' /\ \A b \in Actors \ {a} : actor'[b] = actor[b]
  BY <1>d, DoneTyped DEF Builds, Holds
<1>1. CASE UNCHANGED vars
  BY <1>1, <1>q DEF vars
<1>2. ASSUME NEW a \in Actors, NEW role \in Roles, Open(a, role)
      PROVE  OneBuild' /\ BuildHolds'
  <2>0. 0 \in 0..LastPage
    BY CampaignLifecycleAssumption
  <2>1. actor'[a].role = role /\ actor'[a].step = "open" /\ role # "snapshot"
        /\ \A b \in Actors \ {a} : actor'[b] = actor[b]
    BY <1>2, <2>0, OpenTyped DEF Open, MayOpen
  <2>2. ~Builds(a)'
    BY <2>1 DEF Builds, Holds
  <2> QED
    BY <1>2, <1>q, <2>1, <2>2 DEF Open
<1>3. ASSUME NEW a \in Actors, Drop(a) PROVE OneBuild' /\ BuildHolds'
  BY <1>3, <1>d, <1>q DEF Drop
<1>4. ASSUME NEW a \in Actors, NEW c \in Copy, NEW to \in Statuses,
             NEW reason \in Reasons, RowMoves(a, c, to, reason)
      PROVE  OneBuild' /\ BuildHolds'
  <2>1. c.status = row.status /\ row'.status = to /\ CanTransition(row.status, to)
        /\ written' = written /\ jobs' = jobs
    BY <1>4, <1>e, <1>x DEF RowMoves
  <2>2. CASE to = row.status
    <3>1. CASE Done(a)
      BY <1>d, <1>q, <2>1, <2>2, <3>1
    <3>2. CASE StartBuild(a)
      <4>1. actor[a].copy.status = "SNAPSHOTTING" => "rebuilt" \in cause'
        BY <3>2 DEF StartBuild, Because
      <4>2. actor[a].copy.status # row.status => "raced" \in cause'
        BY <3>2 DEF StartBuild, Because
      <4>3. CanTransition(row.status, "SNAPSHOTTING") /\ row.status # "SNAPSHOTTING"
        BY <1>e, <3>2, <4>1, <4>2 DEF StartBuild, Transition
      <4>4. row'.status = "SNAPSHOTTING"
        BY <1>e, <1>x, <3>2, <4>1, <4>2, <4>3 DEF StartBuild, Transition, TypeOK, CampaignRow
      <4> QED
        BY <2>1, <2>2, <4>3, <4>4
    <3> QED
      BY <1>4, <3>1, <3>2 DEF RowMoves
  <2>3. CASE to # row.status /\ to = "SNAPSHOTTING"
    <3>1. StartBuild(a) \/ NoteProgress(a)
      BY <1>4, <2>3 DEF RowMoves
    <3>2. ~NoteProgress(a)
      <4> SUFFICES ASSUME NoteProgress(a) PROVE FALSE
        OBVIOUS
      <4>1. CopyHolds(actor[a]) /\ actor[a].role = "snapshot"
        BY DEF NoteProgress, Holds, CopiesHold
      <4>2. ReadBy["snapshot"] = {"SNAPSHOTTING"}
        BY DEF ReadBy, Roles
      <4>3. actor[a].copy.status = "SNAPSHOTTING"
        BY <4>1, <4>2 DEF CopyHolds
      <4>4. "raced" \in cause'
        BY <2>3, <4>3 DEF NoteProgress, Because
      <4> QED
        BY <1>e, <4>4
    <3>3. StartBuild(a)
      BY <3>1, <3>2
    <3>4. row.status \in {"DRAFT", "READY"}
      BY <2>1, <2>3 DEF CanTransition, AllowedTransitions, Statuses, TypeOK, CampaignRow
    <3>5. /\ \A b \in Actors : ~Builds(b)
          /\ \A p \in Pages : ~(jobs[p] > 0)
      BY <1>s, <3>4
    <3>6. \A p \in Pages : jobs'[p] = 0
      BY <2>1, <3>5 DEF TypeOK
    <3>7. actor'[a].step = "retire" /\ \A b \in Actors \ {a} : actor'[b] = actor[b]
      BY <3>3, GotoTyped DEF StartBuild, Holds, ActorSteps
    <3>8. \A b \in Actors \ {a} : ~Builds(b)'
      BY <3>5, <3>7 DEF Builds, Holds
    <3>9. /\ ~Holds(a, "build", "enqueue")' /\ ~Holds(a, "snapshot", "open")'
          /\ ~Holds(a, "snapshot", "next")'
      BY <3>7 DEF Holds
    <3> QED
      BY <2>1, <2>3, <3>6, <3>7, <3>8, <3>9, BuildMoves
  <2>4. CASE to # row.status /\ to # "SNAPSHOTTING"
    <3>1. Done(a)
      <4> SUFFICES ASSUME StartBuild(a) PROVE FALSE
        BY <1>4 DEF RowMoves
      <4>1. row'.status \in {row.status, "SNAPSHOTTING"}
        BY <1>x DEF StartBuild, Transition, TypeOK, CampaignRow
      <4> QED
        BY <2>1, <2>4, <4>1
    <3>2. ~Builds(a)' /\ \A b \in Actors : actor'[b] = actor[b] \/ ~Builds(b)'
      BY <1>d, <3>1
    <3>3. (\E b \in Actors : Builds(b)') => (\E b \in Actors \ {a} : Builds(b))
      BY <3>2 DEF Builds, Holds
    <3>4. (\E b \in Actors \ {a} : Builds(b)) \/ (\E p \in Pages : jobs[p] > 0) =>
              ~Builds(a) /\ row.status = "SNAPSHOTTING" /\ to = "CANCELLED"
      <4> SUFFICES ASSUME (\E b \in Actors \ {a} : Builds(b)) \/ (\E p \in Pages : jobs[p] > 0)
                   PROVE  ~Builds(a) /\ row.status = "SNAPSHOTTING" /\ to = "CANCELLED"
        OBVIOUS
      <4>1. ~Builds(a)
        BY <1>0, OnlyPlace
      <4>2. row.status \in {"SNAPSHOTTING", "CANCELLED"}
        BY <1>s
      <4>3. row.status = "SNAPSHOTTING" /\ to \in {"READY", "FAILED", "CANCELLED"}
        BY <2>1, <2>4, <4>2 DEF CanTransition, AllowedTransitions, Statuses
      <4>4. to # "FAILED"
        BY <1>4, <2>1, <4>1, <4>3 DEF RowMoves
      <4>5. to # "READY"
        BY <1>4, <4>1 DEF RowMoves, FinishSnapshot, Builds
      <4> QED
        BY <4>1, <4>3, <4>4, <4>5
    <3>5. to \in Built => written = Pages
      <4>1. CASE row.status \in Built
        BY <1>s, <4>1
      <4>2. CASE to = "READY" /\ row.status \notin Built
        <5>1. FinishSnapshot(a)
          BY <1>4, <4>2 DEF RowMoves
        <5>2. written = 1..actor[a].page /\ actor[a].page = LastPage
          BY <1>0, <5>1 DEF FinishSnapshot, BuildHolds
        <5> QED
          BY <5>2 DEF Pages
      <4>3. CASE to = "PAUSED" /\ row.status = "FAILED"
        BY <1>4, <1>e, <2>1, <4>3 DEF RowMoves
      <4>4. to \in Built /\ row.status \notin Built =>
               to = "READY" \/ (to = "PAUSED" /\ row.status = "FAILED")
        BY <2>1, <2>4 DEF Built, CanTransition, AllowedTransitions, Statuses, TypeOK, CampaignRow
      <4> QED
        BY <4>1, <4>2, <4>3, <4>4
    <3> QED
      BY <1>0, <2>1, <3>2, <3>3, <3>4, <3>5, BuildFrame
  <2> QED
    BY <2>2, <2>3, <2>4
<1>5. ASSUME NEW a \in Actors, DeleteCampaign(a) \/ Archive(a)
      PROVE  OneBuild' /\ BuildHolds'
  <2>1. row'.status = row.status
    BY <1>5 DEF DeleteCampaign, Archive, TypeOK, CampaignRow
  <2>2. Done(a) /\ written' = written /\ jobs' = jobs
    BY <1>5 DEF DeleteCampaign, Archive
  <2> QED
    BY <1>d, <1>q, <2>1, <2>2
<1>6. ASSUME NEW a \in Actors, RetirePreviousSnapshot(a) PROVE OneBuild' /\ BuildHolds'
  <2>1. Builds(a)
    BY <1>6 DEF RetirePreviousSnapshot, Builds
  <2>2. /\ actor'[a].step = "enqueue" /\ actor'[a].role = "build"
        /\ \A b \in Actors \ {a} : actor'[b] = actor[b]
    BY <1>6, GotoTyped DEF RetirePreviousSnapshot, Holds, ActorSteps
  <2>3. \A b \in Actors \ {a} : ~Builds(b)'
    BY <1>0, <2>1, <2>2, OnlyPlace DEF Builds, Holds
  <2>4. \A p \in Pages : jobs'[p] = 0
    BY <1>0, <1>6, <2>1, OnlyPlace DEF RetirePreviousSnapshot
  <2>5. row'.status \in {"SNAPSHOTTING", "CANCELLED"} /\ written' = {}
    BY <1>6, <1>s, <2>1 DEF RetirePreviousSnapshot
  <2>6. ~Holds(a, "snapshot", "open")' /\ ~Holds(a, "snapshot", "next")'
    BY <2>2 DEF Holds
  <2> QED
    BY <2>2, <2>3, <2>4, <2>5, <2>6, BuildMoves
<1>7. ASSUME NEW a \in Actors, EnqueueBuild(a) PROVE OneBuild' /\ BuildHolds'
  <2>1. Builds(a) /\ actor[a] # Idle
    BY <1>7 DEF EnqueueBuild, Builds, Holds
  <2>2. row'.status \in {"SNAPSHOTTING", "CANCELLED"} /\ written' = {}
    BY <1>0, <1>7, <1>s, <2>1 DEF EnqueueBuild, BuildHolds
  <2>3. \A p \in Pages : jobs[p] = 0
    BY <1>0, <2>1, OnlyPlace
  <2>4. CASE Goto(a, "fail") /\ jobs' = jobs
    <3>1. /\ actor'[a].step = "fail"
          /\ \A b \in Actors \ {a} : actor'[b] = actor[b]
      BY <2>1, <2>4, GotoTyped DEF ActorSteps
    <3>2. \A b \in Actors \ {a} : ~Builds(b)'
      BY <1>0, <2>1, <3>1, OnlyPlace DEF Builds, Holds
    <3>3. /\ ~Holds(a, "build", "enqueue")' /\ ~Holds(a, "snapshot", "open")'
          /\ ~Holds(a, "snapshot", "next")'
      BY <3>1 DEF Holds
    <3> QED
      BY <2>2, <2>3, <2>4, <3>1, <3>2, <3>3, BuildMoves
  <2>5. CASE jobs' = [jobs EXCEPT ![1] = @ + 1] /\ Done(a)
    <3>1. ~Builds(a)' /\ \A b \in Actors \ {a} : actor'[b] = actor[b]
      BY <1>d, <2>5
    <3>2. \A b \in Actors \ {a} : ~Builds(b)'
      BY <1>0, <2>1, <3>1, OnlyPlace DEF Builds, Holds
    <3>3. 1 \in Pages /\ written' = 1..(1 - 1)
      BY <2>2, CampaignLifecycleAssumption DEF Pages
    <3>4. jobs'[1] = 1 /\ \A p \in Pages \ {1} : jobs'[p] = 0
      BY <2>3, <2>5, <3>3 DEF TypeOK
    <3>5. /\ ~Holds(a, "build", "enqueue")' /\ ~Holds(a, "snapshot", "open")'
          /\ ~Holds(a, "snapshot", "next")'
      BY <3>1 DEF Builds
    <3> QED
      BY <2>2, <3>1, <3>2, <3>3, <3>4, <3>5, BuildMoves
  <2> QED
    BY <1>7, <2>4, <2>5 DEF EnqueueBuild
<1>8. ASSUME NEW a \in Actors, DeleteRecipients(a) PROVE FALSE
  BY <1>8, <1>e DEF DeleteRecipients
<1>9. ASSUME NEW a \in Actors, NEW p \in Pages, StartPage(a, p)
      PROVE  OneBuild' /\ BuildHolds'
  <2>1. /\ jobs[p] = 1 /\ written = 1..(p - 1)
        /\ row.status \in {"SNAPSHOTTING", "CANCELLED"}
    BY <1>0, <1>9 DEF StartPage, OneBuild, BuildHolds, TypeOK
  <2>2. /\ \A q \in Pages : q # p => jobs[q] = 0
        /\ \A b \in Actors : ~Builds(b)
    BY <1>0, <1>9, <2>1 DEF StartPage, OneBuild, TypeOK
  <2>3. \A q \in Pages : jobs'[q] = 0
    BY <1>9, <2>1, <2>2 DEF StartPage, TypeOK
  <2>4. row'.status \in {"SNAPSHOTTING", "CANCELLED"} /\ written' = written
    BY <1>9, <2>1 DEF StartPage
  <2>5. \A b \in Actors \ {a} : actor'[b] = actor[b]
    BY <1>9 DEF StartPage, TypeOK
  <2>6. \A b \in Actors \ {a} : ~Builds(b)'
    BY <2>2, <2>5 DEF Builds, Holds
  <2>7. actor'[a] = actor[a] \/ (/\ actor'[a].role = "snapshot"
                                 /\ actor'[a].step = "open" /\ actor'[a].page = p)
    BY <1>9 DEF StartPage, TypeOK
  <2>8. CASE actor'[a] = actor[a]
    <3>1. ~Builds(a)'
      BY <2>2, <2>8 DEF Builds, Holds
    <3>2. /\ ~Holds(a, "build", "enqueue")' /\ ~Holds(a, "snapshot", "open")'
          /\ ~Holds(a, "snapshot", "next")'
      BY <3>1 DEF Builds
    <3> QED
      BY <2>3, <2>4, <2>5, <2>6, <3>2, BuildMoves
  <2>9. CASE /\ actor'[a].role = "snapshot"
             /\ actor'[a].step = "open" /\ actor'[a].page = p
    <3>1. /\ ~Holds(a, "build", "enqueue")' /\ ~Holds(a, "snapshot", "next")'
          /\ written' = 1..(actor'[a].page - 1)
      BY <2>1, <2>4, <2>9 DEF Holds
    <3> QED
      BY <2>3, <2>4, <2>5, <2>6, <3>1, BuildMoves
  <2> QED
    BY <2>7, <2>8, <2>9
<1>10. ASSUME NEW a \in Actors, WritePage(a) PROVE OneBuild' /\ BuildHolds'
  <2>1. Builds(a) /\ actor[a] # Idle /\ actor[a].page \in Pages
    BY <1>10 DEF WritePage, Builds, Holds, PagesKnown
  <2>2. row'.status \in {"SNAPSHOTTING", "CANCELLED"} /\ written = 1..(actor[a].page - 1)
    BY <1>0, <1>10, <1>s, <2>1 DEF WritePage, BuildHolds
  <2>3. written' = 1..actor[a].page
    <3>1. actor[a].page \in Nat \ {0}
      BY <2>1, CampaignLifecycleAssumption DEF Pages
    <3>2. (1..(actor[a].page - 1)) \union {actor[a].page} = 1..actor[a].page
      BY <3>1
    <3> QED
      BY <1>10, <2>2, <3>2 DEF WritePage
  <2>4. /\ actor'[a].step = "next" /\ actor'[a].page = actor[a].page
        /\ \A b \in Actors \ {a} : actor'[b] = actor[b]
    BY <1>10, <2>1, GotoTyped DEF WritePage, ActorSteps
  <2>5. \A b \in Actors \ {a} : ~Builds(b)'
    BY <1>0, <2>1, <2>4, OnlyPlace DEF Builds, Holds
  <2>6. \A p \in Pages : jobs'[p] = 0
    BY <1>0, <1>10, <2>1, OnlyPlace DEF WritePage
  <2>7. ~Holds(a, "build", "enqueue")' /\ ~Holds(a, "snapshot", "open")'
    BY <2>4 DEF Holds
  <2> QED
    BY <2>2, <2>3, <2>4, <2>5, <2>6, <2>7, BuildMoves
<1>11. ASSUME NEW a \in Actors, Continue(a) PROVE OneBuild' /\ BuildHolds'
  <2>1. Builds(a) /\ actor[a] # Idle /\ actor[a].page \in Pages
    BY <1>11 DEF Continue, Builds, Holds, PagesKnown
  <2>2. /\ row'.status \in {"SNAPSHOTTING", "CANCELLED"}
        /\ written = 1..actor[a].page /\ written' = written
    BY <1>0, <1>11, <1>s, <2>1 DEF Continue, BuildHolds
  <2>3. \A p \in Pages : jobs[p] = 0
    BY <1>0, <2>1, OnlyPlace
  <2>4. ASSUME NEW s \in {"note", "fail"}, Goto(a, s)
        PROVE  /\ actor'[a].step = s /\ actor'[a].role = "snapshot"
               /\ \A b \in Actors \ {a} : actor'[b] = actor[b] /\ ~Builds(b)'
               /\ ~Holds(a, "build", "enqueue")' /\ ~Holds(a, "snapshot", "open")'
               /\ ~Holds(a, "snapshot", "next")'
    <3>1. /\ actor'[a].step = s /\ actor'[a].role = "snapshot"
          /\ \A b \in Actors \ {a} : actor'[b] = actor[b]
      BY <1>11, <2>1, <2>4, GotoTyped DEF Continue, Holds, ActorSteps
    <3>2. \A b \in Actors \ {a} : ~Builds(b)'
      BY <1>0, <2>1, <3>1, OnlyPlace DEF Builds, Holds
    <3> QED
      BY <2>4, <3>1, <3>2 DEF Holds
  <2>5. CASE Goto(a, "fail") /\ jobs' = jobs
    BY <2>2, <2>3, <2>4, <2>5, BuildMoves
  <2>6. CASE jobs' = [jobs EXCEPT ![actor[a].page + 1] = @ + 1] /\ Goto(a, "note")
    <3> DEFINE q == actor[a].page + 1
    <3>1. q \in Pages /\ q - 1 = actor[a].page
      BY <1>11, <2>1, CampaignLifecycleAssumption DEF Continue, Pages
    <3>2. jobs'[q] = 1 /\ \A p \in Pages \ {q} : jobs'[p] = 0
      BY <2>3, <2>6, <3>1 DEF TypeOK
    <3>3. written' = 1..(q - 1)
      BY <2>2, <3>1
    <3>4. /\ ~Builds(a)' /\ \A b \in Actors \ {a} : actor'[b] = actor[b] /\ ~Builds(b)'
          /\ ~Holds(a, "build", "enqueue")' /\ ~Holds(a, "snapshot", "open")'
          /\ ~Holds(a, "snapshot", "next")'
      BY <2>4, <2>6 DEF Builds, Holds
    <3> HIDE DEF q
    <3> QED
      BY <2>2, <3>1, <3>2, <3>3, <3>4, BuildMoves
  <2> QED
    BY <1>11, <2>5, <2>6 DEF Continue
<1>12. ASSUME NEW a \in Actors, ThrowPage(a) PROVE OneBuild' /\ BuildHolds'
  <2>1. jobs' = jobs
    BY <1>12, <1>e DEF ThrowPage
  <2> QED
    BY <1>12, <1>d, <1>q, <2>1 DEF ThrowPage
<1> QED
  BY <1>1, <1>2, <1>3, <1>4, <1>5, <1>6, <1>7, <1>8, <1>9, <1>10, <1>11, <1>12,
     RowStep DEF WritesNoRow

\* A campaign whose recipients can be sent to has those of the whole audience, but for
\* the five ways that cause names (wa-campaign-snapshot: never "a partial audience that
\* reports itself ready").
THEOREM AudienceCorrect == Spec => []AudienceIsWhole
<1>1. Init => SnapshotInv
  <2> SUFFICES ASSUME Init PROVE OneBuild /\ BuildHolds
    BY DEF SnapshotInv
  <2>1. \A a \in Actors : actor[a] = Idle
    BY DEF Init
  <2>2. \A a \in Actors : \A r, s : ~Holds(a, r, s)
    BY <2>1 DEF Holds
  <2>3. \A a \in Actors : ~Builds(a)
    BY <2>2 DEF Builds
  <2>4. \A p \in Pages : jobs[p] = 0
    BY DEF Init
  <2>5. row.status \notin Built
    BY DEF Init, Built
  <2> QED
    BY <2>2, <2>3, <2>4, <2>5 DEF OneBuild, BuildHolds
<1>2. /\ TypeOK /\ PagesKnown /\ CopiesHold /\ CopiesHold' /\ SnapshotInv /\ [Next]_vars
      => SnapshotInv'
  BY BuildStep
<1>3. SnapshotInv /\ CopiesHold => AudienceIsWhole
  BY DEF SnapshotInv, BuildHolds, Built, Unexcused, AudienceIsWhole
<1> QED
  BY <1>1, <1>2, <1>3, TypeInvariant, RowInvariant, PTL DEF Spec
-----------------------------------------------------------------------------
(***************************************************************************)
(* Consent: the inductive invariant.                                       *)
(***************************************************************************)
Entry == [to : Decision, at : -1..MaxClock]
Changes == [person : People, to : Status, by : Writers \union {"hand"}]
Waiting == [step : {"none", "done"}]
Queued == [step : {"queued"}, want : Decision]
Working == [step : {"weighed", "logged", "patched"}, person : People, want : Decision,
            was : Status, dated : BOOLEAN, blocked : BOOLEAN]
WriterRecords == Waiting \union Queued \union Working
Gates == [step : {"idle"}]
         \union [step : {"thread"}, isBlocked : BOOLEAN,
                 link : People \union {Nobody}, expires : Nat]
         \union [step : {"cleared"}, kind : {"TEMPLATE", "FREEFORM"}]

ConsentTypes ==
    /\ clock \in 0..MaxClock /\ link \in People \union {Nobody} /\ isBlocked \in BOOLEAN
    /\ expires \in Nat /\ consent \in [People -> Status]
    /\ trail \in [People -> Seq(Entry)] /\ edits \subseteq Changes
    /\ writer \in [Writers -> WriterRecords] /\ gate \in Gates
    /\ asked \in Status /\ turns \in [People -> Nat] /\ answers \in [People -> Nat]
    /\ mishaps \in Nat /\ grounds \subseteq Grounds

\* Only a keyword job is queued, or has more to do after the person's row; who
\* weighed a status did so because it is not the one that is wanted.
WritersFit ==
    \A w \in Writers :
      /\ writer[w].step \in {"queued", "patched"} => w \in Words
      /\ writer[w].step \in {"weighed", "logged"} => writer[w].was # writer[w].want

\* What the gate would refuse.
Refused == \/ isBlocked
           \/ \E p \in Primary : consent[p] = "OPTED_OUT"
           \/ link # Nobody /\ consent[link] = "OPTED_OUT"
Unblamed == grounds \intersect {"stale", "blind", "lost", "order", "rep", "alias"} = {}

\* A job under way is for the person the conversation is linked to.
JobsFollow ==
    Unblamed => \A w \in Words : writer[w].step \in {"weighed", "logged", "patched"} =>
                    writer[w].person = link

\* A STOP that was said last is in the hands of a job, or has been obeyed.
StopIsCarried ==
    Unblamed /\ asked = "OPTED_OUT" =>
        \/ Refused
        \/ \E w \in Words : /\ writer[w].step \in {"queued", "weighed", "logged"}
                            /\ writer[w].want = "OPTED_OUT"

\* The gate is open on the rows as they are, but for a block that was lifted.
GateIsFresh ==
    Unblamed =>
      /\ gate.step = "thread" => gate.link = link /\ (isBlocked => gate.isBlocked)
      /\ gate.step = "cleared" /\ gate.kind = "TEMPLATE" => ~Refused

Traced == grounds \intersect {"lost", "overlap", "slow", "late", "masked"} = {}
ByHand(p, to) == [person |-> p, to |-> to, by |-> "hand"]
Pending(p) == {to \in Decision : ByHand(p, to) \in edits}
Logged(p) == {w \in Writers : writer[w].step = "logged" /\ writer[w].person = p}
Patched(p) == {w \in Writers : writer[w].step = "patched" /\ writer[w].person = p}
EndsIn(p, to) == trail[p] # <<>> /\ trail[p][Len(trail[p])].to = to

\* Each decision has its event, or will get it from the back-fill; a writer's
\* event comes before its decision.
EventsAddUp ==
    Traced => \A p \in People :
        Len(trail[p]) + Cardinality(Pending(p)) = turns[p] + Cardinality(Logged(p))

\* The last event is the status, unless an edit is still to be back-filled, or a
\* writer has still to do what its event says.
LastEventFits ==
    Traced => \A p \in People :
        \/ \E to \in Status : ByHand(p, to) \in edits
        \/ \E w \in Logged(p) : EndsIn(p, writer[w].want)
        \/ Logged(p) = {} /\ (consent[p] # "UNKNOWN" => EndsIn(p, consent[p]))

\* Every answer, and every one still to come, has a decision of its own.
AnswersAddUp ==
    "overlap" \notin grounds => \A p \in People :
        answers[p] + Cardinality(Patched(p)) <= turns[p]

ConsentInv ==
    /\ ConsentTypes /\ WritersFit /\ JobsFollow /\ StopIsCarried /\ GateIsFresh
    /\ EventsAddUp /\ LastEventFits /\ AnswersAddUp
-----------------------------------------------------------------------------
(***************************************************************************)
(* Consent: types.                                                         *)
(***************************************************************************)
\* The bounds are numbers.
LEMMA ConsentBounds ==
    /\ WindowLength \in Nat /\ MaxClock \in Nat /\ MaxMishaps \in Nat
    /\ IsFiniteSet(Writers) /\ "hand" \notin Writers
  BY ConsentAssumption DEF Writers

\* What a step leaves alone keeps its type.
LEMMA ConsentLeavesAlone ==
    ASSUME ConsentTypes
    PROVE  /\ clock' = clock => clock' \in 0..MaxClock
           /\ link' = link => link' \in People \union {Nobody}
           /\ isBlocked' = isBlocked => isBlocked' \in BOOLEAN
           /\ expires' = expires => expires' \in Nat
           /\ consent' = consent => consent' \in [People -> Status]
           /\ trail' = trail => trail' \in [People -> Seq(Entry)]
           /\ edits' = edits => edits' \subseteq Changes
           /\ writer' = writer => writer' \in [Writers -> WriterRecords]
           /\ gate' = gate => gate' \in Gates
           /\ asked' = asked => asked' \in Status
           /\ turns' = turns => turns' \in [People -> Nat]
           /\ answers' = answers => answers' \in [People -> Nat]
           /\ mishaps' = mishaps => mishaps' \in Nat
           /\ grounds' = grounds => grounds' \subseteq Grounds
  BY DEF ConsentTypes

\* A cause that is noted is a cause.
LEMMA CausesAre ==
    ASSUME NEW c \in Grounds, NEW when
    PROVE  Since(c, when) \subseteq Grounds
  BY DEF Since

\* What a writer weighed is a record, queued or working, and what it is about.
LEMMA WriterFacts ==
    ASSUME ConsentTypes, NEW w \in Writers
    PROVE  /\ writer[w] \in WriterRecords
           /\ writer[w].step = "queued" => writer[w] \in Queued
           /\ writer[w].step \in {"weighed", "logged", "patched"} => writer[w] \in Working
  BY DEF ConsentTypes, WriterRecords, Waiting, Queued, Working

\* One writer moves.
LEMMA WriterMoves ==
    ASSUME ConsentTypes, NEW w \in Writers, NEW r \in WriterRecords,
           writer' = [writer EXCEPT ![w] = r]
    PROVE  /\ writer' \in [Writers -> WriterRecords]
           /\ writer'[w] = r /\ \A v \in Writers \ {w} : writer'[v] = writer[v]
  BY DEF ConsentTypes

\* Weighing a status ends the writer's work, or begins it.
LEMMA WeighMoves ==
    ASSUME ConsentTypes, NEW w \in Writers, NEW p \in People, NEW want \in Decision,
           NEW dated \in BOOLEAN, Weigh(w, p, want, dated)
    PROVE  \E r \in WriterRecords :
             /\ writer' = [writer EXCEPT ![w] = r]
             /\ consent[p] = want => r = Finished
             /\ consent[p] # want =>
                  /\ r.step = "weighed" /\ r.person = p /\ r.want = want /\ r.was = consent[p]
  <1> DEFINE new == [step |-> "weighed", person |-> p, want |-> want, was |-> consent[p],
                     dated |-> dated, blocked |-> isBlocked]
  <1>1. new \in Working
    BY DEF Working, ConsentTypes
  <1>2. new.step = "weighed" /\ new.person = p /\ new.want = want /\ new.was = consent[p]
    OBVIOUS
  <1>3. Finished \in Waiting
    BY DEF Finished, Waiting
  <1>4. writer' = [writer EXCEPT ![w] = IF consent[p] = want THEN Finished ELSE new]
    BY DEF Weigh
  <1> HIDE DEF new
  <1>5. new \in WriterRecords /\ Finished \in WriterRecords
    BY <1>1, <1>3 DEF WriterRecords
  <1>6. CASE consent[p] = want
    BY <1>4, <1>5, <1>6
  <1>7. CASE consent[p] # want
    BY <1>2, <1>4, <1>5, <1>7
  <1> QED BY <1>6, <1>7

\* The next step of a writer at work.
LEMMA WorkingOn ==
    ASSUME NEW r \in Working, NEW step \in {"weighed", "logged", "patched"}
    PROVE  /\ [r EXCEPT !.step = step] \in Working
           /\ [r EXCEPT !.step = step].step = step
           /\ [r EXCEPT !.step = step].person = r.person
           /\ [r EXCEPT !.step = step].want = r.want
           /\ [r EXCEPT !.step = step].was = r.was
  BY DEF Working

\* A change of a person's status is counted, and raises an event.
LEMMA TurnedTypes ==
    ASSUME ConsentTypes, NEW p \in People, NEW to \in Status, NEW by \in Writers \union {"hand"},
           Turned(p, to, by)
    PROVE  turns' \in [People -> Nat] /\ edits' \subseteq Changes
  <1>1. turns' \in [People -> Nat]
    <2> DEFINE n == IF to \in Decision \ {consent[p]} THEN 1 ELSE 0
    <2>1. n \in Nat
      OBVIOUS
    <2>2. turns' = [turns EXCEPT ![p] = @ + n]
      BY DEF Turned
    <2> HIDE DEF n
    <2> QED BY <2>1, <2>2 DEF ConsentTypes
  <1>2. [person |-> p, to |-> to, by |-> by] \in Changes
    BY DEF Changes
  <1>3. edits' \subseteq edits \union {[person |-> p, to |-> to, by |-> by]}
    BY DEF Turned
  <1> QED BY <1>1, <1>2, <1>3 DEF ConsentTypes

\* The event of a decision.
LEMMA TrailTypes ==
    ASSUME ConsentTypes, NEW p \in People, NEW e \in Entry,
           trail' = [trail EXCEPT ![p] = Append(@, e)]
    PROVE  trail' \in [People -> Seq(Entry)]
  BY DEF ConsentTypes

\* Steps keep the types.
LEMMA ConsentTypesStep == ConsentTypes /\ [ConsentNext]_consentVars => ConsentTypes'
<1> SUFFICES ASSUME ConsentTypes, [ConsentNext]_consentVars PROVE ConsentTypes'
  OBVIOUS
<1> USE ConsentBounds
<1>a. \A c \in {"stale", "blind", "lost", "overlap", "order", "rep", "alias", "slow", "late",
                "masked"} : c \in Grounds
  BY DEF Grounds
<1>b. grounds \subseteq Grounds /\ mishaps \in Nat
  BY DEF ConsentTypes
<1>c. mishaps + 1 \in Nat /\ mishaps + 0 \in Nat
  BY <1>b
<1>l. /\ clock' = clock => clock' \in 0..MaxClock
      /\ link' = link => link' \in People \union {Nobody}
      /\ isBlocked' = isBlocked => isBlocked' \in BOOLEAN
      /\ expires' = expires => expires' \in Nat
      /\ consent' = consent => consent' \in [People -> Status]
      /\ trail' = trail => trail' \in [People -> Seq(Entry)]
      /\ edits' = edits => edits' \subseteq Changes
      /\ writer' = writer => writer' \in [Writers -> WriterRecords]
      /\ gate' = gate => gate' \in Gates
      /\ asked' = asked => asked' \in Status
      /\ turns' = turns => turns' \in [People -> Nat]
      /\ answers' = answers => answers' \in [People -> Nat]
      /\ mishaps' = mishaps => mishaps' \in Nat
      /\ grounds' = grounds => grounds' \subseteq Grounds
  BY ConsentLeavesAlone
<1>1. CASE ReadThread
  <2>1. gate' \in Gates
    BY <1>1 DEF ReadThread, Gates, ConsentTypes
  <2> QED BY <1>1, <1>l, <2>1 DEF ReadThread, ConsentTypes, threadVars, historyVars
<1>2. ASSUME NEW intent \in Intents, NEW swept \in BOOLEAN, PassGate(intent, swept)
      PROVE  ConsentTypes'
  <2>1. gate' \in Gates
    <3>1. intent.kind \in {"TEMPLATE", "FREEFORM"}
      BY ConsentAssumption
    <3>2. gate' = [step |-> "cleared", kind |-> intent.kind] \/ gate' = [step |-> "idle"]
      BY <1>2 DEF PassGate
    <3> QED BY <3>1, <3>2 DEF Gates
  <2>2. mishaps' \in Nat
    BY <1>2, <1>c DEF PassGate
  <2>3. grounds' \subseteq Grounds
    BY <1>2, <1>a, <1>b DEF PassGate, Since
  <2> QED BY <1>2, <1>l, <2>1, <2>2, <2>3 DEF PassGate, ConsentTypes, threadVars
<1>3. CASE Post
  <2>1. gate' \in Gates
    BY <1>3 DEF Post, Gates
  <2> QED BY <1>3, <1>l, <2>1 DEF Post, ConsentTypes, threadVars, historyVars
<1>4. ASSUME NEW w \in Words, Say(w) PROVE ConsentTypes'
  <2>1. PICK want \in Decision : /\ writer' = [writer EXCEPT
                                               ![w] = [step |-> "queued", want |-> want]]
                                 /\ asked' = want
    BY <1>4 DEF Say
  <2>2. [step |-> "queued", want |-> want] \in WriterRecords
    BY DEF WriterRecords, Queued
  <2>3. writer' \in [Writers -> WriterRecords]
    BY <2>1, <2>2, WriterMoves DEF Writers
  <2>4. asked' \in Status
    BY <2>1 DEF Status
  <2>5. expires' \in Nat
    BY <1>4 DEF Say, ConsentTypes
  <2> QED BY <1>4, <1>l, <2>3, <2>4, <2>5 DEF Say, ConsentTypes
<1>5. ASSUME NEW w \in Words, Suppress(w) PROVE ConsentTypes'
  <2>1. isBlocked' \in BOOLEAN
    BY <1>5 DEF Suppress
  <2>2. Finished \in WriterRecords
    BY DEF Finished, WriterRecords, Waiting
  <2>3. writer' \in [Writers -> WriterRecords]
    BY <1>5, <2>2, WriterMoves DEF Suppress, Writers
  <2>4. grounds' \subseteq Grounds
    BY <1>5, <1>a, <1>b DEF Suppress, Since
  <2> QED BY <1>5, <1>l, <2>1, <2>3, <2>4 DEF Suppress, ConsentTypes, historyVars
<1>6. ASSUME NEW w \in Words, WeighKeyword(w) PROVE ConsentTypes'
  <2>1. w \in Writers /\ link \in People /\ writer[w].want \in Decision
    BY <1>6, WriterFacts DEF WeighKeyword, ConsentTypes, Queued, Writers
  <2>2. writer' \in [Writers -> WriterRecords]
    <3>1. \E r \in WriterRecords : writer' = [writer EXCEPT ![w] = r]
      <4>1. Weigh(w, link, writer[w].want, TRUE) /\ TRUE \in BOOLEAN
        BY <1>6 DEF WeighKeyword
      <4>2. PICK want \in Decision, dated \in BOOLEAN : want = writer[w].want /\ dated = TRUE
        BY <2>1
      <4>3. Weigh(w, link, want, dated)
        BY <4>1, <4>2, Zenon
      <4> QED BY <2>1, <4>3, WeighMoves
    <3> QED BY <2>1, <3>1, WriterMoves
  <2>3. grounds' \subseteq Grounds
    BY <1>6, <1>a, <1>b DEF WeighKeyword, Since
  <2> QED BY <1>6, <1>l, <2>2, <2>3 DEF WeighKeyword, ConsentTypes, threadVars, historyVars
<1>7. ASSUME NEW w \in Reps, WeighRoute(w) PROVE ConsentTypes'
  <2>1. w \in Writers
    BY DEF Writers
  <2>2. writer' \in [Writers -> WriterRecords]
    <3>1. \E r \in WriterRecords : writer' = [writer EXCEPT ![w] = r]
      BY <1>7, <2>1, WeighMoves DEF WeighRoute
    <3> QED BY <2>1, <3>1, WriterMoves
  <2>3. mishaps' \in Nat
    BY <1>7, <1>c DEF WeighRoute
  <2> QED BY <1>7, <1>l, <2>2, <2>3 DEF WeighRoute, ConsentTypes, threadVars
<1>8. ASSUME NEW w \in Writers, LogEvent(w) PROVE ConsentTypes'
  <2>1. writer[w] \in Working
    BY <1>8, WriterFacts DEF LogEvent
  <2>2. writer' \in [Writers -> WriterRecords]
    <3>1. [writer[w] EXCEPT !.step = "logged"] \in WriterRecords
      BY <2>1, WorkingOn DEF WriterRecords
    <3>2. writer' = [writer EXCEPT ![w] = [writer[w] EXCEPT !.step = "logged"]]
      BY <1>8 DEF LogEvent, ConsentTypes
    <3> QED BY <3>1, <3>2, WriterMoves
  <2>3. trail' \in [People -> Seq(Entry)]
    <3> DEFINE e == [to |-> writer[w].want, at |-> IF writer[w].dated THEN clock ELSE -1]
    <3>1. e \in Entry /\ writer[w].person \in People
      <4>1. clock \in -1..MaxClock /\ -1 \in -1..MaxClock
        BY DEF ConsentTypes
      <4> QED BY <2>1, <4>1 DEF Working, Entry
    <3>2. trail' = [trail EXCEPT ![writer[w].person] = Append(@, e)]
      BY <1>8 DEF LogEvent
    <3> HIDE DEF e
    <3> QED BY <3>1, <3>2, TrailTypes
  <2> QED BY <1>8, <1>l, <2>2, <2>3 DEF LogEvent, ConsentTypes, threadVars, historyVars
<1>9. ASSUME NEW w \in Writers, PatchPerson(w) PROVE ConsentTypes'
  <2>1. writer[w] \in Working
    BY <1>9, WriterFacts DEF PatchPerson
  <2>2. writer[w].person \in People /\ writer[w].want \in Decision /\ writer[w].want \in Status
    BY <2>1 DEF Working, Status
  <2>3. consent' \in [People -> Status]
    BY <1>9, <2>2 DEF PatchPerson, ConsentTypes
  <2>4. turns' \in [People -> Nat] /\ edits' \subseteq Changes
    BY <1>9, <2>2, TurnedTypes DEF PatchPerson
  <2>5. writer' \in [Writers -> WriterRecords]
    <3>1. [writer[w] EXCEPT !.step = "patched"] \in WriterRecords
      BY <2>1, WorkingOn DEF WriterRecords
    <3>2. Finished \in WriterRecords
      BY DEF Finished, WriterRecords, Waiting
    <3>3. \/ writer' = [writer EXCEPT ![w] = [writer[w] EXCEPT !.step = "patched"]]
          \/ writer' = [writer EXCEPT ![w] = Finished]
      BY <1>9 DEF PatchPerson, ConsentTypes
    <3> QED BY <3>1, <3>2, <3>3, WriterMoves
  <2>6. grounds' \subseteq Grounds
    <3>1. \A c \in Grounds : \A when : Since(c, when) \subseteq Grounds
      BY DEF Since
    <3> QED BY <1>9, <1>a, <1>b, <3>1 DEF PatchPerson
  <2> QED BY <1>9, <1>l, <2>3, <2>4, <2>5, <2>6 DEF PatchPerson, ConsentTypes, threadVars
<1>10. ASSUME NEW w \in Words, Confirm(w) PROVE ConsentTypes'
  <2>1. isBlocked' \in BOOLEAN
    BY <1>10 DEF Confirm
  <2>2. w \in Writers /\ writer[w].person \in People
    BY <1>10, WriterFacts DEF Confirm, Working, Writers
  <2>3. answers' \in [People -> Nat] /\ mishaps' \in Nat
    <3>1. CASE answers' = [answers EXCEPT ![writer[w].person] = @ + 1] /\ UNCHANGED mishaps
      BY <1>l, <2>2, <3>1 DEF ConsentTypes
    <3>2. CASE mishaps' = mishaps + 1 /\ UNCHANGED answers
      BY <1>c, <1>l, <3>2
    <3> QED BY <1>10, <3>1, <3>2 DEF Confirm
  <2>4. Finished \in WriterRecords
    BY DEF Finished, WriterRecords, Waiting
  <2>5. writer' \in [Writers -> WriterRecords]
    BY <1>10, <2>2, <2>4, WriterMoves DEF Confirm
  <2>6. grounds' \subseteq Grounds
    <3>1. \A c \in Grounds : \A when : Since(c, when) \subseteq Grounds
      BY DEF Since
    <3> QED BY <1>10, <1>a, <1>b, <3>1 DEF Confirm
  <2> QED BY <1>10, <1>l, <2>1, <2>3, <2>5, <2>6 DEF Confirm, ConsentTypes
<1>11. ASSUME NEW w \in Writers, ConsentFails(w) PROVE ConsentTypes'
  <2>1. writer[w] \in Working
    BY <1>11, WriterFacts DEF ConsentFails
  <2>2. writer' \in [Writers -> WriterRecords]
    <3>1. Finished \in WriterRecords
      BY DEF Finished, WriterRecords, Waiting
    <3>2. [step |-> "queued", want |-> writer[w].want] \in WriterRecords
      BY <2>1 DEF Working, WriterRecords, Queued
    <3>3. \/ writer' = [writer EXCEPT ![w] = Finished]
          \/ writer' = [writer EXCEPT ![w] = [step |-> "queued", want |-> writer[w].want]]
      BY <1>11 DEF ConsentFails
    <3> QED BY <3>1, <3>2, <3>3, WriterMoves
  <2>3. mishaps' \in Nat /\ grounds' \subseteq Grounds
    BY <1>11, <1>a, <1>b, <1>c DEF ConsentFails
  <2> QED BY <1>11, <1>l, <2>2, <2>3 DEF ConsentFails, ConsentTypes, threadVars
<1>12. ASSUME NEW p \in People, NEW to \in Status, EditPerson(p, to) PROVE ConsentTypes'
  <2>1. consent' \in [People -> Status]
    BY <1>12 DEF EditPerson, ConsentTypes
  <2>2. turns' \in [People -> Nat] /\ edits' \subseteq Changes
    BY <1>12, TurnedTypes DEF EditPerson
  <2>3. mishaps' \in Nat /\ grounds' \subseteq Grounds
    BY <1>12, <1>a, <1>b, <1>c DEF EditPerson, Since
  <2> QED BY <1>12, <1>l, <2>1, <2>2, <2>3 DEF EditPerson, ConsentTypes, threadVars
<1>13. ASSUME NEW edit \in edits, Backfill(edit) PROVE ConsentTypes'
  <2>1. edit \in Changes
    BY DEF ConsentTypes
  <2>2. edits' \subseteq Changes
    BY <1>13 DEF Backfill, ConsentTypes
  <2>3. trail' \in [People -> Seq(Entry)]
    <3>1. CASE trail' = trail
      BY <1>l, <3>1
    <3>2. CASE /\ edit.to # "UNKNOWN"
               /\ trail' = [trail EXCEPT ![edit.person] = Append(@, [to |-> edit.to, at |-> clock])]
      <4>1. [to |-> edit.to, at |-> clock] \in Entry
        BY <2>1, <3>2 DEF Changes, Status, Entry, ConsentTypes
      <4> QED BY <2>1, <3>2, <4>1, TrailTypes DEF Changes
    <3> QED BY <1>13, <3>1, <3>2 DEF Backfill
  <2>4. mishaps' \in Nat
    BY <1>13, <1>b, <1>c DEF Backfill
  <2>5. grounds' \subseteq Grounds
    <3>1. \A c \in Grounds : \A when : Since(c, when) \subseteq Grounds
      BY DEF Since
    <3> QED BY <1>13, <1>a, <1>b, <3>1 DEF Backfill
  <2> QED BY <1>13, <1>l, <2>2, <2>3, <2>4, <2>5 DEF Backfill, ConsentTypes, threadVars
<1>14. ASSUME NEW p \in People \union {Nobody}, Relink(p) PROVE ConsentTypes'
  <2>1. mishaps' \in Nat
    BY <1>14, <1>c DEF Relink
  <2>2. grounds' \subseteq Grounds
    <3>1. \A c \in Grounds : \A when : Since(c, when) \subseteq Grounds
      BY DEF Since
    <3> QED BY <1>14, <1>a, <1>b, <3>1 DEF Relink
  <2> QED BY <1>14, <1>l, <2>1, <2>2 DEF Relink, ConsentTypes
<1>15. ASSUME NEW blocked \in BOOLEAN, SetBlock(blocked) PROVE ConsentTypes'
  <2>1. mishaps' \in Nat /\ grounds' \subseteq Grounds
    BY <1>15, <1>a, <1>b, <1>c DEF SetBlock, Since
  <2>2. isBlocked' \in BOOLEAN
    BY <1>15 DEF SetBlock
  <2> QED BY <1>15, <1>l, <2>1, <2>2 DEF SetBlock, ConsentTypes
<1>16. CASE Elapse
  <2>1. clock' \in 0..MaxClock
    BY <1>16 DEF Elapse, ConsentTypes
  <2> QED BY <1>16, <1>l, <2>1 DEF Elapse, ConsentTypes, threadVars, historyVars
<1>17. CASE UNCHANGED consentVars
  BY <1>17 DEF consentVars, ConsentTypes, threadVars
<1> QED
  BY <1>1, <1>2, <1>3, <1>4, <1>5, <1>6, <1>7, <1>8, <1>9, <1>10, <1>11, <1>12, <1>13,
     <1>14, <1>15, <1>16, <1>17 DEF ConsentNext
-----------------------------------------------------------------------------
(***************************************************************************)
(* Consent: what a writer's step does to the writers.                      *)
(***************************************************************************)
Only(w) == \A v \in Writers \ {w} : writer'[v] = writer[v]
Keeps(w) == /\ writer'[w].person = writer[w].person /\ writer'[w].want = writer[w].want
            /\ writer'[w].was = writer[w].was
Job(w) == /\ writer[w].person \in People /\ writer[w].want \in Decision
          /\ writer[w].was \in Status

\* A keyword is queued as it was said.
LEMMA SayMoves ==
    ASSUME ConsentTypes, NEW w \in Words, Say(w)
    PROVE  /\ Only(w) /\ w \in Writers /\ writer[w].step = "none"
           /\ writer'[w].step = "queued" /\ writer'[w].want = asked'
  <1>1. PICK want \in Decision : /\ writer' = [writer EXCEPT
                                               ![w] = [step |-> "queued", want |-> want]]
                                 /\ asked' = want
    BY DEF Say
  <1>2. [step |-> "queued", want |-> want] \in WriterRecords /\ w \in Writers
    BY DEF WriterRecords, Queued, Writers
  <1> QED BY <1>1, <1>2, WriterMoves DEF Only, Say

\* The job of an unlinked conversation is done.
LEMMA SuppressMoves ==
    ASSUME ConsentTypes, NEW w \in Words, Suppress(w)
    PROVE  Only(w) /\ w \in Writers /\ writer[w].step = "queued" /\ writer'[w].step = "done"
  <1>1. Finished \in WriterRecords /\ w \in Writers
    BY DEF Finished, WriterRecords, Waiting, Writers
  <1> QED BY <1>1, WriterMoves DEF Suppress, Only, Finished

\* The job weighs what the linked person said before.
LEMMA WeighKeywordMoves ==
    ASSUME ConsentTypes, NEW w \in Words, WeighKeyword(w)
    PROVE  /\ Only(w) /\ w \in Writers /\ writer[w].step = "queued" /\ link \in People
           /\ consent[link] = writer[w].want => writer'[w].step = "done"
           /\ consent[link] # writer[w].want =>
                /\ writer'[w].step = "weighed" /\ writer'[w].person = link
                /\ writer'[w].want = writer[w].want /\ writer'[w].was = consent[link]
  <1>1. w \in Writers /\ writer[w].step = "queued" /\ link \in People
    BY DEF Writers, WeighKeyword, ConsentTypes
  <1>2. PICK want \in Decision, dated \in BOOLEAN : want = writer[w].want /\ dated = TRUE
    BY <1>1, WriterFacts DEF Queued
  <1>3. Weigh(w, link, want, dated)
    BY <1>2, Zenon DEF WeighKeyword
  <1>4. PICK r \in WriterRecords :
          /\ writer' = [writer EXCEPT ![w] = r]
          /\ consent[link] = want => r = Finished
          /\ consent[link] # want =>
               /\ r.step = "weighed" /\ r.person = link /\ r.want = want /\ r.was = consent[link]
    BY <1>1, <1>3, WeighMoves
  <1>5. writer'[w] = r /\ Only(w)
    BY <1>1, <1>4, WriterMoves DEF Only
  <1> QED BY <1>1, <1>2, <1>4, <1>5 DEF Finished

\* And so does the route.
LEMMA WeighRouteMoves ==
    ASSUME ConsentTypes, NEW w \in Reps, WeighRoute(w)
    PROVE  /\ Only(w) /\ w \in Writers /\ writer[w].step = "none"
           /\ \/ writer'[w].step = "done"
              \/ writer'[w].step = "weighed" /\ writer'[w].was # writer'[w].want
  <1>1. w \in Writers /\ writer[w].step = "none"
    BY DEF Writers, WeighRoute
  <1>2. PICK p \in People, want \in Decision, dated \in BOOLEAN : Weigh(w, p, want, dated)
    BY DEF WeighRoute
  <1>3. PICK r \in WriterRecords :
          /\ writer' = [writer EXCEPT ![w] = r]
          /\ consent[p] = want => r = Finished
          /\ consent[p] # want =>
               /\ r.step = "weighed" /\ r.person = p /\ r.want = want /\ r.was = consent[p]
    BY <1>1, <1>2, WeighMoves
  <1>4. writer'[w] = r /\ Only(w)
    BY <1>1, <1>3, WriterMoves DEF Only
  <1> QED BY <1>1, <1>3, <1>4 DEF Finished

\* The event is written before the row.
LEMMA LogEventMoves ==
    ASSUME ConsentTypes, NEW w \in Writers, LogEvent(w)
    PROVE  /\ Only(w) /\ writer[w].step = "weighed" /\ writer'[w].step = "logged"
           /\ Keeps(w) /\ Job(w)
  <1>1. writer[w] \in Working /\ writer[w].step = "weighed"
    BY WriterFacts DEF LogEvent
  <1>2. PICK r \in Working : /\ r = [writer[w] EXCEPT !.step = "logged"]
                             /\ r.step = "logged" /\ r.person = writer[w].person
                             /\ r.want = writer[w].want /\ r.was = writer[w].was
    BY <1>1, WorkingOn
  <1>3. writer' = [writer EXCEPT ![w] = r] /\ r \in WriterRecords
    BY <1>2 DEF LogEvent, ConsentTypes, WriterRecords
  <1>4. writer'[w] = r /\ Only(w)
    BY <1>3, WriterMoves DEF Only
  <1> QED BY <1>1, <1>2, <1>4 DEF Keeps, Job, Working

\* After the row a keyword job has the block and the answer to see to.
LEMMA PatchMoves ==
    ASSUME ConsentTypes, NEW w \in Writers, PatchPerson(w)
    PROVE  /\ Only(w) /\ writer[w].step = "logged" /\ Job(w)
           /\ w \in Words => writer'[w].step = "patched" /\ Keeps(w)
           /\ w \notin Words => writer'[w].step = "done"
  <1>1. writer[w] \in Working /\ writer[w].step = "logged"
    BY WriterFacts DEF PatchPerson
  <1>2. PICK r \in Working : /\ r = [writer[w] EXCEPT !.step = "patched"]
                             /\ r.step = "patched" /\ r.person = writer[w].person
                             /\ r.want = writer[w].want /\ r.was = writer[w].was
    BY <1>1, WorkingOn
  <1>3. Finished \in WriterRecords /\ r \in WriterRecords
    BY DEF Finished, WriterRecords, Waiting
  <1>4. writer' = [writer EXCEPT ![w] = IF w \in Words THEN r ELSE Finished]
    BY <1>2 DEF PatchPerson, ConsentTypes
  <1>5. CASE w \in Words
    <2>1. writer'[w] = r /\ Only(w)
      BY <1>3, <1>4, <1>5, WriterMoves DEF Only
    <2> QED BY <1>1, <1>2, <1>5, <2>1 DEF Keeps, Job, Working
  <1>6. CASE w \notin Words
    <2>1. writer'[w] = Finished /\ Only(w)
      BY <1>3, <1>4, <1>6, WriterMoves DEF Only
    <2> QED BY <1>1, <1>6, <2>1 DEF Job, Working, Finished
  <1> QED BY <1>5, <1>6

\* The job ends.
LEMMA ConfirmMoves ==
    ASSUME ConsentTypes, NEW w \in Words, Confirm(w)
    PROVE  /\ Only(w) /\ w \in Writers /\ writer[w].step = "patched"
           /\ writer'[w].step = "done" /\ Job(w)
  <1>1. Finished \in WriterRecords /\ w \in Writers
    BY DEF Finished, WriterRecords, Waiting, Writers
  <1>2. writer[w] \in Working /\ writer[w].step = "patched"
    BY <1>1, WriterFacts DEF Confirm
  <1>3. writer'[w] = Finished /\ Only(w)
    BY <1>1, WriterMoves DEF Confirm, Only
  <1> QED BY <1>1, <1>2, <1>3 DEF Job, Working, Finished

\* A writer that fails starts again, or is given up.
LEMMA FailsMoves ==
    ASSUME ConsentTypes, NEW w \in Writers, ConsentFails(w)
    PROVE  /\ Only(w) /\ "lost" \in grounds'
           /\ writer[w].step \in {"weighed", "logged", "patched"}
           /\ \/ writer'[w].step = "done"
              \/ w \in Words /\ writer'[w].step = "queued"
  <1>1. writer[w] \in Working /\ writer[w].step \in {"weighed", "logged", "patched"}
    BY WriterFacts DEF ConsentFails
  <1>2. "lost" \in grounds'
    BY DEF ConsentFails
  <1>3. CASE writer' = [writer EXCEPT ![w] = Finished]
    <2>1. Finished \in WriterRecords
      BY DEF Finished, WriterRecords, Waiting
    <2> QED BY <1>1, <1>2, <1>3, <2>1, WriterMoves DEF Only, Finished
  <1>4. CASE w \in Words /\ writer' = [writer EXCEPT
                                       ![w] = [step |-> "queued", want |-> writer[w].want]]
    <2>1. [step |-> "queued", want |-> writer[w].want] \in WriterRecords
      BY <1>1 DEF Working, WriterRecords, Queued
    <2> QED BY <1>1, <1>2, <1>4, <2>1, WriterMoves DEF Only
  <1> QED BY <1>3, <1>4 DEF ConsentFails

\* What is noted stays noted.
LEMMA GroundsStay == [ConsentNext]_consentVars => grounds \subseteq grounds'
<1> SUFFICES ASSUME [ConsentNext]_consentVars PROVE grounds \subseteq grounds'
  OBVIOUS
<1>1. CASE ReadThread \/ Post \/ Elapse \/ UNCHANGED consentVars
  BY <1>1 DEF ReadThread, Post, Elapse, consentVars
<1>2. ASSUME NEW intent \in Intents, NEW swept \in BOOLEAN, PassGate(intent, swept)
      PROVE  grounds \subseteq grounds'
  BY <1>2 DEF PassGate
<1>3. ASSUME NEW w, \/ Say(w) \/ Suppress(w) \/ WeighKeyword(w) \/ Confirm(w) \/ WeighRoute(w)
                    \/ LogEvent(w) \/ PatchPerson(w) \/ ConsentFails(w)
      PROVE  grounds \subseteq grounds'
  BY <1>3 DEF Say, Suppress, WeighKeyword, Confirm, WeighRoute, LogEvent, PatchPerson,
              ConsentFails
<1>4. ASSUME NEW p, NEW to, \/ EditPerson(p, to) \/ Relink(p) \/ SetBlock(to) \/ Backfill(p)
      PROVE  grounds \subseteq grounds'
  <2>1. CASE EditPerson(p, to)
    BY <2>1 DEF EditPerson
  <2>2. CASE Relink(p)
    BY <2>2 DEF Relink
  <2>3. CASE SetBlock(to)
    BY <2>3 DEF SetBlock
  <2>4. CASE Backfill(p)
    BY <2>4 DEF Backfill
  <2> QED BY <1>4, <2>1, <2>2, <2>3, <2>4
<1> QED BY <1>1, <1>2, <1>3, <1>4 DEF ConsentNext

\* The sets of those who have logged, and of those who have patched.
LEMMA SetsMove ==
    ASSUME ConsentTypes, NEW w \in Writers, Only(w), NEW p
    PROVE  /\ writer'[w].step = "logged" /\ writer'[w].person = p
                => Logged(p)' = Logged(p) \union {w}
           /\ writer'[w].step # "logged" \/ writer'[w].person # p => Logged(p)' = Logged(p) \ {w}
           /\ writer'[w].step = "patched" /\ writer'[w].person = p
                => Patched(p)' = Patched(p) \union {w}
           /\ writer'[w].step # "patched" \/ writer'[w].person # p => Patched(p)' = Patched(p) \ {w}
  BY DEF Only, Logged, Patched

\* Sets of writers can be counted, with one more and without one.
LEMMA WritersCount ==
    ASSUME NEW S \in SUBSET Writers, NEW w \in Writers
    PROVE  /\ Cardinality(S) \in Nat
           /\ w \notin S => Cardinality(S \union {w}) = Cardinality(S) + 1
           /\ w \notin S => S \ {w} = S
           /\ w \in S => Cardinality(S \ {w}) = Cardinality(S) - 1
  <1>1. IsFiniteSet(S)
    BY ConsentBounds, FS_Subset
  <1> QED BY <1>1, FS_CardinalityType, FS_AddElement, FS_RemoveElement
-----------------------------------------------------------------------------
(***************************************************************************)
(* Consent: a STOP.                                                        *)
(***************************************************************************)
\* Nobody in the middle of anything else than the step says.
LEMMA WritersFitStep ==
    ConsentTypes /\ WritersFit /\ [ConsentNext]_consentVars => WritersFit'
<1> SUFFICES ASSUME ConsentTypes, WritersFit, [ConsentNext]_consentVars PROVE WritersFit'
  OBVIOUS
<1> DEFINE Fits(v) == /\ writer[v].step \in {"queued", "patched"} => v \in Words
                      /\ writer[v].step \in {"weighed", "logged"} => writer[v].was # writer[v].want
<1>1. ASSUME NEW w \in Writers, Only(w), Fits(w)' PROVE WritersFit'
  BY <1>1 DEF Only, WritersFit
<1>2. ASSUME NEW w \in Words, Say(w) PROVE WritersFit'
  BY <1>1, <1>2, SayMoves
<1>3. ASSUME NEW w \in Words, Suppress(w) PROVE WritersFit'
  BY <1>1, <1>3, SuppressMoves
<1>4. ASSUME NEW w \in Words, WeighKeyword(w) PROVE WritersFit'
  BY <1>1, <1>4, WeighKeywordMoves
<1>5. ASSUME NEW w \in Reps, WeighRoute(w) PROVE WritersFit'
  BY <1>1, <1>5, WeighRouteMoves
<1>6. ASSUME NEW w \in Writers, LogEvent(w) PROVE WritersFit'
  BY <1>1, <1>6, LogEventMoves DEF Keeps, WritersFit
<1>7. ASSUME NEW w \in Writers, PatchPerson(w) PROVE WritersFit'
  BY <1>1, <1>7, PatchMoves
<1>8. ASSUME NEW w \in Words, Confirm(w) PROVE WritersFit'
  BY <1>1, <1>8, ConfirmMoves
<1>9. ASSUME NEW w \in Writers, ConsentFails(w) PROVE WritersFit'
  BY <1>1, <1>9, FailsMoves
<1>10. ASSUME UNCHANGED writer PROVE WritersFit'
  BY <1>10 DEF WritersFit
<1>11. ASSUME NEW p, NEW to, \/ ReadThread \/ Post \/ Elapse \/ PassGate(p, to) \/ EditPerson(p, to)
                            \/ Backfill(p) \/ Relink(p) \/ SetBlock(p) \/ UNCHANGED consentVars
       PROVE  WritersFit'
  BY <1>10, <1>11 DEF ReadThread, Post, Elapse, PassGate, EditPerson, Backfill, Relink, SetBlock,
                      consentVars
<1> QED
  BY <1>2, <1>3, <1>4, <1>5, <1>6, <1>7, <1>8, <1>9, <1>11 DEF ConsentNext

\* What nobody is to blame for yet was not blamed before.
LEMMA UnblamedBefore ==
    ASSUME [ConsentNext]_consentVars, Unblamed'
    PROVE  /\ Unblamed
           /\ "stale" \notin grounds' /\ "blind" \notin grounds' /\ "lost" \notin grounds'
           /\ "order" \notin grounds' /\ "rep" \notin grounds' /\ "alias" \notin grounds'
  BY GroundsStay DEF Unblamed

\* The conversation is not linked anew while a job is under way.
LEMMA JobsFollowStep ==
    ConsentTypes /\ JobsFollow /\ [ConsentNext]_consentVars => JobsFollow'
<1> SUFFICES ASSUME ConsentTypes, JobsFollow, [ConsentNext]_consentVars, Unblamed',
                    NEW v \in Words, writer'[v].step \in {"weighed", "logged", "patched"}
             PROVE  writer'[v].person = link'
  BY DEF JobsFollow
<1>u. /\ Unblamed /\ "alias" \notin grounds'
  BY UnblamedBefore
<1>0. writer[v].step \in {"weighed", "logged", "patched"} => writer[v].person = link
  BY <1>u DEF JobsFollow
<1>v. v \in Writers
  BY DEF Writers
<1>1. ASSUME NEW w \in Writers, Only(w), link' = link,
             w = v => writer'[w].person = link
      PROVE  writer'[v].person = link'
  BY <1>0, <1>1, <1>v DEF Only
<1>2. ASSUME NEW w \in Words, Say(w) PROVE writer'[v].person = link'
  BY <1>1, <1>2, SayMoves DEF Say
<1>3. ASSUME NEW w \in Words, Suppress(w) PROVE writer'[v].person = link'
  BY <1>1, <1>3, SuppressMoves DEF Suppress
<1>4. ASSUME NEW w \in Words, WeighKeyword(w) PROVE writer'[v].person = link'
  BY <1>1, <1>4, WeighKeywordMoves DEF WeighKeyword, threadVars
<1>5. ASSUME NEW w \in Reps, WeighRoute(w) PROVE writer'[v].person = link'
  <2>1. w # v
    BY ConsentAssumption
  <2> QED BY <1>1, <1>5, <2>1, WeighRouteMoves DEF WeighRoute, threadVars
<1>6. ASSUME NEW w \in Writers, LogEvent(w) PROVE writer'[v].person = link'
  BY <1>0, <1>1, <1>6, LogEventMoves DEF LogEvent, threadVars, Keeps
<1>7. ASSUME NEW w \in Writers, PatchPerson(w) PROVE writer'[v].person = link'
  BY <1>0, <1>1, <1>7, PatchMoves DEF PatchPerson, threadVars, Keeps
<1>8. ASSUME NEW w \in Words, Confirm(w) PROVE writer'[v].person = link'
  BY <1>1, <1>8, ConfirmMoves DEF Confirm
<1>9. ASSUME NEW w \in Writers, ConsentFails(w) PROVE writer'[v].person = link'
  BY <1>1, <1>9, FailsMoves DEF ConsentFails, threadVars
<1>10. ASSUME NEW p \in People \union {Nobody}, Relink(p) PROVE writer'[v].person = link'
  <2>1. writer' = writer
    BY <1>10 DEF Relink
  <2>2. ~(\E w \in Words : writer[w].step \notin {"none", "done"})
    BY <1>10, <1>u DEF Relink, Since
  <2> QED BY <2>1, <2>2
<1>11. ASSUME UNCHANGED <<writer, link>> PROVE writer'[v].person = link'
  BY <1>0, <1>11
<1>12. ASSUME NEW p, NEW to, \/ ReadThread \/ Post \/ Elapse \/ PassGate(p, to) \/ EditPerson(p, to)
                            \/ Backfill(p) \/ SetBlock(p) \/ UNCHANGED consentVars
       PROVE  writer'[v].person = link'
  BY <1>11, <1>12 DEF ReadThread, Post, Elapse, PassGate, EditPerson, Backfill, SetBlock,
                      consentVars, threadVars
<1> QED
  BY <1>2, <1>3, <1>4, <1>5, <1>6, <1>7, <1>8, <1>9, <1>10, <1>12 DEF ConsentNext

Carries(w) == w \in Words /\ writer[w].step \in {"queued", "weighed", "logged"}
              /\ writer[w].want = "OPTED_OUT"

\* A STOP is carried from the word to the row, or to the block.
LEMMA StopIsCarriedStep ==
    ConsentTypes /\ JobsFollow /\ StopIsCarried /\ [ConsentNext]_consentVars => StopIsCarried'
<1> SUFFICES ASSUME ConsentTypes, JobsFollow, StopIsCarried, [ConsentNext]_consentVars, Unblamed',
                    asked' = "OPTED_OUT"
             PROVE  Refused' \/ \E v \in Words : Carries(v)'
  BY DEF StopIsCarried, Carries
<1> DEFINE Goal == Refused' \/ \E v \in Words : Carries(v)'
<1>u. /\ Unblamed
      /\ "lost" \notin grounds' /\ "order" \notin grounds'
      /\ "rep" \notin grounds' /\ "alias" \notin grounds'
  BY UnblamedBefore
<1>0. asked = "OPTED_OUT" => Refused \/ \E v \in Words : Carries(v)
  BY <1>u DEF StopIsCarried, Carries
\* Who does not move carries on; the rows as they were stop as they did.
<1>1. ASSUME NEW w \in Writers, Only(w), asked' = asked, UNCHANGED <<isBlocked, link, consent>>,
             Carries(w) => Goal
      PROVE  Goal
  <2>1. CASE Refused
    BY <1>1, <2>1 DEF Refused
  <2>2. ASSUME NEW v \in Words, Carries(v), v # w PROVE Goal
    BY <1>1, <2>2 DEF Only, Carries, Writers
  <2> QED BY <1>0, <1>1, <2>1, <2>2
<1>2. ASSUME NEW w \in Words, Say(w) PROVE Goal
  BY <1>2, SayMoves DEF Carries
<1>3. ASSUME NEW w \in Words, Suppress(w) PROVE Goal
  <2>1. writer[w].want = asked /\ asked' = asked
    BY <1>3, <1>u DEF Suppress, Since, historyVars
  <2>2. isBlocked'
    BY <1>3, <2>1 DEF Suppress
  <2> QED BY <2>2 DEF Refused
<1>4. ASSUME NEW w \in Words, WeighKeyword(w) PROVE Goal
  <2>1. /\ asked' = asked /\ UNCHANGED <<isBlocked, link, consent>> /\ link \in People
        /\ link # Nobody
    BY <1>4, WeighKeywordMoves DEF WeighKeyword, threadVars, historyVars
  <2>2. CASE consent[link] = writer[w].want /\ Carries(w)
    BY <2>1, <2>2 DEF Refused, Carries
  <2>3. CASE consent[link] # writer[w].want /\ Carries(w)
    <3>1. Carries(w)'
      BY <1>4, <2>3, WeighKeywordMoves DEF Carries
    <3> QED BY <3>1
  <2> QED BY <1>1, <1>4, <2>1, <2>2, <2>3, WeighKeywordMoves
<1>5. ASSUME NEW w \in Reps, WeighRoute(w) PROVE Goal
  <2>1. ~Carries(w)
    BY ConsentAssumption DEF Carries
  <2> QED BY <1>1, <1>5, <2>1, WeighRouteMoves DEF WeighRoute, threadVars
<1>6. ASSUME NEW w \in Writers, LogEvent(w) PROVE Goal
  <2>1. Carries(w) => Carries(w)'
    BY <1>6, LogEventMoves DEF Carries, Keeps
  <2>2. Carries(w)' => Goal
    BY DEF Carries
  <2> QED BY <1>1, <1>6, <2>1, <2>2, LogEventMoves DEF LogEvent, threadVars, historyVars
<1>7. ASSUME NEW w \in Writers, PatchPerson(w) PROVE Goal
  <2>1. /\ w \in Words /\ asked' = asked /\ writer[w].want = asked
        /\ UNCHANGED <<isBlocked, link>>
    BY <1>7, <1>u DEF PatchPerson, Since, Writers, threadVars
  <2>2. writer[w].step = "logged" /\ writer[w].person \in People
    BY <1>7, PatchMoves DEF Job
  <2>3. writer[w].person = link
    BY <1>u, <2>1, <2>2 DEF JobsFollow
  <2>4. consent'[link] = "OPTED_OUT" /\ link \in People
    BY <1>7, <2>1, <2>2, <2>3 DEF PatchPerson, ConsentTypes
  <2>5. link # Nobody
    BY <2>4, ConsentAssumption
  <2> QED BY <2>1, <2>4, <2>5 DEF Refused
<1>8. ASSUME NEW w \in Words, Confirm(w) PROVE Goal
  <2>1. asked' = asked /\ UNCHANGED <<link, consent>>
    BY <1>8 DEF Confirm
  <2>2. isBlocked' = isBlocked
    <3>1. ~(writer[w].want = "OPTED_IN" /\ writer[w].blocked /\ asked # "OPTED_IN")
      BY <1>8, <1>u DEF Confirm, Since
    <3>2. ~(writer[w].want = "OPTED_IN" /\ writer[w].blocked)
      BY <2>1, <3>1
    <3> QED BY <1>8, <3>2 DEF Confirm, ConsentTypes
  <2>3. ~Carries(w)
    BY <1>8, ConfirmMoves DEF Carries
  <2> QED BY <1>1, <1>8, <2>1, <2>2, <2>3, ConfirmMoves
<1>9. ASSUME NEW w \in Writers, ConsentFails(w) PROVE Goal
  BY <1>9, <1>u, FailsMoves
<1>10. ASSUME NEW p \in People \union {Nobody}, Relink(p) PROVE Goal
  <2>1. UNCHANGED <<writer, isBlocked, consent, asked>>
    BY <1>10 DEF Relink
  <2>2. /\ ~(\E w \in Words : writer[w].step \notin {"none", "done"})
        /\ ~(link \in People \ Primary /\ consent[link] = "OPTED_OUT")
    BY <1>10, <1>u DEF Relink, Since
  <2>3. ~(\E w \in Words : Carries(w))
    BY <2>2 DEF Carries
  <2>4. Refused
    BY <1>0, <2>1, <2>3
  <2>5. isBlocked \/ \E q \in Primary : consent[q] = "OPTED_OUT"
    BY <2>2, <2>4 DEF Refused, ConsentTypes
  <2> QED BY <2>1, <2>5 DEF Refused
<1>11. ASSUME NEW blocked \in BOOLEAN, SetBlock(blocked) PROVE Goal
  <2>1. blocked = TRUE
    BY <1>11, <1>u DEF SetBlock, Since
  <2> QED BY <1>11, <2>1 DEF SetBlock, Refused
<1>12. ASSUME NEW p \in People, NEW to \in Status, EditPerson(p, to) PROVE Goal
  BY <1>12, <1>u DEF EditPerson
<1>13. ASSUME UNCHANGED <<writer, link, isBlocked, consent, asked>> PROVE Goal
  BY <1>0, <1>13 DEF Carries, Refused
<1>14. ASSUME NEW p, NEW to, \/ ReadThread \/ Post \/ Elapse \/ PassGate(p, to)
                            \/ Backfill(p) \/ UNCHANGED consentVars
       PROVE  Goal
  BY <1>13, <1>14 DEF ReadThread, Post, Elapse, PassGate, Backfill,
                      consentVars, threadVars, historyVars
<1> QED
  BY <1>2, <1>3, <1>4, <1>5, <1>6, <1>7, <1>8, <1>9, <1>10, <1>11, <1>12, <1>14 DEF ConsentNext

\* Only a swept search that finds nobody clears a template.
LEMMA ClearedTemplates ==
    ASSUME ConsentTypes, NEW intent \in Intents, PassGate(intent, TRUE),
           gate'.step = "cleared", gate'.kind = "TEMPLATE"
    PROVE  /\ ~gate.isBlocked
           /\ \A p \in Primary : consent[p] # "OPTED_OUT"
           /\ gate.link # Nobody => consent[gate.link] # "OPTED_OUT"
  <1>1. PICK account \in Accounts, template \in BOOLEAN :
          gate' = IF EvaluateSendPermission(intent, gate,
                        EffectiveConsentStatus(gate.link, TRUE), account, template) = "ALLOWED"
                  THEN [step |-> "cleared", kind |-> intent.kind] ELSE [step |-> "idle"]
    BY DEF PassGate
  <1>2. /\ EvaluateSendPermission(intent, gate, EffectiveConsentStatus(gate.link, TRUE),
                                  account, template) = "ALLOWED"
        /\ intent.kind = "TEMPLATE"
    BY <1>1
  <1>3. EffectiveConsentStatus(gate.link, TRUE) # "OPTED_OUT" /\ ~gate.isBlocked
    BY <1>2 DEF EvaluateSendPermission
  <1> QED BY <1>3 DEF EffectiveConsentStatus

\* The gate has read rows that still are so.
LEMMA GateIsFreshStep ==
    ConsentTypes /\ GateIsFresh /\ [ConsentNext]_consentVars => GateIsFresh'
<1> SUFFICES ASSUME ConsentTypes, GateIsFresh, [ConsentNext]_consentVars, Unblamed'
             PROVE  /\ gate'.step = "thread"
                         => gate'.link = link' /\ (isBlocked' => gate'.isBlocked)
                    /\ gate'.step = "cleared" /\ gate'.kind = "TEMPLATE" => ~Refused'
  BY DEF GateIsFresh
<1> DEFINE Goal == /\ gate'.step = "thread" => gate'.link = link' /\ (isBlocked' => gate'.isBlocked)
                   /\ gate'.step = "cleared" /\ gate'.kind = "TEMPLATE" => ~Refused'
<1>u. Unblamed /\ "stale" \notin grounds' /\ "blind" \notin grounds'
  BY UnblamedBefore
<1>0. /\ gate.step = "thread" => gate.link = link /\ (isBlocked => gate.isBlocked)
      /\ gate.step = "cleared" /\ gate.kind = "TEMPLATE" => ~Refused
  BY <1>u DEF GateIsFresh
<1>1. ASSUME gate' = gate, ~GateOpen PROVE Goal
  BY <1>1 DEF GateOpen
<1>2. ASSUME UNCHANGED <<gate, link, consent>>, isBlocked' => isBlocked PROVE Goal
  BY <1>0, <1>2 DEF Refused
<1>3. CASE ReadThread
  BY <1>3 DEF ReadThread, threadVars
<1>4. CASE Post
  BY <1>4 DEF Post
<1>5. ASSUME NEW intent \in Intents, NEW swept \in BOOLEAN, PassGate(intent, swept) PROVE Goal
  <2>1. swept = TRUE
    BY <1>5, <1>u DEF PassGate, Since
  <2>2. PassGate(intent, TRUE) /\ UNCHANGED <<link, isBlocked, consent>> /\ gate.step = "thread"
    BY <1>5, <2>1, Zenon DEF PassGate, threadVars
  <2>3. gate'.step # "thread"
    BY <1>5 DEF PassGate
  <2>4. ASSUME gate'.step = "cleared", gate'.kind = "TEMPLATE" PROVE ~Refused
    BY <1>0, <2>2, <2>4, ClearedTemplates DEF Refused
  <2> QED BY <2>2, <2>3, <2>4 DEF Refused
<1>6. ASSUME NEW w \in Words, Say(w) \/ WeighKeyword(w) PROVE Goal
  BY <1>2, <1>6 DEF Say, WeighKeyword, threadVars
<1>7. ASSUME NEW w \in Words, Suppress(w) PROVE Goal
  BY <1>1, <1>7, <1>u DEF Suppress, Since
<1>8. ASSUME NEW w \in Words, Confirm(w) PROVE Goal
  BY <1>2, <1>8 DEF Confirm
<1>9. ASSUME NEW w, WeighRoute(w) \/ LogEvent(w) \/ ConsentFails(w) PROVE Goal
  BY <1>2, <1>9 DEF WeighRoute, LogEvent, ConsentFails, threadVars
<1>10. ASSUME NEW w \in Writers, PatchPerson(w) PROVE Goal
  BY <1>1, <1>10, <1>u DEF PatchPerson, Since
<1>11. ASSUME NEW p \in People, NEW to \in Status, EditPerson(p, to) PROVE Goal
  BY <1>1, <1>11, <1>u DEF EditPerson, Since
<1>12. ASSUME NEW edit, Backfill(edit) \/ Elapse \/ UNCHANGED consentVars PROVE Goal
  BY <1>2, <1>12 DEF Backfill, Elapse, consentVars, threadVars
<1>13. ASSUME NEW p \in People \union {Nobody}, Relink(p) PROVE Goal
  BY <1>1, <1>13, <1>u DEF Relink, Since
<1>14. ASSUME NEW blocked \in BOOLEAN, SetBlock(blocked) PROVE Goal
  BY <1>1, <1>14, <1>u DEF SetBlock, Since
<1> QED
  BY <1>3, <1>4, <1>5, <1>6, <1>7, <1>8, <1>9, <1>10, <1>11, <1>12, <1>13, <1>14 DEF ConsentNext
-----------------------------------------------------------------------------
(***************************************************************************)
(* Consent: the events and the answers.                                    *)
(***************************************************************************)
\* What a change of status counts and raises.
LEMMA TurnsCount ==
    ASSUME ConsentTypes, NEW p \in People, NEW to \in Status, NEW by, Turned(p, to, by)
    PROVE  /\ \A q \in People \ {p} : turns'[q] = turns[q]
           /\ to \in Decision /\ to # consent[p] => turns'[p] = turns[p] + 1
           /\ to \notin Decision \/ to = consent[p] => turns'[p] = turns[p]
           /\ to # consent[p] => edits' = edits \union {[person |-> p, to |-> to, by |-> by]}
           /\ to = consent[p] => edits' = edits
  <1> DEFINE n == IF to \in Decision \ {consent[p]} THEN 1 ELSE 0
  <1>1. /\ n \in Nat
        /\ to \in Decision /\ to # consent[p] => n = 1
        /\ to \notin Decision \/ to = consent[p] => n = 0
    OBVIOUS
  <1>2. turns' = [turns EXCEPT ![p] = @ + n]
    BY DEF Turned
  <1> HIDE DEF n
  <1>3. turns'[p] = turns[p] + n /\ turns[p] \in Nat /\ \A q \in People \ {p} : turns'[q] = turns[q]
    BY <1>1, <1>2 DEF ConsentTypes
  <1>4. /\ to # consent[p] => edits' = edits \union {[person |-> p, to |-> to, by |-> by]}
        /\ to = consent[p] => edits' = edits
    BY DEF Turned
  <1> QED BY <1>1, <1>3, <1>4

\* The edits that are still to be back-filled can be counted.
LEMMA PendingCount ==
    ASSUME NEW S \in SUBSET Decision, NEW to \in Decision
    PROVE  /\ Cardinality(S) \in Nat
           /\ to \notin S => Cardinality(S \union {to}) = Cardinality(S) + 1
           /\ to \in S => Cardinality(S \ {to}) = Cardinality(S) - 1
  <1>1. IsFiniteSet(Decision)
    <2>1. IsFiniteSet({}) /\ IsFiniteSet({} \union {"OPTED_IN"})
      BY FS_EmptySet, FS_AddElement
    <2>2. IsFiniteSet(({} \union {"OPTED_IN"}) \union {"OPTED_OUT"})
      BY <2>1, FS_AddElement
    <2>3. ({} \union {"OPTED_IN"}) \union {"OPTED_OUT"} = Decision
      BY DEF Decision
    <2> QED BY <2>2, <2>3
  <1>2. IsFiniteSet(S)
    BY <1>1, FS_Subset
  <1> QED BY <1>2, FS_CardinalityType, FS_AddElement, FS_RemoveElement

\* The end of a history to which an event was added.
LEMMA AppendEnds ==
    ASSUME ConsentTypes, NEW p \in People, NEW e \in Entry,
           trail' = [trail EXCEPT ![p] = Append(@, e)]
    PROVE  /\ Len(trail'[p]) = Len(trail[p]) + 1
           /\ \A to : e.to = to => EndsIn(p, to)'
           /\ \A q \in People \ {p} : trail'[q] = trail[q]
  <1>1. trail[p] \in Seq(Entry) /\ trail'[p] = Append(trail[p], e)
        /\ \A q \in People \ {p} : trail'[q] = trail[q]
    BY DEF ConsentTypes
  <1>2. Len(trail'[p]) = Len(trail[p]) + 1 /\ Len(trail[p]) \in Nat
    BY <1>1
  <1>3. trail'[p][Len(trail'[p])] = e
    BY <1>1
  <1>4. trail'[p] # <<>>
    BY <1>2
  <1> QED BY <1>1, <1>2, <1>3, <1>4 DEF EndsIn

\* A writer adds its event.
LEMMA LogEventEnds ==
    ASSUME ConsentTypes, NEW w \in Writers, LogEvent(w)
    PROVE  \E p \in People :
              /\ p = writer[w].person
              /\ Len(trail'[p]) = Len(trail[p]) + 1 /\ EndsIn(p, writer[w].want)'
              /\ \A q \in People \ {p} : trail'[q] = trail[q]
  <1> DEFINE e == [to |-> writer[w].want, at |-> IF writer[w].dated THEN clock ELSE -1]
  <1>0. writer[w] \in Working
    BY WriterFacts DEF LogEvent
  <1>1. e \in Entry /\ writer[w].person \in People /\ e.to = writer[w].want
    <2>1. clock \in -1..MaxClock /\ -1 \in -1..MaxClock
      BY ConsentBounds DEF ConsentTypes
    <2> QED BY <1>0, <2>1 DEF Working, Entry
  <1>2. trail' = [trail EXCEPT ![writer[w].person] = Append(@, e)]
    BY DEF LogEvent
  <1>3. writer'[w].want = writer[w].want
    BY LogEventMoves DEF Keeps
  <1>4. PICK r \in Entry, p \in People :
          r.to = writer[w].want /\ p = writer[w].person
            /\ trail' = [trail EXCEPT ![p] = Append(@, r)]
    BY <1>1, <1>2
  <1>5. /\ Len(trail'[p]) = Len(trail[p]) + 1
        /\ \A to : r.to = to => EndsIn(p, to)'
        /\ \A q \in People \ {p} : trail'[q] = trail[q]
    BY <1>4, AppendEnds
  <1>6. trail'[p] # <<>> /\ trail'[p][Len(trail'[p])].to = r.to
    BY <1>5 DEF EndsIn
  <1>7. EndsIn(p, writer[w].want)'
    BY <1>3, <1>4, <1>6 DEF EndsIn
  <1> QED BY <1>4, <1>5, <1>7

\* What is traced had not lost its trace before.
LEMMA TracedBefore ==
    ASSUME [ConsentNext]_consentVars, Traced'
    PROVE  /\ Traced
           /\ "lost" \notin grounds' /\ "overlap" \notin grounds' /\ "slow" \notin grounds'
           /\ "late" \notin grounds' /\ "masked" \notin grounds'
  BY GroundsStay DEF Traced

\* Without an overlap a writer turns the status it weighed, and is the only one
\* that has its event.
LEMMA PatchTurns ==
    ASSUME ConsentTypes, WritersFit, NEW w \in Writers, PatchPerson(w), "overlap" \notin grounds'
    PROVE  LET p == writer[w].person
           IN /\ p \in People /\ Logged(p) = {w}
              /\ turns'[p] = turns[p] + 1 /\ \A q \in People \ {p} : turns'[q] = turns[q]
              /\ consent'[p] = writer[w].want
              /\ \A q \in People \ {p} : consent'[q] = consent[q]
              /\ edits \subseteq edits'
              /\ \A q, to : ByHand(q, to) \in edits' <=> ByHand(q, to) \in edits
  <1> DEFINE p == writer[w].person
  <1>1. writer[w].step = "logged" /\ p \in People /\ writer[w].want \in Decision
    BY PatchMoves DEF Job
  <1>2. /\ consent[p] = writer[w].was
        /\ ~(\E v \in Writers \ {w} : writer[v].step = "logged" /\ writer[v].person = p)
    BY DEF PatchPerson, Since
  <1>3. writer[w].want # consent[p]
    BY <1>1, <1>2 DEF WritersFit
  <1>4. Logged(p) = {w}
    BY <1>1, <1>2 DEF Logged
  <1>5. Turned(p, writer[w].want, w) /\ writer[w].want \in Status
    BY <1>1 DEF PatchPerson, Status
  <1>6. /\ \A q \in People \ {p} : turns'[q] = turns[q]
        /\ turns'[p] = turns[p] + 1
        /\ edits' = edits \union {[person |-> p, to |-> writer[w].want, by |-> w]}
    BY <1>1, <1>3, <1>5, TurnsCount
  <1>7. \A q, to : ByHand(q, to) # [person |-> p, to |-> writer[w].want, by |-> w]
    BY ConsentBounds DEF ByHand
  <1>8. consent'[p] = writer[w].want /\ \A q \in People \ {p} : consent'[q] = consent[q]
    BY <1>1 DEF PatchPerson, ConsentTypes
  <1> HIDE DEF p
  <1>9. \A q, to : ByHand(q, to) \in edits' <=> ByHand(q, to) \in edits
    BY <1>6, <1>7
  <1> QED BY <1>1, <1>4, <1>6, <1>8, <1>9 DEF p

\* An edit by hand waits for its back-fill.
LEMMA EditWaits ==
    ASSUME ConsentTypes, NEW p \in People, NEW to \in Status, EditPerson(p, to)
    PROVE  /\ \A q \in People \ {p} : turns'[q] = turns[q]
           /\ to \in Decision => turns'[p] = turns[p] + 1
           /\ to \notin Decision => turns'[p] = turns[p]
           /\ ByHand(p, to) \notin edits /\ edits' = edits \union {ByHand(p, to)}
           /\ \A q \in People \ {p} : consent'[q] = consent[q]
  <1>1. Turned(p, to, "hand") /\ consent[p] # to /\ ByHand(p, to) \notin edits
    BY DEF EditPerson, ByHand
  <1>2. \A q \in People \ {p} : consent'[q] = consent[q]
    BY DEF EditPerson, ConsentTypes
  <1> QED BY <1>1, <1>2, TurnsCount DEF ByHand

\* Without a cause the back-fill adds the events of the edits by hand, each as
\* the last, and no others.
LEMMA BackfillTraced ==
    ASSUME ConsentTypes, NEW edit \in edits, Backfill(edit), "lost" \notin grounds',
           "slow" \notin grounds', "late" \notin grounds', "masked" \notin grounds'
    PROVE  /\ edits' = edits \ {edit} /\ UNCHANGED <<writer, consent, turns>>
           /\ \/ /\ edit.by # "hand" /\ trail' = trail
                 /\ \A q, to : ByHand(q, to) \in edits' <=> ByHand(q, to) \in edits
              \/ /\ edit = ByHand(edit.person, edit.to)
                 /\ edit.person \in People /\ edit.to \in Decision
                 /\ Len(trail'[edit.person]) = Len(trail[edit.person]) + 1
                 /\ EndsIn(edit.person, edit.to)'
                 /\ \A q \in People \ {edit.person} : trail'[q] = trail[q]
                 /\ consent[edit.person] = edit.to
                 /\ \A w \in Writers : writer[w].step # "logged"
  <1>1. edits' = edits \ {edit} /\ UNCHANGED <<writer, consent, turns>>
    BY DEF Backfill
  <1>2. edit \in Changes
    BY DEF ConsentTypes
  <1>3. CASE edit.by # "hand"
    <2>1. trail' = trail
      BY <1>3 DEF Backfill, Since
    <2>2. \A q, to : ByHand(q, to) # edit
      BY <1>3 DEF ByHand
    <2> QED BY <1>1, <1>3, <2>1, <2>2
  <1>4. CASE edit.by = "hand"
    <2>1. /\ edit.to # "UNKNOWN"
          /\ trail' = [trail EXCEPT ![edit.person] = Append(@, [to |-> edit.to, at |-> clock])]
          /\ consent[edit.person] = edit.to
          /\ \A w \in Writers : writer[w].step # "logged"
      BY <1>4 DEF Backfill, Since
    <2>2. edit = ByHand(edit.person, edit.to) /\ edit.person \in People /\ edit.to \in Decision
      BY <1>2, <1>4, <2>1 DEF Changes, ByHand, Status
    <2>3. PICK e \in Entry : e = [to |-> edit.to, at |-> clock]
      <3>1. clock \in -1..MaxClock
        BY ConsentBounds DEF ConsentTypes
      <3> QED BY <2>2, <3>1 DEF Entry
    <2>4. /\ Len(trail'[edit.person]) = Len(trail[edit.person]) + 1
          /\ \A to : e.to = to => EndsIn(edit.person, to)'
          /\ \A q \in People \ {edit.person} : trail'[q] = trail[q]
      BY <2>1, <2>2, <2>3, AppendEnds
    <2>5. e.to = edit.to
      BY <2>3
    <2> QED BY <1>1, <2>1, <2>2, <2>4, <2>5 DEF EndsIn
  <1> QED BY <1>3, <1>4

\* Each decision has its event, whoever writes them.
LEMMA EventsAddUpStep ==
    ConsentTypes /\ WritersFit /\ EventsAddUp /\ [ConsentNext]_consentVars => EventsAddUp'
<1> SUFFICES ASSUME ConsentTypes, WritersFit, EventsAddUp, [ConsentNext]_consentVars, Traced',
                    NEW p \in People
             PROVE  Len(trail'[p]) + Cardinality(Pending(p)') = turns'[p] + Cardinality(Logged(p)')
  BY DEF EventsAddUp
<1> DEFINE Goal == Len(trail'[p]) + Cardinality(Pending(p)') = turns'[p] + Cardinality(Logged(p)')
<1>u. /\ Traced /\ "lost" \notin grounds' /\ "overlap" \notin grounds' /\ "slow" \notin grounds'
      /\ "late" \notin grounds' /\ "masked" \notin grounds'
  BY TracedBefore
<1>0. /\ Len(trail[p]) + Cardinality(Pending(p)) = turns[p] + Cardinality(Logged(p))
      /\ Len(trail[p]) \in Nat /\ turns[p] \in Nat /\ Cardinality(Pending(p)) \in Nat
      /\ Cardinality(Logged(p)) \in Nat
  <2>1. Len(trail[p]) + Cardinality(Pending(p)) = turns[p] + Cardinality(Logged(p))
    BY <1>u DEF EventsAddUp
  <2>2. Len(trail[p]) \in Nat /\ turns[p] \in Nat
    BY DEF ConsentTypes
  <2>3. Cardinality(Pending(p)) \in Nat
    <3>1. Pending(p) \in SUBSET Decision /\ "OPTED_IN" \in Decision
      BY DEF Pending, Decision
    <3> QED BY <3>1, PendingCount
  <2>4. Cardinality(Logged(p)) \in Nat
    BY ConsentBounds, FS_Subset, FS_CardinalityType DEF Logged
  <2> QED BY <2>1, <2>2, <2>3, <2>4
\* A writer who neither had its event nor has it now.
<1>1. ASSUME NEW w \in Writers, Only(w), writer[w].step # "logged", writer'[w].step # "logged",
             UNCHANGED <<trail, edits, turns>>
      PROVE  Goal
  <2>1. Logged(p)' = Logged(p)
    BY <1>1, SetsMove DEF Logged
  <2>2. Pending(p)' = Pending(p)
    BY <1>1 DEF Pending
  <2> QED BY <1>0, <1>1, <2>1, <2>2
<1>2. ASSUME NEW w \in Words, Say(w) PROVE Goal
  BY <1>1, <1>2, SayMoves DEF Say
<1>3. ASSUME NEW w \in Words, Suppress(w) PROVE Goal
  BY <1>1, <1>3, SuppressMoves DEF Suppress, historyVars
<1>4. ASSUME NEW w \in Words, WeighKeyword(w) PROVE Goal
  BY <1>1, <1>4, WeighKeywordMoves DEF WeighKeyword, historyVars
<1>5. ASSUME NEW w \in Reps, WeighRoute(w) PROVE Goal
  BY <1>1, <1>5, WeighRouteMoves DEF WeighRoute
<1>6. ASSUME NEW w \in Writers, LogEvent(w) PROVE Goal
  <2>1. PICK q \in People :
              /\ q = writer[w].person
              /\ Len(trail'[q]) = Len(trail[q]) + 1
              /\ \A r \in People \ {q} : trail'[r] = trail[r]
    BY <1>6, LogEventEnds
  <2>2. /\ Only(w) /\ writer[w].step = "weighed" /\ writer'[w].step = "logged"
        /\ writer'[w].person = q
    BY <1>6, <2>1, LogEventMoves DEF Keeps
  <2>3. turns' = turns /\ Pending(p)' = Pending(p)
    BY <1>6 DEF LogEvent, historyVars, Pending
  <2>4. CASE p = q
    <3>1. Logged(p)' = Logged(p) \union {w} /\ w \notin Logged(p) /\ Logged(p) \in SUBSET Writers
      <4>1. writer'[w].step = "logged" /\ writer'[w].person = p
        BY <2>2, <2>4
      <4>2. Logged(p)' = Logged(p) \union {w}
        BY <2>2, <4>1, SetsMove
      <4> QED BY <2>2, <4>2 DEF Logged
    <3>2. Cardinality(Logged(p)') = Cardinality(Logged(p)) + 1
      BY <3>1, WritersCount
    <3>3. Len(trail'[p]) = Len(trail[p]) + 1 /\ turns'[p] = turns[p]
      BY <2>1, <2>3, <2>4
    <3> HIDE DEF Goal
    <3>4. Cardinality(Pending(p)') = Cardinality(Pending(p))
      BY <2>3
    <3> QED BY <1>0, <3>2, <3>3, <3>4 DEF Goal
  <2>5. CASE p # q
    <3>1. Logged(p)' = Logged(p)
      BY <2>2, <2>5, SetsMove DEF Logged
    <3> QED BY <1>0, <2>1, <2>3, <2>5, <3>1
  <2> QED BY <2>4, <2>5
<1>7. ASSUME NEW w \in Writers, PatchPerson(w) PROVE Goal
  <2>1. PICK q \in People :
              /\ q = writer[w].person /\ Logged(q) = {w}
              /\ turns'[q] = turns[q] + 1 /\ \A r \in People \ {q} : turns'[r] = turns[r]
              /\ \A r, to : ByHand(r, to) \in edits' <=> ByHand(r, to) \in edits
    BY <1>7, <1>u, PatchTurns
  <2>2. Only(w) /\ writer[w].step = "logged" /\ writer'[w].step # "logged"
    BY <1>7, PatchMoves
  <2>3. trail' = trail
    BY <1>7 DEF PatchPerson
  <2>4. Pending(p)' = Pending(p)
    BY <2>1 DEF Pending, ByHand
  <2>5. CASE p = q
    <3>1. Logged(p)' = Logged(p) \ {w} /\ w \in Logged(p) /\ Logged(p) \in SUBSET Writers
      BY <2>1, <2>2, <2>5, SetsMove DEF Logged
    <3>2. Cardinality(Logged(p)') = Cardinality(Logged(p)) - 1
      BY <3>1, WritersCount
    <3>3. trail'[p] = trail[p] /\ turns'[p] = turns[p] + 1
      BY <2>1, <2>3, <2>5
    <3>4. Cardinality(Pending(p)') = Cardinality(Pending(p))
      BY <2>4
    <3> QED BY <1>0, <3>2, <3>3, <3>4
  <2>6. CASE p # q
    <3>1. Logged(p)' = Logged(p)
      BY <2>1, <2>2, <2>6, SetsMove DEF Logged
    <3> QED BY <1>0, <2>1, <2>3, <2>4, <2>6, <3>1
  <2> QED BY <2>5, <2>6
<1>8. ASSUME NEW w \in Words, Confirm(w) PROVE Goal
  BY <1>1, <1>8, ConfirmMoves DEF Confirm
<1>9. ASSUME NEW w \in Writers, ConsentFails(w) PROVE Goal
  BY <1>9, <1>u, FailsMoves
<1>10. ASSUME NEW q \in People, NEW to \in Status, EditPerson(q, to) PROVE Goal
  <2>1. /\ \A r \in People \ {q} : turns'[r] = turns[r]
        /\ to \in Decision => turns'[q] = turns[q] + 1
        /\ to \notin Decision => turns'[q] = turns[q]
        /\ ByHand(q, to) \notin edits /\ edits' = edits \union {ByHand(q, to)}
    BY <1>10, EditWaits
  <2>2. trail' = trail /\ Logged(p)' = Logged(p)
    BY <1>10 DEF EditPerson, Logged
  <2>3. CASE p = q /\ to \in Decision
    <3>1. Pending(p)' = Pending(p) \union {to}
          /\ to \notin Pending(p) /\ Pending(p) \in SUBSET Decision
      BY <2>1, <2>3 DEF Pending, ByHand
    <3>2. Cardinality(Pending(p)') = Cardinality(Pending(p)) + 1
      BY <2>3, <3>1, PendingCount
    <3>3. turns'[p] = turns[p] + 1
      BY <2>1, <2>3
    <3>4. Cardinality(Logged(p)') = Cardinality(Logged(p)) /\ trail'[p] = trail[p]
      BY <2>2
    <3> QED BY <1>0, <3>2, <3>3, <3>4
  <2>4. CASE p # q \/ to \notin Decision
    <3>1. Pending(p)' = Pending(p)
      BY <2>1, <2>4 DEF Pending, ByHand
    <3>2. turns'[p] = turns[p]
      BY <2>1, <2>4
    <3> QED BY <1>0, <2>2, <3>1, <3>2
  <2> QED BY <2>3, <2>4
<1>11. ASSUME NEW edit \in edits, Backfill(edit) PROVE Goal
  <2>1. edits' = edits \ {edit} /\ turns' = turns /\ Logged(p)' = Logged(p)
    BY <1>11, <1>u, BackfillTraced DEF Logged
  <2>2. CASE trail' = trail /\ \A q, to : ByHand(q, to) \in edits' <=> ByHand(q, to) \in edits
    <3>1. Pending(p)' = Pending(p)
      BY <2>2 DEF Pending, ByHand
    <3> QED BY <1>0, <2>1, <2>2, <3>1
  <2>3. ASSUME NEW q \in People, NEW to \in Decision, edit = ByHand(q, to),
               Len(trail'[q]) = Len(trail[q]) + 1,
               \A r \in People \ {q} : trail'[r] = trail[r]
        PROVE  Goal
    <3>1. CASE p = q
      <4>1. Pending(p)' = Pending(p) \ {to} /\ to \in Pending(p) /\ Pending(p) \in SUBSET Decision
        BY <2>1, <2>3, <3>1 DEF Pending, ByHand
      <4>2. Cardinality(Pending(p)') = Cardinality(Pending(p)) - 1
        BY <4>1, PendingCount
      <4> QED BY <1>0, <2>1, <2>3, <3>1, <4>2
    <3>2. CASE p # q
      <4>1. Pending(p)' = Pending(p)
        BY <2>1, <2>3, <3>2 DEF Pending, ByHand
      <4> QED BY <1>0, <2>1, <2>3, <3>2, <4>1
    <3> QED BY <3>1, <3>2
  <2> QED BY <1>11, <1>u, <2>2, <2>3, BackfillTraced
<1>12. ASSUME UNCHANGED <<trail, edits, turns, writer>> PROVE Goal
  BY <1>0, <1>12 DEF Pending, Logged
<1>13. ASSUME NEW q, NEW to, \/ ReadThread \/ Post \/ Elapse \/ PassGate(q, to) \/ Relink(q)
                            \/ SetBlock(q) \/ UNCHANGED consentVars
       PROVE  Goal
  BY <1>12, <1>13 DEF ReadThread, Post, Elapse, PassGate, Relink, SetBlock, consentVars, historyVars
<1> QED
  BY <1>2, <1>3, <1>4, <1>5, <1>6, <1>7, <1>8, <1>9, <1>10, <1>11, <1>13 DEF ConsentNext

\* The last event is the status, whoever writes it.
LEMMA LastEventFitsStep ==
    ConsentTypes /\ WritersFit /\ LastEventFits /\ [ConsentNext]_consentVars => LastEventFits'
<1> DEFINE Fits(p) == \/ \E to \in Status : ByHand(p, to) \in edits
                      \/ \E w \in Logged(p) : EndsIn(p, writer[w].want)
                      \/ Logged(p) = {} /\ (consent[p] # "UNKNOWN" => EndsIn(p, consent[p]))
<1> SUFFICES ASSUME ConsentTypes, WritersFit, LastEventFits, [ConsentNext]_consentVars, Traced',
                    NEW p \in People
             PROVE  Fits(p)'
  BY DEF LastEventFits
<1>u. /\ Traced /\ "lost" \notin grounds' /\ "overlap" \notin grounds' /\ "slow" \notin grounds'
      /\ "late" \notin grounds' /\ "masked" \notin grounds'
  BY TracedBefore
<1>0. Fits(p)
  BY <1>u DEF LastEventFits
\* What a step leaves alone fits as before.
<1>a. ASSUME trail'[p] = trail[p], consent'[p] = consent[p], Logged(p)' = Logged(p),
             \A w \in Logged(p) : writer'[w].want = writer[w].want,
             \A to : ByHand(p, to) \in edits => ByHand(p, to) \in edits'
      PROVE  Fits(p)'
  <2>1. \A to : EndsIn(p, to) => EndsIn(p, to)'
    BY <1>a DEF EndsIn
  <2>2. CASE \E to \in Status : ByHand(p, to) \in edits
    BY <1>a, <2>2 DEF ByHand
  <2>3. ASSUME NEW w \in Logged(p), EndsIn(p, writer[w].want) PROVE Fits(p)'
    <3>1. EndsIn(p, writer[w].want)'
      BY <1>a, <2>3 DEF EndsIn
    <3> QED BY <1>a, <3>1
  <2>4. CASE Logged(p) = {} /\ (consent[p] # "UNKNOWN" => EndsIn(p, consent[p]))
    <3>1. consent'[p] # "UNKNOWN" => EndsIn(p, consent[p])'
      BY <1>a, <2>4 DEF EndsIn
    <3> QED BY <1>a, <2>4, <3>1
  <2> QED BY <1>0, <2>2, <2>3, <2>4
<1>1. ASSUME NEW w \in Writers, Only(w), writer[w].step # "logged", writer'[w].step # "logged",
             UNCHANGED <<trail, edits, consent>>
      PROVE  Fits(p)'
  <2>1. Logged(p)' = Logged(p)
    BY <1>1, SetsMove DEF Logged
  <2>2. \A v \in Logged(p) : writer'[v].want = writer[v].want
    BY <1>1 DEF Logged, Only
  <2> QED BY <1>a, <1>1, <2>1, <2>2
<1>2. ASSUME NEW w \in Words, Say(w) PROVE Fits(p)'
  BY <1>1, <1>2, SayMoves DEF Say
<1>3. ASSUME NEW w \in Words, Suppress(w) PROVE Fits(p)'
  BY <1>1, <1>3, SuppressMoves DEF Suppress
<1>4. ASSUME NEW w \in Words, WeighKeyword(w) PROVE Fits(p)'
  BY <1>1, <1>4, WeighKeywordMoves DEF WeighKeyword
<1>5. ASSUME NEW w \in Reps, WeighRoute(w) PROVE Fits(p)'
  BY <1>1, <1>5, WeighRouteMoves DEF WeighRoute
<1>6. ASSUME NEW w \in Writers, LogEvent(w) PROVE Fits(p)'
  <2>1. PICK q \in People :
              /\ q = writer[w].person /\ EndsIn(q, writer[w].want)'
              /\ \A r \in People \ {q} : trail'[r] = trail[r]
    BY <1>6, LogEventEnds
  <2>2. /\ Only(w) /\ writer[w].step = "weighed" /\ writer'[w].step = "logged"
        /\ writer'[w].person = q
    BY <1>6, <2>1, LogEventMoves DEF Keeps
  <2>3. CASE p = q
    <3>1. w \in Logged(p)'
      BY <2>2, <2>3 DEF Logged
    <3> QED BY <2>1, <2>3, <3>1
  <2>4. CASE p # q
    <3>1. Logged(p)' = Logged(p)
      BY <2>2, <2>4, SetsMove DEF Logged
    <3>2. \A v \in Logged(p) : writer'[v].want = writer[v].want
      BY <2>2 DEF Logged, Only
    <3>3. UNCHANGED <<consent, edits>> /\ trail'[p] = trail[p]
      BY <1>6, <2>1, <2>4 DEF LogEvent
    <3> QED BY <1>a, <3>1, <3>2, <3>3
  <2> QED BY <2>3, <2>4
<1>7. ASSUME NEW w \in Writers, PatchPerson(w) PROVE Fits(p)'
  <2>1. PICK q \in People :
              /\ q = writer[w].person /\ Logged(q) = {w} /\ consent'[q] = writer[w].want
              /\ \A r \in People \ {q} : consent'[r] = consent[r]
              /\ \A r, to : ByHand(r, to) \in edits' <=> ByHand(r, to) \in edits
    BY <1>7, <1>u, PatchTurns
  <2>2. Only(w) /\ writer[w].step = "logged" /\ writer'[w].step # "logged" /\ trail' = trail
    BY <1>7, PatchMoves DEF PatchPerson
  <2>3. CASE p = q
    <3>1. Logged(p)' = {}
      BY <2>1, <2>2, <2>3, SetsMove
    <3>2. CASE \E to \in Status : ByHand(p, to) \in edits
      BY <2>1, <3>2 DEF ByHand
    <3>3. CASE \E v \in Logged(p) : EndsIn(p, writer[v].want)
      <4>1. EndsIn(p, consent[p])'
        BY <2>1, <2>2, <2>3, <3>3 DEF EndsIn
      <4> QED BY <3>1, <4>1
    <3> QED BY <1>0, <2>1, <2>3, <3>2, <3>3
  <2>4. CASE p # q
    <3>1. Logged(p)' = Logged(p) /\ \A v \in Logged(p) : writer'[v].want = writer[v].want
      <4>1. w \notin Logged(p)
        BY <2>1, <2>4 DEF Logged
      <4> QED BY <2>2, <4>1, SetsMove DEF Logged, Only
    <3> QED BY <1>a, <2>1, <2>2, <2>4, <3>1
  <2> QED BY <2>3, <2>4
<1>8. ASSUME NEW w \in Words, Confirm(w) PROVE Fits(p)'
  BY <1>1, <1>8, ConfirmMoves DEF Confirm
<1>9. ASSUME NEW w \in Writers, ConsentFails(w) PROVE Fits(p)'
  BY <1>9, <1>u, FailsMoves
<1>10. ASSUME NEW q \in People, NEW to \in Status, EditPerson(q, to) PROVE Fits(p)'
  <2>1. /\ edits' = edits \union {ByHand(q, to)} /\ \A r \in People \ {q} : consent'[r] = consent[r]
    BY <1>10, EditWaits
  <2>2. trail' = trail /\ Logged(p)' = Logged(p) /\ writer' = writer
    BY <1>10 DEF EditPerson, Logged
  <2>3. CASE p = q
    <3>1. ByHand(p, to) \in edits'
      BY <2>1, <2>3
    <3> QED BY <3>1 DEF ByHand
  <2>4. CASE p # q
    BY <1>a, <2>1, <2>2, <2>4
  <2> QED BY <2>3, <2>4
<1>11. ASSUME NEW edit \in edits, Backfill(edit) PROVE Fits(p)'
  <2>1. /\ edits' = edits \ {edit} /\ UNCHANGED <<consent, writer>> /\ Logged(p)' = Logged(p)
    BY <1>11, <1>u, BackfillTraced DEF Logged
  <2>2. CASE trail' = trail /\ \A q, to : ByHand(q, to) \in edits' <=> ByHand(q, to) \in edits
    BY <1>a, <2>1, <2>2
  <2>3. ASSUME NEW q \in People, NEW to \in Decision, edit = ByHand(q, to), EndsIn(q, to)',
               \A r \in People \ {q} : trail'[r] = trail[r], consent[q] = to,
               \A w \in Writers : writer[w].step # "logged"
        PROVE  Fits(p)'
    <3>1. CASE p = q
      <4>1. Logged(p)' = {}
        BY <2>1, <2>3 DEF Logged
      <4>2. EndsIn(p, consent[p])'
        BY <2>1, <2>3, <3>1 DEF EndsIn
      <4> QED BY <4>1, <4>2
    <3>2. CASE p # q
      <4>1. \A r : ByHand(p, r) \in edits => ByHand(p, r) \in edits'
        BY <2>1, <2>3, <3>2 DEF ByHand
      <4> QED BY <1>a, <2>1, <2>3, <3>2, <4>1
    <3> QED BY <3>1, <3>2
  <2>4. \/ trail' = trail /\ \A q, to : ByHand(q, to) \in edits' <=> ByHand(q, to) \in edits
        \/ /\ edit = ByHand(edit.person, edit.to)
           /\ edit.person \in People /\ edit.to \in Decision
           /\ EndsIn(edit.person, edit.to)'
           /\ \A q \in People \ {edit.person} : trail'[q] = trail[q]
           /\ consent[edit.person] = edit.to
           /\ \A w \in Writers : writer[w].step # "logged"
    BY <1>11, <1>u, BackfillTraced
  <2> QED BY <2>2, <2>3, <2>4
<1>12. ASSUME UNCHANGED <<trail, edits, consent, writer>> PROVE Fits(p)'
  BY <1>a, <1>12 DEF Logged
<1>13. ASSUME NEW q, NEW to, \/ ReadThread \/ Post \/ Elapse \/ PassGate(q, to) \/ Relink(q)
                            \/ SetBlock(q) \/ UNCHANGED consentVars
       PROVE  Fits(p)'
  BY <1>12, <1>13 DEF ReadThread, Post, Elapse, PassGate, Relink, SetBlock, consentVars
<1> QED
  BY <1>2, <1>3, <1>4, <1>5, <1>6, <1>7, <1>8, <1>9, <1>10, <1>11, <1>13 DEF ConsentNext

\* Nobody is answered more often than they decided.
LEMMA AnswersAddUpStep ==
    ConsentTypes /\ WritersFit /\ AnswersAddUp /\ [ConsentNext]_consentVars => AnswersAddUp'
<1> SUFFICES ASSUME ConsentTypes, WritersFit, AnswersAddUp, [ConsentNext]_consentVars,
                    "overlap" \notin grounds', NEW p \in People
             PROVE  answers'[p] + Cardinality(Patched(p)') <= turns'[p]
  BY DEF AnswersAddUp
<1> DEFINE Goal == answers'[p] + Cardinality(Patched(p)') <= turns'[p]
<1>0. /\ answers[p] + Cardinality(Patched(p)) <= turns[p]
      /\ answers[p] \in Nat /\ turns[p] \in Nat /\ Cardinality(Patched(p)) \in Nat
      /\ Patched(p) \in SUBSET Writers
  <2>1. answers[p] + Cardinality(Patched(p)) <= turns[p]
    BY GroundsStay DEF AnswersAddUp
  <2>2. answers[p] \in Nat /\ turns[p] \in Nat
    BY DEF ConsentTypes
  <2>3. Patched(p) \in SUBSET Writers
    BY DEF Patched
  <2>4. Cardinality(Patched(p)) \in Nat
    BY <2>3, ConsentBounds, FS_Subset, FS_CardinalityType
  <2> QED BY <2>1, <2>2, <2>3, <2>4
\* A writer who has nothing more to answer.
<1>1. ASSUME NEW w \in Writers, Only(w), writer'[w].step # "patched",
             answers'[p] = answers[p], turns'[p] \in Nat, turns'[p] >= turns[p]
      PROVE  Goal
  <2>1. Patched(p)' = Patched(p) \ {w}
    BY <1>1, SetsMove
  <2>2. Cardinality(Patched(p)') <= Cardinality(Patched(p)) /\ Cardinality(Patched(p)') \in Nat
    <3>1. CASE w \in Patched(p)
      <4>1. Cardinality(Patched(p)') = Cardinality(Patched(p)) - 1
        BY <1>0, <2>1, <3>1, WritersCount
      <4>2. Cardinality(Patched(p)') \in Nat
        BY <1>0, <2>1, WritersCount
      <4> QED BY <1>0, <4>1, <4>2
    <3>2. CASE w \notin Patched(p)
      <4>1. Patched(p)' = Patched(p)
        BY <2>1, <3>2
      <4> QED BY <1>0, <4>1
    <3> QED BY <3>1, <3>2
  <2> QED BY <1>0, <1>1, <2>2
<1>a. turns' = turns => turns'[p] \in Nat /\ turns'[p] >= turns[p]
  BY <1>0
<1>2. ASSUME NEW w \in Words, Say(w) PROVE Goal
  BY <1>1, <1>2, <1>a, SayMoves DEF Say
<1>3. ASSUME NEW w \in Words, Suppress(w) PROVE Goal
  BY <1>1, <1>3, <1>a, SuppressMoves DEF Suppress, historyVars
<1>4. ASSUME NEW w \in Words, WeighKeyword(w) PROVE Goal
  BY <1>1, <1>4, <1>a, WeighKeywordMoves DEF WeighKeyword, historyVars
<1>5. ASSUME NEW w \in Reps, WeighRoute(w) PROVE Goal
  BY <1>1, <1>5, <1>a, WeighRouteMoves DEF WeighRoute
<1>6. ASSUME NEW w \in Writers, LogEvent(w) PROVE Goal
  BY <1>1, <1>6, <1>a, LogEventMoves DEF LogEvent, historyVars
<1>7. ASSUME NEW w \in Writers, PatchPerson(w) PROVE Goal
  <2>1. PICK q \in People :
              /\ q = writer[w].person
              /\ turns'[q] = turns[q] + 1 /\ \A r \in People \ {q} : turns'[r] = turns[r]
    BY <1>7, PatchTurns
  <2>2. /\ Only(w) /\ writer[w].step = "logged" /\ answers' = answers
        /\ w \in Words => writer'[w].step = "patched" /\ writer'[w].person = q
        /\ w \notin Words => writer'[w].step = "done"
    BY <1>7, <2>1, PatchMoves DEF PatchPerson, Keeps
  <2>3. turns'[p] \in Nat /\ turns'[p] >= turns[p] /\ (p = q => turns'[p] = turns[p] + 1)
    BY <1>0, <2>1
  <2>4. CASE w \notin Words
    BY <1>1, <2>2, <2>3, <2>4
  <2>5. CASE w \in Words /\ p = q
    <3>1. Patched(p)' = Patched(p) \union {w}
      <4>1. writer'[w].step = "patched" /\ writer'[w].person = p
        BY <2>2, <2>5
      <4> QED BY <2>2, <4>1, SetsMove
    <3>2. w \notin Patched(p)
      BY <2>2 DEF Patched
    <3>3. Cardinality(Patched(p)') = Cardinality(Patched(p)) + 1
      BY <1>0, <3>1, <3>2, WritersCount
    <3>4. turns'[p] = turns[p] + 1 /\ answers'[p] = answers[p]
      BY <2>2, <2>3, <2>5
    <3> QED BY <1>0, <3>3, <3>4
  <2>6. CASE w \in Words /\ p # q
    <3>1. Patched(p)' = Patched(p) \ {w} /\ w \notin Patched(p)
      BY <2>1, <2>2, <2>6, SetsMove DEF Patched
    <3>2. Patched(p)' = Patched(p) /\ turns'[p] = turns[p] /\ answers'[p] = answers[p]
      BY <2>1, <2>2, <2>6, <3>1
    <3> QED BY <1>0, <3>2
  <2> QED BY <2>4, <2>5, <2>6
<1>8. ASSUME NEW w \in Words, Confirm(w) PROVE Goal
  <2>1. /\ Only(w) /\ w \in Writers /\ writer[w].step = "patched" /\ writer'[w].step = "done"
        /\ writer[w].person \in People
    BY <1>8, ConfirmMoves DEF Job
  <2>2. turns' = turns
    BY <1>8 DEF Confirm
  <2>3. CASE answers'[p] = answers[p]
    BY <1>1, <1>a, <2>1, <2>2, <2>3
  <2>4. CASE answers'[p] # answers[p]
    <3>1. answers' = [answers EXCEPT ![writer[w].person] = @ + 1]
      BY <1>8, <2>4 DEF Confirm
    <3>2. p = writer[w].person /\ answers'[p] = answers[p] + 1
      BY <2>1, <2>4, <3>1 DEF ConsentTypes
    <3>3. w \in Patched(p)
      BY <2>1, <3>2 DEF Patched
    <3>4. Patched(p)' = Patched(p) \ {w}
      BY <2>1, SetsMove
    <3>5. Cardinality(Patched(p)') = Cardinality(Patched(p)) - 1
      BY <1>0, <2>1, <3>3, <3>4, WritersCount
    <3>6. turns'[p] = turns[p]
      BY <2>2
    <3> QED BY <1>0, <3>2, <3>5, <3>6
  <2> QED BY <2>3, <2>4
<1>9. ASSUME NEW w \in Writers, ConsentFails(w) PROVE Goal
  BY <1>1, <1>9, <1>a, FailsMoves DEF ConsentFails
<1>10. ASSUME NEW q \in People, NEW to \in Status, EditPerson(q, to) PROVE Goal
  <2>1. turns'[p] \in Nat /\ turns'[p] >= turns[p]
    <3>1. /\ \A r \in People \ {q} : turns'[r] = turns[r]
          /\ turns'[q] = turns[q] + 1 \/ turns'[q] = turns[q]
      BY <1>10, EditWaits
    <3> QED BY <1>0, <3>1
  <2>2. Patched(p)' = Patched(p) /\ answers' = answers
    BY <1>10 DEF EditPerson, Patched
  <2> QED BY <1>0, <2>1, <2>2
<1>11. ASSUME UNCHANGED <<turns, answers, writer>> PROVE Goal
  BY <1>0, <1>11 DEF Patched
<1>12. ASSUME NEW q, NEW to, \/ ReadThread \/ Post \/ Elapse \/ PassGate(q, to) \/ Backfill(q)
                            \/ Relink(q) \/ SetBlock(q) \/ UNCHANGED consentVars
       PROVE  Goal
  BY <1>11, <1>12 DEF ReadThread, Post, Elapse, PassGate, Backfill, Relink, SetBlock, consentVars,
                      historyVars
<1> QED
  BY <1>2, <1>3, <1>4, <1>5, <1>6, <1>7, <1>8, <1>9, <1>10, <1>12 DEF ConsentNext

-----------------------------------------------------------------------------
(***************************************************************************)
(* Consent: the theorems.                                                  *)
(***************************************************************************)
\* At first nobody has said, weighed or written anything.
LEMMA ConsentStarts == ConsentInit => ConsentInv
<1> SUFFICES ASSUME ConsentInit PROVE ConsentInv
  OBVIOUS
<1> USE ConsentBounds
<1>1. ConsentTypes
  <2>1. trail \in [People -> Seq(Entry)]
    BY DEF ConsentInit
  <2>2. writer \in [Writers -> WriterRecords]
    BY DEF ConsentInit, WriterRecords, Waiting
  <2>3. consent \in [People -> Status] /\ asked \in Status
    BY DEF ConsentInit, Status
  <2>4. gate \in Gates
    BY DEF ConsentInit, Gates
  <2>5. turns \in [People -> Nat] /\ answers \in [People -> Nat] /\ mishaps \in Nat
    BY DEF ConsentInit
  <2>6. clock \in 0..MaxClock /\ expires \in Nat
    BY DEF ConsentInit
  <2>8. isBlocked \in BOOLEAN
    BY DEF ConsentInit
  <2>7. link \in People \union {Nobody} /\ edits \subseteq Changes /\ grounds \subseteq Grounds
    BY DEF ConsentInit
  <2> QED BY <2>1, <2>2, <2>3, <2>4, <2>5, <2>6, <2>7, <2>8 DEF ConsentTypes
<1>2. \A w \in Writers : writer[w].step = "none"
  BY DEF ConsentInit
<1>3. \A p \in People : Logged(p) = {} /\ Patched(p) = {} /\ Pending(p) = {}
  BY <1>2 DEF ConsentInit, Logged, Patched, Pending
<1>4. Cardinality({}) = 0
  BY FS_EmptySet
<1>5. WritersFit /\ JobsFollow
  BY <1>2 DEF WritersFit, JobsFollow, Writers
<1>6. StopIsCarried /\ GateIsFresh
  BY DEF ConsentInit, StopIsCarried, GateIsFresh
<1>7. EventsAddUp /\ AnswersAddUp
  <2> SUFFICES ASSUME NEW p \in People
               PROVE  /\ Len(trail[p]) + Cardinality(Pending(p)) = turns[p] + Cardinality(Logged(p))
                      /\ answers[p] + Cardinality(Patched(p)) <= turns[p]
    BY DEF EventsAddUp, AnswersAddUp
  <2>1. Len(trail[p]) = 0 /\ turns[p] = 0 /\ answers[p] = 0
    BY DEF ConsentInit
  <2>2. /\ Cardinality(Pending(p)) = 0 /\ Cardinality(Logged(p)) = 0
        /\ Cardinality(Patched(p)) = 0
    BY <1>3, <1>4
  <2> QED BY <2>1, <2>2
<1>8. LastEventFits
  BY <1>3 DEF ConsentInit, LastEventFits
<1> QED BY <1>1, <1>5, <1>6, <1>7, <1>8 DEF ConsentInv

\* The invariant holds.
LEMMA ConsentInvHolds == ConsentSpec => []ConsentInv
<1>1. ConsentInit => ConsentInv
  BY ConsentStarts
<1>2. ConsentInv /\ [ConsentNext]_consentVars => ConsentInv'
  BY ConsentTypesStep, WritersFitStep, JobsFollowStep, StopIsCarriedStep, GateIsFreshStep,
     EventsAddUpStep, LastEventFitsStep, AnswersAddUpStep DEF ConsentInv
<1> QED BY <1>1, <1>2, PTL DEF ConsentSpec

\* What is typed in full is typed as the runs check it.
LEMMA ConsentInvTypes == ConsentInv => ConsentTypeOK
<1> SUFFICES ASSUME ConsentTypes PROVE ConsentTypeOK
  BY DEF ConsentInv
<1>1. \A p \in People : Range(trail[p]) \subseteq Entry
  <2> SUFFICES ASSUME NEW p \in People, NEW i \in DOMAIN trail[p] PROVE trail[p][i] \in Entry
    BY DEF Range
  <2> QED BY DEF ConsentTypes
<1>2. gate.step \in {"idle", "thread", "cleared"}
  BY DEF ConsentTypes, Gates
<1>3. {turns, answers} \subseteq [People -> Nat]
  BY DEF ConsentTypes
<1> QED BY <1>1, <1>2, <1>3 DEF ConsentTypes, ConsentTypeOK, Entry, Changes

\* The types of a conversation, its people, their events, the writers of consent
\* and the gate (domain/policy, server/consent.ts), for any people, keywords,
\* reps, window and bounds.
THEOREM ConsentIsTyped == ConsentSpec => []ConsentTypeOK
  BY ConsentInvHolds, ConsentInvTypes, PTL

\* After a STOP that was handled no template leaves; every decision has one event
\* and the last is the status; nobody is answered more often than they decided
\* (wa-outbound-sender, server/consent.ts, wa-consent-keyword), but for the named
\* causes.
THEOREM ConsentCorrect == ConsentSpec => ConsentIsHonoured
<1> DEFINE Obeys == gate'.step = "idle" /\ gate.step = "cleared" /\ gate.kind = "TEMPLATE"
                    /\ asked = "OPTED_OUT" /\ Heard
                    => grounds \intersect {"stale", "blind", "lost", "order", "rep", "alias"} # {}
<1>1. ConsentInv => Obeys
  <2> SUFFICES ASSUME ConsentInv, gate.step = "cleared", gate.kind = "TEMPLATE",
                      asked = "OPTED_OUT", Heard, Unblamed
               PROVE  FALSE
    BY DEF Unblamed
  <2>1. ~Refused
    BY DEF ConsentInv, GateIsFresh
  <2>2. Refused
    BY DEF ConsentInv, StopIsCarried, Heard
  <2> QED BY <2>1, <2>2
<1>2. ConsentInv => EveryDecisionHasOneEvent
  <2> SUFFICES ASSUME ConsentInv, AtRest, Traced, NEW p \in People
               PROVE  /\ Len(trail[p]) = turns[p]
                      /\ consent[p] # "UNKNOWN" => trail[p][Len(trail[p])].to = consent[p]
    BY DEF EveryDecisionHasOneEvent, Traced
  <2>1. Logged(p) = {} /\ Pending(p) = {} /\ edits = {}
    BY DEF AtRest, Logged, Pending
  <2>2. Cardinality({}) = 0
    BY FS_EmptySet
  <2>3. Len(trail[p]) \in Nat /\ turns[p] \in Nat
    BY DEF ConsentInv, ConsentTypes
  <2>4. Len(trail[p]) = turns[p]
    <3>1. Len(trail[p]) + Cardinality(Pending(p)) = turns[p] + Cardinality(Logged(p))
      BY DEF ConsentInv, EventsAddUp
    <3>2. Cardinality(Pending(p)) = 0 /\ Cardinality(Logged(p)) = 0
      BY <2>1, <2>2
    <3> QED BY <2>3, <3>1, <3>2
  <2>5. consent[p] # "UNKNOWN" => EndsIn(p, consent[p])
    BY <2>1 DEF ConsentInv, LastEventFits
  <2> QED BY <2>4, <2>5 DEF EndsIn
<1>3. ConsentInv => OneAnswerPerDecision
  <2> SUFFICES ASSUME ConsentInv, "overlap" \notin grounds, NEW p \in People
               PROVE  answers[p] <= turns[p]
    BY DEF OneAnswerPerDecision
  <2>1. Cardinality(Patched(p)) \in Nat
    BY ConsentBounds, FS_Subset, FS_CardinalityType DEF Patched
  <2>2. answers[p] \in Nat /\ turns[p] \in Nat
    BY DEF ConsentInv, ConsentTypes
  <2> QED BY <2>1, <2>2 DEF ConsentInv, AnswersAddUp
<1>4. ConsentInv /\ [ConsentNext]_consentVars => [Obeys]_consentVars
  BY <1>1
<1> HIDE DEF Obeys
<1>5. ConsentSpec => [][Obeys]_consentVars
  BY <1>4, ConsentInvHolds, PTL DEF ConsentSpec
<1>6. ConsentSpec => StopIsObeyed
  BY <1>5 DEF StopIsObeyed, Obeys
<1> QED BY <1>2, <1>3, <1>6, ConsentInvHolds, PTL DEF ConsentIsHonoured
-----------------------------------------------------------------------------
(***************************************************************************)
(* The two together.                                                       *)
(***************************************************************************)
\* What is done to a campaign or to a contact is a step of the one, and of the
\* other none.
THEOREM ConductImplements == ConductSpec => Spec /\ ConsentSpec
<1>1. ConductInit => Init /\ ConsentInit
  BY DEF ConductInit
<1>2. [ConductNext]_conductVars => [Next]_vars /\ [ConsentNext]_consentVars
  BY DEF ConductNext, conductVars
<1> QED BY <1>1, <1>2, PTL DEF ConductSpec, Spec, ConsentSpec

\* The types of both hold together.
THEOREM ConductIsTyped == ConductSpec => []ConductTypeOK
<1>1. TypeOK /\ ConsentTypeOK => ConductTypeOK
  BY DEF ConductTypeOK
<1> QED BY <1>1, ConductImplements, TypeCorrect, ConsentIsTyped, PTL
=============================================================================
