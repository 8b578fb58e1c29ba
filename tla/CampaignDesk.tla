---------------------------- MODULE CampaignDesk ----------------------------
(***************************************************************************)
(* One campaign between two people: the one who writes it in the five      *)
(* steps of CampaignBuilder, and the one who approves it in                *)
(* CampaignDetail.  Every step of the builder from the second is an update *)
(* of the record that the server serves in several awaits; the detail asks *)
(* for the pre-flight once, when it opens, and polls the record.           *)
(*                                                                         *)
(* The name, the number and the template are one value (what): the same    *)
(* step writes them.  The status is CampaignLifecycle's and the rows of a  *)
(* build are Audience's: here a build has BuildPages pages, each reads the *)
(* record and counts a recipient or none.  A builder is opened when no     *)
(* call of another is under way.                                           *)
(***************************************************************************)
EXTENDS Integers, FiniteSets

CONSTANTS
    BuildPages,
    MaxStrokes, MaxBreaks, MaxSamples, MaxOpens \* bounds: edits, calls that fail,
                                                \* previews, builders opened

ASSUME CampaignDeskAssumption ==
    /\ BuildPages \in Nat \ {0}
    /\ {MaxStrokes, MaxBreaks, MaxSamples, MaxOpens} \subseteq Nat

VARIABLES
    record,     \* the campaign's row
    built,      \* what its recipient rows were resolved from, and how many there are
    builder,    \* the writer's screen
    call,       \* the writer's request
    samples,    \* previews asked for: answers are not put in order
    detail,     \* the approver's screen
    launched,   \* the launch, once it is one
    strokes, breaks, opens, slip    \* history

campaignDeskVars == <<record, built, builder, call, samples, detail, launched,
                      strokes, breaks, opens, slip>>
serverVars == <<record, built, launched>>
tallyVars == <<strokes, breaks, opens, slip>>

Written == {"what", "audience", "mapping"}      \* SNAPSHOT_DEFINING_FIELDS
Fields == Written \union {"schedule"}
Values == 0..2                                  \* 0: not filled in, or no schedule
Content == [Fields -> Values]
Blank == [f \in Fields |-> IF f = "mapping" THEN 1 ELSE 0]

NoRecord == [status |-> "none", content |-> Blank, count |-> 0]
Closed == [step |-> -1]
NoCall == [stage |-> "none"]
NoSample == [old |-> FALSE, read |-> FALSE]
NoPreflight == [arrived |-> FALSE]
NoDetail == [open |-> FALSE, seen |-> NoRecord, preflight |-> NoPreflight, modal |-> -1,
             loaded |-> NoRecord]
ReviewStep == 4
IsOpen == builder.step >= 0

\* Each field at the step that asks for it and, with others, at the one that
\* writes it.
AskedAt(f) == CASE f = "schedule" -> 0 [] f = "what" -> 1
                [] f = "audience" -> 2 [] f = "mapping" -> 3
-----------------------------------------------------------------------------
(***************************************************************************)
(* The builder.                                                            *)
(***************************************************************************)
\* A new campaign, or the record the detail has polled: opened at the
\* furthest step already answered.
OpenedFrom(seen) ==
    [step |-> IF seen.content["audience"] # 0 THEN 3
              ELSE IF seen.content["what"] # 0 THEN 2 ELSE 0,
     form |-> seen.content, known |-> seen.status # "none", busy |-> FALSE,
     shown |-> "loading", sample |-> NoSample]

OpenBuilder ==
    /\ ~IsOpen /\ call = NoCall /\ opens < MaxOpens
    /\ opens' = opens + 1
    /\ \/ /\ record.status = "none"
          /\ builder' = OpenedFrom(NoRecord)
          /\ UNCHANGED <<detail, slip>>
       \/ /\ detail.open /\ detail.seen.status \in {"DRAFT", "READY"}
          /\ builder' = OpenedFrom(detail.seen)
          /\ slip' = slip \union (IF detail.seen.content # record.content
                                  THEN {"oldCopy"} ELSE {})
          /\ detail.modal = -1 /\ detail.loaded = NoRecord
          /\ detail' = NoDetail
    /\ UNCHANGED <<serverVars, call, samples, strokes, breaks>>

\* Nothing on the screen waits for a save under way.
Enter(f, v) ==
    /\ IsOpen /\ builder.step = AskedAt(f) /\ strokes < MaxStrokes /\ v # builder.form[f]
    /\ builder' = [builder EXCEPT !.form[f] = v]
    /\ strokes' = strokes + 1
    /\ slip' = slip \union (IF builder.busy THEN {"whileSaving"} ELSE {})
                    \union (IF f = "schedule" /\ v = 0 THEN {"unscheduled"} ELSE {})
    /\ UNCHANGED <<serverVars, call, samples, detail, breaks, opens>>

SetSchedule == \E v \in {0, 1} : Enter("schedule", v)
ChooseTemplate == \E v \in {1, 2} : Enter("what", v)
ChooseAudience == \E v \in {1, 2} : Enter("audience", v)
BindVariables == \E v \in {1, 2} : Enter("mapping", v)

Back ==
    /\ IsOpen /\ builder.step > 0
    /\ builder' = [builder EXCEPT !.step = @ - 1]
    /\ slip' = slip \union (IF builder.busy THEN {"whileSaving"} ELSE {})
    /\ UNCHANGED <<serverVars, call, samples, detail, strokes, breaks, opens>>

CloseBuilder ==
    /\ IsOpen
    /\ builder' = Closed
    /\ samples' = {}        \* their answers find no screen
    /\ UNCHANGED <<serverVars, call, detail, tallyVars>>

CanAdvance ==
    CASE builder.step = 0 -> TRUE
      [] builder.step = 1 -> builder.form["what"] # 0
      [] builder.step = 2 -> builder.form["audience"] # 0
      [] builder.step = 3 -> TRUE

\* Mutant: the second step does not write the schedule.
PatchUnscheduled(step) ==
    CASE step = 1 -> {"what"} [] step = 2 -> {"audience"} [] step = 3 -> {"mapping"}

\* What a step writes.  An empty schedule is left out of the patch.
Patch(step) ==
    CASE step = 1 -> {"what"} \union {f \in {"schedule"} : builder.form[f] # 0}
      [] step = 2 -> {"audience"}
      [] step = 3 -> {"mapping"}

\* The first step is held in memory; every other one saves before it moves.
Continue ==
    /\ IsOpen /\ builder.step < ReviewStep /\ ~builder.busy /\ CanAdvance
    /\ IF builder.step = 0
       THEN builder' = [builder EXCEPT !.step = 1] /\ call' = call
       ELSE /\ call = NoCall
            /\ builder' = [builder EXCEPT !.busy = TRUE]
            /\ call' = [stage |-> "sent", kind |-> IF builder.known THEN "update" ELSE "create",
                        step |-> builder.step, fields |-> Patch(builder.step),
                        form |-> builder.form, ok |-> TRUE]
    /\ UNCHANGED <<serverVars, samples, detail, tallyVars>>

PressBuild ==
    /\ IsOpen /\ builder.step = ReviewStep /\ ~builder.busy /\ call = NoCall /\ builder.known
    /\ builder' = [builder EXCEPT !.busy = TRUE]
    /\ call' = [stage |-> "sent", kind |-> "build", step |-> ReviewStep, fields |-> {},
                form |-> builder.form, ok |-> TRUE]
    /\ UNCHANGED <<serverVars, samples, detail, tallyVars>>

\* Mutant: the sample is asked for on arriving at the variables.
ShowsSampleEarly(c) == c.step = 2

\* persist has ended well on the third step: Review is entered.
ShowsSample(c) == c.step = 3

\* The detail of what is there now.
Detail == [NoDetail EXCEPT !.open = TRUE, !.seen = record]

\* The answer moves the screen one step on, from wherever it is by now; after
\* a build the detail is shown.
Answered ==
    /\ call.stage = "answered"
    /\ call' = NoCall
    /\ detail' = IF IsOpen /\ call.ok /\ call.kind = "build" /\ ~detail.open THEN Detail
                 ELSE detail
    /\ IF ~IsOpen THEN UNCHANGED <<builder, samples>>
       ELSE IF ~call.ok THEN builder' = [builder EXCEPT !.busy = FALSE] /\ samples' = samples
       ELSE IF call.kind = "build" THEN builder' = Closed /\ samples' = {}
       ELSE /\ ShowsSample(call) => Cardinality(samples) < MaxSamples
            /\ builder' = [builder EXCEPT !.busy = FALSE, !.known = TRUE, !.step = @ + 1,
                                          !.shown = IF ShowsSample(call) THEN "loading" ELSE @]
            /\ samples' = IF ~ShowsSample(call) THEN samples
                          ELSE {[s EXCEPT !.old = TRUE] : s \in samples} \union {NoSample}
    /\ UNCHANGED <<serverVars, tallyVars>>

\* previewCampaign: the rows of a build when there are any, pending, or else
\* the record.
PreviewRead(s) ==
    /\ ~s.read
    /\ samples' = (samples \ {s}) \union
           {[old |-> s.old, read |-> TRUE,
             of |-> IF built.rows # {} THEN CHOOSE c \in built.rows : TRUE ELSE record.content,
             rows |-> built.rows # {}]}
    /\ UNCHANGED <<serverVars, builder, call, detail, tallyVars>>

ShowSample(s) ==
    /\ s.read /\ IsOpen
    /\ samples' = samples \ {s}
    /\ builder' = [builder EXCEPT !.shown = "sample", !.sample = s]
    /\ UNCHANGED <<serverVars, call, detail, tallyVars>>
-----------------------------------------------------------------------------
(***************************************************************************)
(* wa-campaign-control, for the builder: an update loads, reopens and      *)
(* patches in three awaits.                                                *)
(***************************************************************************)
Serving(kind, stage) == call.stage = stage /\ call.kind = kind

\* The request is lost or refused, the server dies between two awaits, or the
\* answer is lost: a campaign made so is left behind, and another is made.
CallFails ==
    /\ call.stage # "none" /\ call.ok
    /\ breaks < MaxBreaks
    /\ breaks' = breaks + 1
    /\ call' = [call EXCEPT !.stage = "answered", !.ok = FALSE]
    /\ IF call.stage = "answered" /\ call.kind = "create"
       THEN record' = NoRecord /\ detail' = NoDetail
       ELSE UNCHANGED <<record, detail>>
    /\ UNCHANGED <<built, launched, builder, samples, strokes, opens, slip>>

Merged(old) == [f \in Fields |-> IF f \in call.fields THEN call.form[f] ELSE old[f]]

ServeCreate ==
    /\ Serving("create", "sent")
    /\ record' = [NoRecord EXCEPT !.status = "DRAFT", !.content = Merged(Blank)]
    /\ built' = built
    /\ call' = [call EXCEPT !.stage = "answered"]
    /\ UNCHANGED <<launched, builder, samples, detail, tallyVars>>

LoadForUpdate ==
    /\ Serving("update", "sent")
    /\ call' = IF record.status \in {"DRAFT", "READY"}
               THEN [stage |-> "loaded", kind |-> "update", step |-> call.step,
                     fields |-> call.fields, form |-> call.form, ok |-> TRUE,
                     status |-> record.status]
               ELSE [call EXCEPT !.stage = "answered", !.ok = FALSE]
    /\ UNCHANGED <<serverVars, builder, samples, detail, tallyVars>>

\* Mutant: a campaign is reopened by its template and its audience alone.
InvalidatesSome(fields, status) == status = "READY" /\ fields \intersect {"what", "audience"} # {}

\* snapshotInvalidatedBy.
Invalidates(fields, status) == status = "READY" /\ fields \intersect Written # {}

\* An edit of a built campaign makes it a draft again (transitionCampaign, on
\* the copy that was loaded, written by id).
Reopen ==
    /\ Serving("update", "loaded")
    /\ record' = IF Invalidates(call.fields, call.status)
                 THEN [record EXCEPT !.status = "DRAFT"] ELSE record
    /\ call' = [call EXCEPT !.stage = "reopened"]
    /\ UNCHANGED <<built, launched, builder, samples, detail, tallyVars>>

PatchRecord ==
    /\ Serving("update", "reopened")
    /\ record' = [record EXCEPT !.content = Merged(@)]
    /\ call' = [call EXCEPT !.stage = "answered"]
    /\ UNCHANGED <<built, launched, builder, samples, detail, tallyVars>>

\* Mutant: the counts of the last build are kept.
StartsBuildAdding ==
    /\ record' = [record EXCEPT !.status = "SNAPSHOTTING"]
    /\ built' = [rows |-> {}, pages |-> 0, round |-> built.round + 1]

\* The rows of the last build are retired, the counts are zero.
StartsBuild ==
    /\ record' = [record EXCEPT !.status = "SNAPSHOTTING", !.count = 0]
    /\ built' = [rows |-> {}, pages |-> 0, round |-> built.round + 1]

ServeBuild ==
    /\ Serving("build", "sent")
    /\ IF record.status \in {"DRAFT", "READY"} /\ record.content["audience"] # 0
       THEN StartsBuild /\ call' = [call EXCEPT !.stage = "answered"]
       ELSE /\ call' = [call EXCEPT !.stage = "answered", !.ok = FALSE]
            /\ UNCHANGED <<record, built>>
    /\ UNCHANGED <<launched, builder, samples, detail, tallyVars>>

\* A page job: it reads the record, counts, and the last one makes it READY.
\* (A page nobody of which may be written to leaves no pending row.)
BuildPage ==
    /\ record.status = "SNAPSHOTTING" /\ built.pages < BuildPages
    /\ \E n \in {0, 1} :
         /\ built' = [built EXCEPT !.pages = @ + 1,
                                   !.rows = IF n = 0 THEN @ ELSE @ \union {record.content}]
         /\ record' = [record EXCEPT !.count = @ + n,
                           !.status = IF built.pages + 1 = BuildPages THEN "READY" ELSE @]
    /\ UNCHANGED <<launched, builder, call, samples, detail, tallyVars>>
-----------------------------------------------------------------------------
(***************************************************************************)
(* The detail.                                                             *)
(***************************************************************************)
OpenDetail ==
    /\ ~detail.open /\ record.status # "none"
    /\ detail' = Detail
    /\ UNCHANGED <<serverVars, builder, call, samples, tallyVars>>

CloseDetail ==
    /\ detail.open /\ detail.modal = -1 /\ detail.loaded = NoRecord
    /\ detail' = NoDetail
    /\ UNCHANGED <<serverVars, builder, call, samples, tallyVars>>

Poll ==
    /\ detail.open /\ detail.seen # record
    /\ detail' = [detail EXCEPT !.seen = record]
    /\ UNCHANGED <<serverVars, builder, call, samples, tallyVars>>

\* Asked for when the detail opens, and not again.
PreflightArrives ==
    /\ detail.open /\ ~detail.preflight.arrived
    /\ detail' = [detail EXCEPT !.preflight =
           [arrived |-> TRUE, total |-> record.count, round |-> built.round,
            whole |-> record.status = "READY"]]
    /\ UNCHANGED <<serverVars, builder, call, samples, tallyVars>>

\* Mutant: the status is enough.
OffersLaunchBlind == detail.open /\ detail.seen.status = "READY"

OffersLaunch ==
    /\ detail.open /\ detail.seen.status = "READY"
    /\ detail.preflight.arrived /\ detail.preflight.total > 0

ShownTotal == IF detail.preflight.arrived THEN detail.preflight.total ELSE 0

\* The confirmation says how many will receive it.
PressLaunch ==
    /\ OffersLaunch /\ detail.modal = -1
    /\ detail' = [detail EXCEPT !.modal = ShownTotal]
    /\ UNCHANGED <<serverVars, builder, call, samples, tallyVars>>

Dismiss ==
    /\ detail.modal # -1 /\ detail.loaded = NoRecord
    /\ detail' = [detail EXCEPT !.modal = -1]
    /\ UNCHANGED <<serverVars, builder, call, samples, tallyVars>>

\* wa-campaign-control, launch: the record is loaded and looked at, and written
\* by id after the checks of the template, the number and the count.
Confirm ==
    /\ detail.modal # -1 /\ detail.loaded = NoRecord
    /\ detail' = IF record.status = "READY" /\ record.count > 0
                 THEN [detail EXCEPT !.loaded = record] ELSE [detail EXCEPT !.modal = -1]
    /\ UNCHANGED <<serverVars, builder, call, samples, tallyVars>>

Launch ==
    /\ detail.loaded # NoRecord
    /\ record' = [record EXCEPT !.status = "RUNNING"]
    /\ launched' =
         [shown |-> detail.modal, total |-> detail.loaded.count,
          rows |-> built.rows, content |-> record.content,
          early |-> detail.preflight.arrived /\ ~detail.preflight.whole,
          again |-> detail.preflight.arrived /\ detail.preflight.round # built.round]
    /\ slip' = slip \union (IF record # detail.loaded THEN {"raced"} ELSE {})
    /\ detail' = [detail EXCEPT !.modal = -1, !.loaded = NoRecord]
    /\ UNCHANGED <<built, builder, call, samples, strokes, breaks, opens>>
-----------------------------------------------------------------------------
Filled(v) == [f \in Fields |-> IF f = "schedule" THEN v ELSE 1]

\* No campaign yet, a draft, or one that is built.
CampaignDeskInit ==
    /\ \/ /\ record \in {NoRecord} \union
                {[status |-> "DRAFT", count |-> 0, content |-> Filled(v)] : v \in {0, 1}}
          /\ built = [rows |-> {}, pages |-> 0, round |-> 0]
       \/ /\ record = [status |-> "READY", count |-> BuildPages, content |-> Filled(0)]
          /\ built = [rows |-> {Filled(0)}, pages |-> BuildPages, round |-> 0]
    /\ builder = Closed /\ call = NoCall /\ samples = {}
    /\ detail = NoDetail
    /\ launched = [total |-> 0]
    /\ strokes = 0 /\ breaks = 0 /\ opens = 0 /\ slip = {}

CampaignDeskNext ==
    \/ OpenBuilder \/ Back \/ CloseBuilder \/ Continue \/ PressBuild \/ Answered
    \/ SetSchedule \/ ChooseTemplate \/ ChooseAudience \/ BindVariables
    \/ \E s \in samples : PreviewRead(s) \/ ShowSample(s)
    \/ CallFails \/ ServeCreate \/ LoadForUpdate \/ Reopen \/ PatchRecord \/ ServeBuild
    \/ BuildPage
    \/ OpenDetail \/ CloseDetail \/ Poll \/ PreflightArrives
    \/ PressLaunch \/ Dismiss \/ Confirm \/ Launch

CampaignDeskSpec == CampaignDeskInit /\ [][CampaignDeskNext]_campaignDeskVars
-----------------------------------------------------------------------------
(***************************************************************************)
(* Properties                                                              *)
(***************************************************************************)
CampaignDeskTypeOK ==
    /\ record.status \in {"none", "DRAFT", "SNAPSHOTTING", "READY", "RUNNING"}
    /\ record.content \in Content /\ record.count \in 0..BuildPages
    /\ built.rows \subseteq Content /\ built.pages \in 0..BuildPages /\ built.round \in Nat
    /\ IsOpen => builder.step \in 0..ReviewStep /\ builder.form \in Content
    /\ call.stage \in {"none", "sent", "loaded", "reopened", "answered"}
    /\ Cardinality(samples) <= MaxSamples
    /\ detail.open => detail.seen.status # "none"
    /\ ~detail.open => detail = NoDetail
    /\ slip \subseteq {"whileSaving", "unscheduled", "oldCopy", "raced"}

\* Whom and what an approver is shown is written by then: the summary of Review
\* is what the record says (D-61), unless something was changed while a step
\* was saved, a schedule was cleared, or the builder opened on a copy the
\* record had already left behind.
ReviewIsTrue ==
    IsOpen /\ builder.step = ReviewStep /\ ~builder.busy
        => \/ builder.form = record.content
           \/ slip \intersect {"whileSaving", "unscheduled", "oldCopy"} # {}

\* The sample on Review is of what the record says now: "the sample will be
\* current" (CampaignBuilder.tsx, next), unless it is a late one, or the rows of
\* an earlier build are still there, or the record was changed while saving.
SampleIsCurrent ==
    IsOpen /\ builder.step = ReviewStep /\ builder.shown = "sample"
        => \/ builder.sample.of = record.content
           \/ builder.sample.old \/ builder.sample.rows
           \/ slip \intersect {"whileSaving", "oldCopy"} # {}

\* Nobody launches a number of messages they were not shown (CampaignDetail,
\* Launch), unless the pre-flight was asked for before the build had ended, or
\* there has been another build since.
LaunchIsAsConfirmed ==
    launched.total # 0 => launched.shown = launched.total \/ launched.early \/ launched.again

\* What is launched was built from what the campaign says (D-28), unless the
\* writer's update and the launch passed each other.
LaunchFits ==
    launched.total # 0 /\ "raced" \notin slip =>
        \A c \in launched.rows : \A f \in Written : c[f] = launched.content[f]

\* What the two of them rely on: the four above.
ScreensAreTrue == ReviewIsTrue /\ SampleIsCurrent /\ LaunchIsAsConfirmed /\ LaunchFits
=============================================================================
